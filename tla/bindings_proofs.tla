--------------------------- MODULE bindings_proofs ---------------------------
(* Proofs about the native bindings and the virtual machine, one section each.
   They share no state, so every section is about a specification of its own. *)
EXTENDS bindings, SequenceTheorems, FiniteSetTheorems, WellFoundedInduction, TLAPS

(* lminiz: the descriptors of zip readers, for any number of readers, writers
   and descriptors, and whenever the collector runs. *)

(* The finaliser closes only if loop is set, which lmz_reader_init sees to. *)
FileReadersHaveLoops == \A z \in Zips : zips[z].kind = "file" => zips[z].loop

ZipInv == ZipTypeOK /\ ReadersOwnTheirDescriptors /\ FileReadersHaveLoops

-----------------------------------------------------------------------------
LEMMA UnallocatedType == Unallocated \in lmz_file_t
BY DEF Unallocated, lmz_file_t

(* What an index names is a name, or nothing. *)
LEMMA EntryType ==
    ASSUME ZipTypeOK, NEW z \in Zips, NEW i \in Int
    PROVE  Entry(z, i) \in Names \cup {Nil}
<1>1. zips[z].entries \in Seq(Names)
    BY DEF ZipTypeOK, lmz_file_t
<1>2. FileIndex(i) \in Nat
    BY RangeAssumption DEF FileIndex
<1>3. CASE FileIndex(i) < Len(zips[z].entries)
    <2>1. FileIndex(i) + 1 \in 1..Len(zips[z].entries)
        BY <1>1, <1>2, <1>3
    <2>2. zips[z].entries[FileIndex(i) + 1] \in Names
        BY <1>1, <2>1
    <2> QED
        BY <1>3, <2>2 DEF Entry
<1>4. CASE ~(FileIndex(i) < Len(zips[z].entries))
    BY <1>4 DEF Entry
<1> QED
    BY <1>3, <1>4

(* A userdata that is replaced by another of its type. *)
LEMMA ReplacedType ==
    ASSUME ZipTypeOK, NEW z \in Zips, NEW file \in lmz_file_t,
           zips' = [zips EXCEPT ![z] = file]
    PROVE  zips' \in [Zips -> lmz_file_t] /\ zips'[z] = file
           /\ \A other \in Zips \ {z} : zips'[other] = zips[other]
BY DEF ZipTypeOK

LEMMA ZipInitHolds == ZipInit => ZipInv
<1> SUFFICES ASSUME ZipInit PROVE ZipInv
    OBVIOUS
<1>1. ZipTypeOK
    BY UnallocatedType DEF ZipInit, ZipTypeOK
<1>2. \A z \in Zips : zips[z].kind = "none"
    BY DEF ZipInit, Unallocated
<1>3. \A d \in Descriptors : owner[d] \notin Zips
    BY OwnerAssumption DEF ZipInit
<1> QED
    BY <1>1, <1>2, <1>3 DEF ZipInv, ReadersOwnTheirDescriptors, DescriptorsHaveReaders,
       ReadersKeepTheirFiles, FileReadersHaveLoops

(* A file is opened with a descriptor nobody has. *)
LEMMA ReaderInitStep ==
    ASSUME ZipInv, NEW z \in Zips, lmz_reader_init(z)
    PROVE  ZipInv'
<1>1. PICK fd \in {d \in Descriptors : Free(d)} \cup {Nil}, valid \in BOOLEAN :
         /\ zips' = [zips EXCEPT ![z] =
              [kind |-> "file", held |-> valid, mode |-> IF valid THEN "reading" ELSE "invalid",
               loop |-> TRUE, fd |-> fd, entries |-> IF valid THEN DiskArchive ELSE <<>>]]
         /\ owner' = IF fd = Nil THEN owner ELSE [owner EXCEPT ![fd] = z]
         /\ error_message' = IF valid THEN error_message ELSE "failed"
    BY DEF lmz_reader_init
<1> DEFINE file == [kind |-> "file", held |-> valid,
               mode |-> IF valid THEN "reading" ELSE "invalid",
               loop |-> TRUE, fd |-> fd, entries |-> IF valid THEN DiskArchive ELSE <<>>]
<1>2. zips[z].kind = "none" /\ archive' = archive /\ stray' = stray
    BY DEF lmz_reader_init
<1>3. /\ file \in lmz_file_t
      /\ file.kind = "file" /\ file.fd = fd /\ file.loop
    BY ArchiveAssumption DEF lmz_file_t
<1>4. zips' = [zips EXCEPT ![z] = file]
    BY <1>1
<1> HIDE DEF file
<1>5. /\ zips' \in [Zips -> lmz_file_t] /\ zips'[z] = file
      /\ \A other \in Zips \ {z} : zips'[other] = zips[other]
    BY <1>3, <1>4, ReplacedType DEF ZipInv
<1>6. owner' \in [Descriptors -> Zips \cup {"other", "free"}]
    BY <1>1 DEF ZipInv, ZipTypeOK
<1>7. ZipTypeOK'
    BY <1>1, <1>2, <1>5, <1>6 DEF ZipInv, ZipTypeOK
<1>8. \A d \in Descriptors : owner[d] # z
    BY <1>2 DEF ZipInv, ReadersOwnTheirDescriptors, DescriptorsHaveReaders
<1>9. \A d \in Descriptors : owner'[d] = IF d = fd THEN z ELSE owner[d]
    BY <1>1, NilAssumption DEF ZipInv, ZipTypeOK
<1>10. DescriptorsHaveReaders'
    BY <1>3, <1>5, <1>8, <1>9 DEF ZipInv, ReadersOwnTheirDescriptors, DescriptorsHaveReaders
<1>11. ReadersKeepTheirFiles'
    <2> SUFFICES ASSUME ~stray, NEW r \in Zips, zips'[r].kind = "file", zips'[r].fd # Nil
                 PROVE  owner'[zips'[r].fd] = r
        BY <1>2 DEF ReadersKeepTheirFiles
    <2>1. CASE r = z
        BY <1>1, <1>3, <1>5, <1>9, <2>1
    <2>2. CASE r # z
        <3>1. owner[zips[r].fd] = r /\ zips[r].fd \in Descriptors
            BY <1>5, <2>2 DEF ZipInv, ZipTypeOK, lmz_file_t, ReadersOwnTheirDescriptors,
               ReadersKeepTheirFiles
        <3>2. zips[r].fd # fd
            BY <1>1, <3>1, OwnerAssumption, NilAssumption DEF Free
        <3> QED
            BY <1>5, <1>9, <2>2, <3>1, <3>2
    <2> QED
        BY <2>1, <2>2
<1>12. FileReadersHaveLoops'
    BY <1>3, <1>5 DEF ZipInv, FileReadersHaveLoops
<1> QED
    BY <1>7, <1>10, <1>11, <1>12 DEF ZipInv, ReadersOwnTheirDescriptors

(* Steps that leave the descriptors alone, and replace a userdata that is no
   file reader by one that is none, or a file reader by one that is. *)
LEMMA SameDescriptors ==
    ASSUME ZipInv, NEW z \in Zips, NEW file \in lmz_file_t,
           zips' = [zips EXCEPT ![z] = file], UNCHANGED <<owner, stray>>,
           archive' \in Seq(Names) \cup {Nil}, error_message' \in {"failed", Nil},
           \/ zips[z].kind # "file" /\ file.kind # "file"
           \/ file.kind = "file" /\ zips[z].kind = "file" /\ file.fd = zips[z].fd
              /\ file.loop = zips[z].loop
    PROVE  ZipInv'
<1>1. /\ zips' \in [Zips -> lmz_file_t] /\ zips'[z] = file
      /\ \A other \in Zips \ {z} : zips'[other] = zips[other]
    BY ReplacedType DEF ZipInv
<1>2. \A r \in Zips : /\ (zips'[r].kind = "file") = (zips[r].kind = "file")
                      /\ zips[r].kind = "file"
                           => zips'[r].fd = zips[r].fd /\ zips'[r].loop = zips[r].loop
    BY <1>1
<1>3. ZipTypeOK'
    BY <1>1 DEF ZipInv, ZipTypeOK
<1>4. DescriptorsHaveReaders'
    BY <1>2 DEF ZipInv, ReadersOwnTheirDescriptors, DescriptorsHaveReaders
<1>5. ReadersKeepTheirFiles'
    BY <1>2 DEF ZipInv, ReadersOwnTheirDescriptors, ReadersKeepTheirFiles
<1>6. FileReadersHaveLoops'
    BY <1>2 DEF ZipInv, FileReadersHaveLoops
<1> QED
    BY <1>3, <1>4, <1>5, <1>6 DEF ZipInv, ReadersOwnTheirDescriptors

LEMMA ReaderInitMemStep ==
    ASSUME ZipInv, NEW z \in Zips, NEW source \in {archive, Nil},
           lmz_reader_init_mem(z, source)
    PROVE  ZipInv'
<1>1. PICK pointer \in BOOLEAN, fd \in Descriptors \cup {Nil} :
         zips' = [zips EXCEPT ![z] =
           [kind |-> "memory", held |-> source # Nil,
            mode |-> IF source # Nil THEN "reading" ELSE "invalid",
            loop |-> pointer, fd |-> fd, entries |-> IF source # Nil THEN source ELSE <<>>]]
    BY DEF lmz_reader_init_mem
<1> DEFINE file == [kind |-> "memory", held |-> source # Nil,
            mode |-> IF source # Nil THEN "reading" ELSE "invalid",
            loop |-> pointer, fd |-> fd, entries |-> IF source # Nil THEN source ELSE <<>>]
<1>2. (IF source # Nil THEN source ELSE <<>>) \in Seq(Names)
    BY DEF ZipInv, ZipTypeOK
<1>3. file \in lmz_file_t /\ file.kind = "memory"
    BY <1>2 DEF lmz_file_t
<1>4. /\ zips[z].kind = "none" /\ UNCHANGED <<owner, archive, stray>>
      /\ error_message' \in {"failed", Nil}
    BY DEF lmz_reader_init_mem, ZipInv, ZipTypeOK
<1>5. zips' = [zips EXCEPT ![z] = file]
    BY <1>1
<1> HIDE DEF file
<1> QED
    BY <1>3, <1>4, <1>5, SameDescriptors DEF ZipInv, ZipTypeOK

(* The finaliser of a file reader closes its descriptor; that of a memory
   reader may close anything, which stray records. *)
LEMMA ReaderGcStep ==
    ASSUME ZipInv, NEW z \in Zips, lmz_reader_gc(z)
    PROVE  ZipInv'
<1>1. /\ zips' = [zips EXCEPT ![z] = Unallocated]
      /\ owner' = IF zips[z].loop /\ zips[z].fd # Nil
                    THEN [owner EXCEPT ![zips[z].fd] = "free"] ELSE owner
      /\ stray' = (stray \/ (zips[z].kind = "memory" /\ zips[z].loop))
      /\ UNCHANGED <<archive, error_message>>
      /\ zips[z].kind \in {"file", "memory"}
    BY DEF lmz_reader_gc
<1>2. /\ zips' \in [Zips -> lmz_file_t] /\ zips'[z] = Unallocated
      /\ \A other \in Zips \ {z} : zips'[other] = zips[other]
    BY <1>1, ReplacedType, UnallocatedType DEF ZipInv
<1>3. zips[z].loop \in BOOLEAN /\ zips[z].fd \in Descriptors \cup {Nil}
    BY DEF ZipInv, ZipTypeOK, lmz_file_t
<1>4. owner' \in [Descriptors -> Zips \cup {"other", "free"}]
    BY <1>1, <1>3 DEF ZipInv, ZipTypeOK
<1>5. ZipTypeOK'
    BY <1>1, <1>2, <1>4 DEF ZipInv, ZipTypeOK
<1>6. \A d \in Descriptors : owner'[d] = IF zips[z].loop /\ d = zips[z].fd THEN "free" ELSE owner[d]
    BY <1>1, <1>3, NilAssumption DEF ZipInv, ZipTypeOK
<1>7. Unallocated.kind = "none"
    BY DEF Unallocated
<1>8. DescriptorsHaveReaders'
    <2> SUFFICES ASSUME NEW d \in Descriptors, owner'[d] \in Zips
                 PROVE  zips'[owner'[d]].kind = "file" /\ zips'[owner'[d]].fd = d
        BY DEF DescriptorsHaveReaders
    <2>1. owner'[d] = owner[d] /\ ~(zips[z].loop /\ d = zips[z].fd)
        BY <1>6, OwnerAssumption
    <2>2. zips[owner[d]].kind = "file" /\ zips[owner[d]].fd = d
        BY <2>1 DEF ZipInv, ReadersOwnTheirDescriptors, DescriptorsHaveReaders
    <2>3. owner[d] # z
        BY <2>1, <2>2 DEF ZipInv, FileReadersHaveLoops
    <2> QED
        BY <1>2, <2>1, <2>2, <2>3
<1>9. ReadersKeepTheirFiles'
    <2> SUFFICES ASSUME ~stray', NEW r \in Zips, zips'[r].kind = "file", zips'[r].fd # Nil
                 PROVE  owner'[zips'[r].fd] = r
        BY DEF ReadersKeepTheirFiles
    <2>1. r # z /\ ~stray /\ ~(zips[z].kind = "memory" /\ zips[z].loop)
        BY <1>1, <1>2, <1>7
    <2>2. zips'[r] = zips[r] /\ zips[r].fd \in Descriptors
        BY <1>2, <2>1 DEF ZipInv, ZipTypeOK, lmz_file_t
    <2>3. owner[zips[r].fd] = r
        BY <2>1, <2>2 DEF ZipInv, ReadersOwnTheirDescriptors, ReadersKeepTheirFiles
    <2>4. ~(zips[z].loop /\ zips[r].fd = zips[z].fd)
        <3> SUFFICES ASSUME zips[z].loop, zips[r].fd = zips[z].fd PROVE FALSE
            OBVIOUS
        <3>1. zips[z].kind = "file" /\ zips[z].fd # Nil
            BY <1>1, <2>1, <2>2, NilAssumption
        <3>2. owner[zips[z].fd] = z
            BY <2>1, <3>1 DEF ZipInv, ReadersOwnTheirDescriptors, ReadersKeepTheirFiles
        <3> QED
            BY <2>1, <2>3, <3>2
    <2> QED
        BY <1>6, <2>2, <2>3, <2>4
<1>10. FileReadersHaveLoops'
    BY <1>2, <1>7 DEF ZipInv, FileReadersHaveLoops
<1> QED
    BY <1>5, <1>8, <1>9, <1>10 DEF ZipInv, ReadersOwnTheirDescriptors

LEMMA WriterInitStep ==
    ASSUME ZipInv, NEW z \in Zips, lmz_writer_init(z)
    PROVE  ZipInv'
<1> DEFINE file == [kind |-> "writer", held |-> TRUE, mode |-> "writing", loop |-> TRUE,
                    fd |-> Nil, entries |-> <<>>]
<1>1. file \in lmz_file_t /\ file.kind = "writer"
    BY DEF lmz_file_t
<1>2. /\ zips' = [zips EXCEPT ![z] = file] /\ zips[z].kind = "none"
      /\ UNCHANGED <<owner, archive, error_message, stray>>
    BY DEF lmz_writer_init
<1> HIDE DEF file
<1> QED
    BY <1>1, <1>2, SameDescriptors DEF ZipInv, ZipTypeOK

LEMMA WriterGcStep ==
    ASSUME ZipInv, NEW z \in Zips, lmz_writer_gc(z)
    PROVE  ZipInv'
<1>1. Unallocated.kind = "none"
    BY DEF Unallocated
<1> QED
    BY <1>1, UnallocatedType, SameDescriptors DEF lmz_writer_gc, ZipInv, ZipTypeOK

(* One field of a userdata changes. *)
LEMMA AddEntryStep ==
    ASSUME ZipInv, NEW z \in Zips, NEW name \in Names, AddEntry(z, name)
    PROVE  ZipInv'
<1> DEFINE file == [zips[z] EXCEPT !.entries = Append(@, name)]
<1>1. zips[z] \in lmz_file_t
    BY DEF ZipInv, ZipTypeOK
<1>2. Append(zips[z].entries, name) \in Seq(Names)
    BY <1>1 DEF lmz_file_t
<1>3. /\ file \in lmz_file_t /\ file.kind = zips[z].kind /\ file.fd = zips[z].fd
      /\ file.loop = zips[z].loop
    BY <1>1, <1>2 DEF lmz_file_t
<1>4. zips' = [zips EXCEPT ![z] = file] /\ UNCHANGED <<owner, archive, error_message, stray>>
    BY DEF AddEntry
<1> HIDE DEF file
<1> QED
    BY <1>3, <1>4, SameDescriptors DEF ZipInv, ZipTypeOK

LEMMA FinalizeStep ==
    ASSUME ZipInv, NEW z \in Zips, lmz_writer_finalize(z)
    PROVE  ZipInv'
<1> DEFINE file == [zips[z] EXCEPT !.mode = "finalized"]
<1>1. zips[z] \in lmz_file_t
    BY DEF ZipInv, ZipTypeOK
<1>2. /\ file \in lmz_file_t /\ file.kind = zips[z].kind /\ file.fd = zips[z].fd
      /\ file.loop = zips[z].loop /\ zips[z].entries \in Seq(Names)
    BY <1>1 DEF lmz_file_t
<1>3. /\ zips' = [zips EXCEPT ![z] = file] /\ archive' = zips[z].entries
      /\ UNCHANGED <<owner, error_message, stray>>
    BY DEF lmz_writer_finalize
<1> HIDE DEF file
<1> QED
    BY <1>2, <1>3, SameDescriptors DEF ZipInv, ZipTypeOK

LEMMA DropStep ==
    ASSUME ZipInv, NEW z \in Zips, DropZip(z)
    PROVE  ZipInv'
<1> DEFINE file == [zips[z] EXCEPT !.held = FALSE]
<1>1. zips[z] \in lmz_file_t
    BY DEF ZipInv, ZipTypeOK
<1>2. /\ file \in lmz_file_t /\ file.kind = zips[z].kind /\ file.fd = zips[z].fd
      /\ file.loop = zips[z].loop
    BY <1>1 DEF lmz_file_t
<1>3. zips' = [zips EXCEPT ![z] = file] /\ UNCHANGED <<owner, archive, error_message, stray>>
    BY DEF DropZip
<1> HIDE DEF file
<1> QED
    BY <1>2, <1>3, SameDescriptors DEF ZipInv, ZipTypeOK

(* Other code opens only what is free and closes only what it opened. *)
LEMMA OtherFileStep ==
    ASSUME ZipInv, NEW d \in Descriptors, OtherFile(d)
    PROVE  ZipInv'
<1>1. /\ UNCHANGED <<zips, archive, error_message, stray>>
      /\ owner' \in [Descriptors -> Zips \cup {"other", "free"}]
      /\ owner[d] \in {"other", "free"} /\ owner'[d] \in {"other", "free"}
      /\ \A e \in Descriptors \ {d} : owner'[e] = owner[e]
    BY DEF OtherFile, Free, ZipInv, ZipTypeOK
<1>2. \A e \in Descriptors, z \in Zips : (owner'[e] = z) = (owner[e] = z)
    BY <1>1, OwnerAssumption
<1>3. ZipTypeOK'
    BY <1>1 DEF ZipInv, ZipTypeOK
<1>4. DescriptorsHaveReaders'
    BY <1>1, <1>2 DEF ZipInv, ReadersOwnTheirDescriptors, DescriptorsHaveReaders
<1>5. \A z \in Zips : zips[z].fd # Nil => zips[z].fd \in Descriptors
    BY DEF ZipInv, ZipTypeOK, lmz_file_t
<1>6. ReadersKeepTheirFiles'
    BY <1>1, <1>2, <1>5 DEF ZipInv, ReadersOwnTheirDescriptors, ReadersKeepTheirFiles
<1> QED
    BY <1>1, <1>3, <1>4, <1>6 DEF ZipInv, ReadersOwnTheirDescriptors, FileReadersHaveLoops

-----------------------------------------------------------------------------
LEMMA ZipStepHolds == ZipInv /\ [ZipNext]_zipVars => ZipInv'
<1> SUFFICES ASSUME ZipInv, [ZipNext]_zipVars PROVE ZipInv'
    OBVIOUS
<1>1. ASSUME NEW z \in Zips, NEW source \in Zips, NEW i \in 0..MaxEntries,
             lmz_writer_add_from_zip_reader(z, source, i)
      PROVE  ZipInv'
    <2>1. Entry(source, i) \in Names
        BY <1>1, EntryType, ArchiveAssumption DEF lmz_writer_add_from_zip_reader, ZipInv
    <2> QED
        BY <1>1, <2>1, AddEntryStep DEF lmz_writer_add_from_zip_reader
<1>2. ASSUME NEW z \in Zips, NEW name \in Names, lmz_writer_add_mem(z, name)
      PROVE  ZipInv'
    BY <1>2, AddEntryStep DEF lmz_writer_add_mem
<1>3. CASE lmz_last_error
    BY <1>3 DEF lmz_last_error, ZipInv, ZipTypeOK, ReadersOwnTheirDescriptors,
       DescriptorsHaveReaders, ReadersKeepTheirFiles, FileReadersHaveLoops
<1>4. CASE UNCHANGED zipVars
    BY <1>4 DEF zipVars, ZipInv, ZipTypeOK, ReadersOwnTheirDescriptors,
       DescriptorsHaveReaders, ReadersKeepTheirFiles, FileReadersHaveLoops
<1>5. CASE ZipNext
    BY <1>1, <1>2, <1>3, <1>5, ReaderInitStep, ReaderInitMemStep, ReaderGcStep,
       WriterInitStep, WriterGcStep, FinalizeStep, DropStep, OtherFileStep DEF ZipNext
<1> QED
    BY <1>4, <1>5

(* Userdata, descriptors and archives have their types. *)
THEOREM ZipTypeCorrect == ZipSpec => []ZipTypeOK
<1>1. ZipInv => ZipTypeOK
    BY DEF ZipInv
<1> QED
    BY <1>1, ZipInitHolds, ZipStepHolds, PTL DEF ZipSpec

(* The descriptors that zip readers open are closed by the finaliser of that very
   reader and not before, unless a reader of a string has closed one it never
   opened (lmz_reader_init, lmz_reader_gc). *)
THEOREM ReadersOwnDescriptors == ZipSpec => []ReadersOwnTheirDescriptors
<1>1. ZipInv => ReadersOwnTheirDescriptors
    BY DEF ZipInv
<1> QED
    BY <1>1, ZipInitHolds, ZipStepHolds, PTL DEF ZipSpec

(* Indices are unsigned integers, and an archive has fewer entries than there
   are of those: then no index comes around to a file. *)
ArchivesFit ==
    /\ \A z \in Zips : Len(zips[z].entries) < UINT_RANGE
    /\ archive = Nil \/ Len(archive) < UINT_RANGE

LEMMA IndexOfEntry ==
    ASSUME ZipTypeOK, NEW z \in Zips, Len(zips[z].entries) < UINT_RANGE
    PROVE  /\ \A i \in 1..Len(zips[z].entries) :
                /\ FileIndex(i) = i - 1 /\ Entry(z, i) = zips[z].entries[i]
                /\ Entry(z, i) \in Names
           /\ Entry(z, 0) = Nil /\ Entry(z, Len(zips[z].entries) + 1) = Nil
<1> DEFINE n == Len(zips[z].entries)
<1>1. zips[z].entries \in Seq(Names) /\ n \in Nat
    BY DEF ZipTypeOK, lmz_file_t
<1>2. UINT_RANGE \in Nat /\ UINT_RANGE > 0 /\ n < UINT_RANGE
    BY <1>1, RangeAssumption
<1>3. \A i \in 1..(n + 1) : FileIndex(i) = i - 1
    <2> SUFFICES ASSUME NEW i \in 1..(n + 1) PROVE (i - 1) % UINT_RANGE = i - 1
        BY DEF FileIndex
    <2>1. i - 1 \in Nat /\ i - 1 < UINT_RANGE
        BY <1>1, <1>2
    <2> QED
        BY <1>2, <2>1
<1>4. FileIndex(0) = UINT_RANGE - 1
    <2>1. (0 - 1) % UINT_RANGE = UINT_RANGE - 1
        BY <1>2
    <2> QED
        BY <2>1 DEF FileIndex
<1>5. Entry(z, 0) = Nil
    BY <1>1, <1>2, <1>4 DEF Entry
<1>6. Entry(z, n + 1) = Nil
    <2>1. FileIndex(n + 1) = n
        BY <1>1, <1>3
    <2> QED
        BY <1>1, <2>1 DEF Entry
<1>7. ASSUME NEW i \in 1..n
      PROVE  FileIndex(i) = i - 1 /\ Entry(z, i) = zips[z].entries[i] /\ Entry(z, i) \in Names
    <2>1. FileIndex(i) = i - 1 /\ FileIndex(i) < n /\ FileIndex(i) + 1 = i
        BY <1>1, <1>3
    <2>2. Entry(z, i) = zips[z].entries[i]
        BY <2>1 DEF Entry
    <2>3. zips[z].entries[i] \in Names
        BY <1>1
    <2> QED
        BY <2>1, <2>2, <2>3
<1> QED
    BY <1>5, <1>6, <1>7

LEMMA FittingArchivesAgree == ZipTypeOK /\ ArchivesFit => IndicesAgree
<1> SUFFICES ASSUME ZipTypeOK, ArchivesFit, NEW z \in Zips
             PROVE  /\ \A name \in Range(zips[z].entries) :
                         lmz_reader_get_filename(z, lmz_reader_locate_file(z, name)) = name
                    /\ \A i \in 1..lmz_reader_get_num_files(z) :
                         lmz_reader_extract(z, lmz_reader_stat(z, i).index + 1)
                             = lmz_reader_get_filename(z, i)
                    /\ \A i \in {0, lmz_reader_get_num_files(z) + 1} :
                         lmz_reader_stat(z, i) = Nil /\ lmz_reader_extract(z, i) = "empty"
    BY DEF IndicesAgree
<1> DEFINE n == Len(zips[z].entries)
<1>1. n < UINT_RANGE /\ zips[z].entries \in Seq(Names)
    BY DEF ArchivesFit, ZipTypeOK, lmz_file_t
<1>2. /\ \A i \in 1..n : /\ FileIndex(i) = i - 1 /\ Entry(z, i) = zips[z].entries[i]
                         /\ Entry(z, i) \in Names
      /\ Entry(z, 0) = Nil /\ Entry(z, n + 1) = Nil
    BY <1>1, IndexOfEntry
<1>3. ASSUME NEW name \in Range(zips[z].entries)
      PROVE  lmz_reader_get_filename(z, lmz_reader_locate_file(z, name)) = name
    <2>1. \E i \in 1..n : zips[z].entries[i] = name
        BY <1>1 DEF Range
    <2>2. /\ lmz_reader_locate_file(z, name) \in 1..n
          /\ zips[z].entries[lmz_reader_locate_file(z, name)] = name
        BY <2>1 DEF lmz_reader_locate_file
    <2> QED
        BY <1>2, <2>2 DEF lmz_reader_get_filename
<1>4. ASSUME NEW i \in 1..n
      PROVE  lmz_reader_extract(z, lmz_reader_stat(z, i).index + 1) = lmz_reader_get_filename(z, i)
    <2>1. Entry(z, i) # Nil
        BY <1>2, NilAssumption
    <2>2. lmz_reader_stat(z, i).index = i - 1
        BY <1>2, <2>1 DEF lmz_reader_stat
    <2>3. lmz_reader_stat(z, i).index + 1 = i
        BY <2>2
    <2> QED
        BY <2>1, <2>3 DEF lmz_reader_extract, lmz_reader_get_filename
<1>5. \A i \in {0, n + 1} : lmz_reader_stat(z, i) = Nil /\ lmz_reader_extract(z, i) = "empty"
    BY <1>2 DEF lmz_reader_stat, lmz_reader_extract
<1> QED
    BY <1>3, <1>4, <1>5 DEF lmz_reader_get_num_files

(* Every archive is the one on disk, one that was made before, or a writer's. *)
LEMMA ArchivesFitStep == ZipInv /\ ArchivesFit /\ [ZipNext]_zipVars => ArchivesFit'
<1> SUFFICES ASSUME ZipInv, ArchivesFit, [ZipNext]_zipVars PROVE ArchivesFit'
    OBVIOUS
<1>1. ZipTypeOK /\ UINT_RANGE \in Nat /\ UINT_RANGE > 0
    BY RangeAssumption DEF ZipInv
<1>2. \A z \in Zips : zips[z] \in lmz_file_t /\ zips[z].entries \in Seq(Names)
    BY <1>1 DEF ZipTypeOK, lmz_file_t
<1>3. Len(<<>>) = 0
    OBVIOUS
<1>4. ASSUME NEW z \in Zips, NEW file, zips' = [zips EXCEPT ![z] = file], archive' = archive,
             Len(file.entries) < UINT_RANGE
      PROVE  ArchivesFit'
    BY <1>1, <1>4 DEF ArchivesFit, ZipTypeOK
<1>5. ASSUME NEW z \in Zips, lmz_reader_init(z) PROVE ArchivesFit'
    <2>1. PICK fd \in {d \in Descriptors : Free(d)} \cup {Nil}, valid \in BOOLEAN :
            zips' = [zips EXCEPT ![z] =
              [kind |-> "file", held |-> valid, mode |-> IF valid THEN "reading" ELSE "invalid",
               loop |-> TRUE, fd |-> fd, entries |-> IF valid THEN DiskArchive ELSE <<>>]]
        BY <1>5 DEF lmz_reader_init
    <2>2. Len(IF valid THEN DiskArchive ELSE <<>>) < UINT_RANGE
        BY <1>1, <1>3, EntriesAssumption
    <2> QED
        BY <1>4, <1>5, <2>1, <2>2 DEF lmz_reader_init
<1>6. ASSUME NEW z \in Zips, NEW source \in {archive, Nil}, lmz_reader_init_mem(z, source)
      PROVE  ArchivesFit'
    <2>1. PICK pointer \in BOOLEAN, fd \in Descriptors \cup {Nil} :
            zips' = [zips EXCEPT ![z] =
              [kind |-> "memory", held |-> source # Nil,
               mode |-> IF source # Nil THEN "reading" ELSE "invalid",
               loop |-> pointer, fd |-> fd, entries |-> IF source # Nil THEN source ELSE <<>>]]
        BY <1>6 DEF lmz_reader_init_mem
    <2>2. Len(IF source # Nil THEN source ELSE <<>>) < UINT_RANGE
        BY <1>1, <1>3 DEF ArchivesFit
    <2> QED
        BY <1>4, <1>6, <2>1, <2>2 DEF lmz_reader_init_mem
<1>7. ASSUME NEW z \in Zips, lmz_reader_gc(z) \/ lmz_writer_gc(z) PROVE ArchivesFit'
    <2>1. Len(Unallocated.entries) < UINT_RANGE
        BY <1>1, <1>3 DEF Unallocated
    <2> QED
        BY <1>4, <1>7, <2>1 DEF lmz_reader_gc, lmz_writer_gc
<1>8. ASSUME NEW z \in Zips, lmz_writer_init(z) PROVE ArchivesFit'
    <2> DEFINE file == [kind |-> "writer", held |-> TRUE, mode |-> "writing", loop |-> TRUE,
                        fd |-> Nil, entries |-> <<>>]
    <2>1. file.entries = <<>>
        OBVIOUS
    <2>2. zips' = [zips EXCEPT ![z] = file] /\ archive' = archive
        BY <1>8 DEF lmz_writer_init
    <2> HIDE DEF file
    <2> QED
        BY <1>1, <1>3, <1>4, <2>1, <2>2
<1>9. ASSUME NEW z \in Zips, NEW name, AddEntry(z, name) PROVE ArchivesFit'
    <2> DEFINE file == [zips[z] EXCEPT !.entries = Append(@, name)]
    <2>1. file.entries = Append(zips[z].entries, name)
        BY <1>2 DEF lmz_file_t
    <2>2. Len(Append(zips[z].entries, name)) = Len(zips[z].entries) + 1 /\ Len(zips[z].entries) \in Nat
        BY <1>2
    <2>3. Len(zips[z].entries) < MaxEntries
        BY <1>9 DEF AddEntry
    <2>4. Len(file.entries) < UINT_RANGE
        BY <1>1, <2>1, <2>2, <2>3, EntriesAssumption, ArchiveAssumption
    <2>5. zips' = [zips EXCEPT ![z] = file] /\ archive' = archive
        BY <1>1, <1>9 DEF AddEntry, ZipTypeOK
    <2> HIDE DEF file
    <2> QED
        BY <1>4, <2>4, <2>5
<1>10. ASSUME NEW z \in Zips, lmz_writer_finalize(z) PROVE ArchivesFit'
    <2>1. \A r \in Zips : zips'[r].entries = zips[r].entries
        BY <1>1, <1>2, <1>10 DEF lmz_writer_finalize, ZipTypeOK, lmz_file_t
    <2>2. archive' = zips[z].entries
        BY <1>10 DEF lmz_writer_finalize
    <2> QED
        BY <2>1, <2>2 DEF ArchivesFit
<1>11. ASSUME NEW z \in Zips, DropZip(z) PROVE ArchivesFit'
    <2>1. \A r \in Zips : zips'[r].entries = zips[r].entries
        BY <1>1, <1>2, <1>11 DEF DropZip, ZipTypeOK, lmz_file_t
    <2> QED
        BY <1>11, <2>1 DEF DropZip, ArchivesFit
<1>12. CASE (\E d \in Descriptors : OtherFile(d)) \/ lmz_last_error \/ UNCHANGED zipVars
    <2>1. zips' = zips /\ archive' = archive
        BY <1>12 DEF OtherFile, lmz_last_error, zipVars
    <2> QED
        BY <2>1 DEF ArchivesFit
<1> QED
    BY <1>5, <1>6, <1>7, <1>8, <1>9, <1>10, <1>11, <1>12
       DEF ZipNext, lmz_writer_add_mem, lmz_writer_add_from_zip_reader

(* For every archive that has fewer entries than there are unsigned integers, the
   functions of a reader agree on what an index means, and neither 0 nor an
   index behind the last one comes around to a file. *)
THEOREM IndicesAlwaysAgree == ZipSpec => []IndicesAgree
<1>1. ZipInit => ArchivesFit
    <2> SUFFICES ASSUME ZipInit PROVE ArchivesFit
        OBVIOUS
    <2>1. \A z \in Zips : zips[z].entries = <<>>
        BY DEF ZipInit, Unallocated
    <2>2. Len(<<>>) = 0 /\ UINT_RANGE \in Nat /\ UINT_RANGE > 0
        BY RangeAssumption
    <2> QED
        BY <2>1, <2>2 DEF ZipInit, ArchivesFit
<1>2. ZipInv /\ ArchivesFit => IndicesAgree
    BY FittingArchivesAgree DEF ZipInv
<1> QED
    BY <1>1, <1>2, ZipInitHolds, ZipStepHolds, ArchivesFitStep, PTL DEF ZipSpec

-----------------------------------------------------------------------------
(* iconv: a script that calls iconv_try_close for failed conversions only closes
   no descriptor twice, and none is lost by a conversion that succeeds, for every
   set of descriptors and any lengths. *)

Failures == {"CONVERSION_FAILED", "INCOMPLETE_INPUT", "WRITEBUFFER_FULL"}

(* What makes the account of the open descriptors inductive: nobody else has one
   of the script's own, and a conversion that failed has left a handle, though
   perhaps an invalid one. *)
Accounted ==
    /\ ~fault /\ OpenDescriptorsAreAccounted
    /\ own \cap abandoned = {}
    /\ unfinished => request.handle # NULL

IconvInv == IconvTypeOK /\ (~misused => Accounted)

-----------------------------------------------------------------------------
(* The errors that iconv sets are failures of the conversion. *)
LEMMA ErrnoIsFailure ==
    ASSUME NEW input, NEW output, NEW errno \in {"EILSEQ", "EINVAL", "none"},
           iconv_outcome(input, output, errno) # "OK"
    PROVE  iconv_check_errno(iconv_outcome(input, output, errno)) \in Failures
BY DEF iconv_outcome, iconv_check_errno, Failures

(* A cursor that advances by no more than remains stays within its area. *)
LEMMA AdvanceType ==
    ASSUME NEW memory \in Memory, NEW n \in Nat, n <= memory.remaining
    PROVE  Advance(memory, n) \in Memory
BY MaxLengthIsNatural DEF Advance, Memory

LEMMA AreaType == NullArea \in Memory /\ \A n \in 0..MaxLength : Area(n) \in Memory
<1>1. 0 \in 0..MaxLength
    BY MaxLengthIsNatural
<1> QED
    BY <1>1 DEF Area, NullArea, Memory

LEMMA IconvInitHolds == IconvInit => IconvInv
<1> SUFFICES ASSUME IconvInit PROVE IconvInv
    OBVIOUS
<1>1. NullArea \in Memory
    BY AreaType
<1>2. IconvTypeOK
    BY <1>1 DEF IconvInit, IconvTypeOK, IconvResults
<1>3. Accounted
    BY DEF IconvInit, Accounted, OpenDescriptorsAreAccounted
<1> QED
    BY <1>2, <1>3 DEF IconvInv

(* New areas change nothing about descriptors. *)
LEMMA NewRequestStep ==
    ASSUME IconvInv, NEW input \in Memory, NEW output \in Memory, NewRequest(input, output)
    PROVE  IconvInv'
<1>1. request' \in [input : Memory, output : Memory, handle : Handles \cup {NULL, "invalid"}]
      /\ request'.handle = request.handle
    BY DEF IconvInv, IconvTypeOK, NewRequest
<1> QED
    BY <1>1 DEF IconvInv, IconvTypeOK, NewRequest, Accounted, OpenDescriptorsAreAccounted,
                iconvHistory

(* Closing finds the descriptor of the failed conversion open, if it is called for
   one. *)
LEMMA TryCloseStep ==
    ASSUME IconvInv, iconv_try_close
    PROVE  IconvInv'
<1>0. /\ IconvTypeOK /\ unfinished' = FALSE
      /\ request' = request /\ own' = own /\ abandoned' = abandoned
    BY DEF IconvInv, iconv_try_close
<1>1. CASE request.handle = NULL \/ ~sanity_check_descriptor(request.handle)
    <2>1. /\ result' = "INVALID_DESCRIPTOR"
          /\ UNCHANGED <<opened, fault, misused>>
        BY <1>1 DEF iconv_try_close
    <2>2. IconvTypeOK'
        BY <1>0, <2>1 DEF IconvTypeOK, IconvResults
    <2>3. ASSUME ~misused PROVE Accounted'
        <3>1. Accounted
            BY <2>3 DEF IconvInv
        <3>2. opened = own \cup abandoned
            BY <1>1, <3>1 DEF Accounted, OpenDescriptorsAreAccounted, sanity_check_descriptor
        <3> QED
            BY <1>0, <2>1, <3>1, <3>2 DEF Accounted, OpenDescriptorsAreAccounted
    <2> QED
        BY <2>1, <2>2, <2>3 DEF IconvInv
<1>2. CASE ~(request.handle = NULL \/ ~sanity_check_descriptor(request.handle))
    <2>1. /\ Close(request.handle)
          /\ result' \in {"OK", "LAST"}
          /\ misused' = (misused \/ ~unfinished)
        BY <1>2 DEF iconv_try_close
    <2>2. opened' \subseteq opened /\ (fault' = TRUE \/ fault' = fault)
        BY <2>1 DEF Close
    <2>3. IconvTypeOK'
        BY <1>0, <2>1, <2>2 DEF IconvTypeOK, IconvResults
    <2>4. ASSUME ~misused' PROVE Accounted'
        <3>1. ~misused /\ unfinished = TRUE /\ Accounted
            BY <1>0, <2>1, <2>4 DEF IconvInv, IconvTypeOK
        <3>2. request.handle # "invalid"
            BY <1>2 DEF sanity_check_descriptor
        <3>3. /\ opened = own \cup abandoned \cup {request.handle}
              /\ request.handle \notin own \cup abandoned
            BY <3>1, <3>2 DEF Accounted, OpenDescriptorsAreAccounted
        <3>4. opened' = own \cup abandoned /\ fault' = fault
            BY <2>1, <3>3 DEF Close
        <3> QED
            BY <1>0, <3>1, <3>4 DEF Accounted, OpenDescriptorsAreAccounted
    <2> QED
        BY <2>3, <2>4 DEF IconvInv
<1> QED
    BY <1>1, <1>2

(* The script's own descriptors. *)
LEMMA OwnStep ==
    ASSUME IconvInv, NEW handle \in Handles, iconv_open(handle) \/ iconv_close(handle)
    PROVE  IconvInv'
<1>0. /\ IconvTypeOK
      /\ request' = request /\ result' = result
      /\ abandoned' = abandoned /\ unfinished' = unfinished /\ misused' = misused
    BY DEF IconvInv, iconv_open, iconv_close, iconvHistory
<1>1. CASE iconv_open(handle)
    <2>1. /\ handle \notin opened /\ fault' = fault
          /\ opened' = opened \cup {handle} /\ own' = own \cup {handle}
        BY <1>1 DEF iconv_open
    <2>2. IconvTypeOK'
        BY <1>0, <2>1 DEF IconvTypeOK
    <2>3. ASSUME ~misused PROVE Accounted'
        <3>1. Accounted
            BY <2>3 DEF IconvInv
        <3> QED
            BY <1>0, <2>1, <3>1 DEF Accounted, OpenDescriptorsAreAccounted
    <2> QED
        BY <1>0, <2>2, <2>3 DEF IconvInv
<1>2. CASE iconv_close(handle)
    <2>1. handle \in own /\ own' = own \ {handle} /\ Close(handle)
        BY <1>2 DEF iconv_close
    <2>2. IconvTypeOK'
        BY <1>0, <2>1 DEF IconvTypeOK, Close
    <2>3. ASSUME ~misused PROVE Accounted'
        <3>1. Accounted
            BY <2>3 DEF IconvInv
        <3>2. handle \in opened /\ handle \notin abandoned
            BY <2>1, <3>1 DEF Accounted, OpenDescriptorsAreAccounted
        <3>3. opened' = opened \ {handle} /\ fault' = fault
            BY <2>1, <3>2 DEF Close
        <3> QED
            BY <1>0, <2>1, <3>1, <3>3 DEF Accounted, OpenDescriptorsAreAccounted
    <2> QED
        BY <1>0, <2>2, <2>3 DEF IconvInv
<1> QED
    BY <1>1, <1>2

(* The descriptors when a call of iconv_convert has got a new handle, which is
   left open exactly if the call fails. *)
LEMMA NewHandle ==
    ASSUME IconvInv,
           NEW handle \in (Handles \ opened) \cup {"invalid"},
           request'.handle = handle,
           LoseHandle,
           \/ unfinished' = FALSE /\ opened' = opened
           \/ unfinished' = TRUE /\ opened' = opened \cup ({handle} \ {"invalid"})
    PROVE  /\ ~misused' => Accounted'
           /\ opened' \subseteq Handles /\ own' \subseteq Handles /\ abandoned' \subseteq Handles
           /\ fault' = fault /\ misused' = misused
<1>0. IconvTypeOK /\ own' = own /\ fault' = fault /\ misused' = misused
      /\ abandoned' = abandoned \cup (IF unfinished THEN {request.handle} \cap Handles ELSE {})
    BY DEF IconvInv, LoseHandle
<1>1. opened' \subseteq Handles /\ own' \subseteq Handles /\ abandoned' \subseteq Handles
    BY <1>0 DEF IconvTypeOK
<1>2. ASSUME ~misused PROVE Accounted'
    <2>1. Accounted
        BY <1>2 DEF IconvInv
    <2>2. /\ opened = own \cup abandoned' /\ own \cap abandoned' = {}
        <3>1. CASE unfinished
            <4>1. request.handle \in Handles \cup {"invalid"}
                BY <1>0, <2>1, <3>1 DEF Accounted, IconvTypeOK
            <4> QED
                BY <1>0, <2>1, <3>1, <4>1, NoHandle DEF Accounted, OpenDescriptorsAreAccounted
        <3>2. CASE ~unfinished
            BY <1>0, <2>1, <3>2 DEF Accounted, OpenDescriptorsAreAccounted
        <3> QED
            BY <3>1, <3>2
    <2>3. handle # NULL /\ handle \notin opened
        BY <1>0, NoHandle DEF IconvTypeOK
    <2>4. OpenDescriptorsAreAccounted'
        BY <1>0, <2>2, <2>3 DEF OpenDescriptorsAreAccounted
    <2> QED
        BY <1>0, <2>1, <2>2, <2>3, <2>4 DEF Accounted
<1> QED
    BY <1>0, <1>1, <1>2

LEMMA ConvertStep ==
    ASSUME IconvInv,
           NEW handle \in Handles \ opened, NEW errno \in {"EILSEQ", "EINVAL", "none"},
           Convert(handle, errno)
    PROVE  IconvInv'
<1> DEFINE outcome == iconv_outcome(request.input, request.output, errno)
<1>1. PICK n \in 0..request.input.remaining :
        /\ n <= request.output.remaining
        /\ request' = [input |-> Advance(request.input, n),
                       output |-> Advance(request.output, n), handle |-> handle]
        /\ LoseHandle
        /\ unfinished' = (outcome # "OK")
        /\ IF outcome = "OK" THEN result' = "OK" /\ UNCHANGED opened
           ELSE result' = iconv_check_errno(outcome) /\ opened' = opened \cup {handle}
    BY DEF Convert
<1>2. request.input \in Memory /\ request.output \in Memory
    BY DEF IconvInv, IconvTypeOK
<1>3. n \in Nat /\ n <= request.input.remaining
    BY <1>1, <1>2 DEF Memory
<1>4. Advance(request.input, n) \in Memory /\ Advance(request.output, n) \in Memory
    BY <1>1, <1>2, <1>3, AdvanceType
<1>5. request' \in [input : Memory, output : Memory, handle : Handles \cup {NULL, "invalid"}]
      /\ request'.handle = handle
    BY <1>1, <1>4
<1>6. \/ result' = "OK" /\ unfinished' = FALSE /\ opened' = opened
      \/ result' \in Failures /\ unfinished' = TRUE /\ opened' = opened \cup {handle}
    BY <1>1, ErrnoIsFailure
<1>7. handle # "invalid"
    BY NoHandle
<1>8. \/ unfinished' = FALSE /\ opened' = opened
      \/ unfinished' = TRUE /\ opened' = opened \cup ({handle} \ {"invalid"})
    BY <1>6, <1>7
<1>9. /\ ~misused' => Accounted'
      /\ opened' \subseteq Handles /\ own' \subseteq Handles /\ abandoned' \subseteq Handles
      /\ fault' = fault /\ misused' = misused
    BY <1>1, <1>5, <1>8, NewHandle
<1>10. result' \in IconvResults /\ unfinished' \in BOOLEAN
    BY <1>6 DEF Failures, IconvResults
<1> QED
    BY <1>5, <1>9, <1>10 DEF IconvInv, IconvTypeOK

LEMMA IconvConvertStep ==
    ASSUME IconvInv, iconv_convert
    PROVE  IconvInv'
<1>1. CASE ~sanity_check_buffer(request.input) \/ ~sanity_check_buffer(request.output)
    <2>1. /\ result' \in {"INVALID_INPUT", "INVALID_OUTPUT"}
          /\ UNCHANGED <<request, opened, fault, own, iconvHistory>>
        BY <1>1 DEF iconv_convert
    <2> QED
        BY <2>1 DEF IconvInv, IconvTypeOK, IconvResults, Accounted,
           OpenDescriptorsAreAccounted, iconvHistory
<1>2. CASE /\ request' = [request EXCEPT !.handle = "invalid"]
           /\ LoseHandle
           /\ result' = iconv_check_errno("EINVAL")
           /\ unfinished' = TRUE
           /\ UNCHANGED opened
    <2>1. result' = "INCOMPLETE_INPUT"
        BY <1>2 DEF iconv_check_errno
    <2>2. request' \in [input : Memory, output : Memory, handle : Handles \cup {NULL, "invalid"}]
          /\ request'.handle = "invalid"
        BY <1>2 DEF IconvInv, IconvTypeOK
    <2>3. /\ ~misused' => Accounted'
          /\ opened' \subseteq Handles /\ own' \subseteq Handles /\ abandoned' \subseteq Handles
          /\ fault' = fault /\ misused' = misused
        BY <1>2, <2>2, NewHandle
    <2> QED
        BY <1>2, <2>1, <2>2, <2>3 DEF IconvInv, IconvTypeOK, IconvResults
<1>3. CASE \E handle \in Handles \ opened, errno \in {"EILSEQ", "EINVAL", "none"} :
             Convert(handle, errno)
    BY <1>3, ConvertStep
<1> QED
    BY <1>1, <1>2, <1>3 DEF iconv_convert

(* iconv_convert, iconv_try_close and the bindings of iconv_open and iconv_close, in
   any order: unless a script calls iconv_try_close when no conversion has failed
   since, no descriptor is closed twice, none of the script's own is closed behind
   its back, and those that are open are its own, the one of a conversion that
   failed and those given up by retrying. *)
THEOREM DescriptorsAreClosed == IconvSpec => [](IconvTypeOK /\ DescriptorsAreClosedOnce)
<1>1. IconvInit => IconvInv
    BY IconvInitHolds
<1>2. IconvInv /\ [IconvNext]_iconvVars => IconvInv'
    <2> SUFFICES ASSUME IconvInv, [IconvNext]_iconvVars PROVE IconvInv'
        OBVIOUS
    <2>1. CASE \E input, output \in {Area(n) : n \in 0..MaxLength} \cup {NullArea} :
                  NewRequest(input, output)
        BY <2>1, AreaType, NewRequestStep
    <2>2. CASE UNCHANGED iconvVars
        BY <2>2 DEF iconvVars, iconvHistory, IconvInv, IconvTypeOK, Accounted,
           OpenDescriptorsAreAccounted
    <2> QED
        BY <2>1, <2>2, TryCloseStep, IconvConvertStep, OwnStep DEF IconvNext
<1>3. IconvInv => IconvTypeOK /\ DescriptorsAreClosedOnce
    BY DEF IconvInv, Accounted, DescriptorsAreClosedOnce, ClosedOnce,
       OpenDescriptorsAreAccounted
<1> QED
    BY <1>1, <1>2, <1>3, PTL DEF IconvSpec

-----------------------------------------------------------------------------
(* Streams: what a deflator or inflator produced while a call runs is what the
   script has, the pieces on the Lua stack, which are full, and the current
   buffer, which is full or empty between two turns. *)
OutputIsAccounted ==
    stream.running /\ ~stream.dropped =>
        stream.returned + LUAL_BUFFERSIZE * stream.lvl + stream.size = stream.total_out

(* Doubling a buffer makes it larger. *)
BufferIsPositive == buffer.status = "trying" => buffer.size > 0

StreamInv ==
    /\ StreamTypeOK
    /\ stream.running => stream.size \in {0, LUAL_BUFFERSIZE}
    /\ OutputIsAccounted
    /\ BufferIsPositive
    /\ DecompressionIsComplete

LEMMA StreamInitHolds == StreamInit => StreamInv
BY StreamBounds DEF StreamInit, StreamInv, StreamTypeOK, lmz_stream_t, OutputIsAccounted,
   DecompressionIsComplete, StreamsReturnAllOutput, UncompressReachesHalf, BufferIsPositive

(* A buffer that moves to the stack is one more piece. *)
LEMMA OneMorePiece ==
    ASSUME NEW m \in Nat, NEW n \in Nat
    PROVE  m * n \in Nat /\ m * (n + 1) = m * n + m
OBVIOUS

LEMMA ErrorResultsType ==
    ASSUME NEW n \in Nat
    PROVE  ErrorResults(n) \in [1..3 -> {"data", "message", "raised", Nil}]
BY DEF ErrorResults

LEMMA UncompressStep ==
    ASSUME StreamInv, NEW need \in Nat, NEW out_len \in Nat,
           lmz_uncompress(need, out_len) \/ UncompressTurn
    PROVE  StreamInv'
<1>1. stream' = stream /\ returns' = returns
    BY DEF lmz_uncompress, UncompressTurn
<1>2. /\ buffer' \in [need : Nat, size : Nat, status : {"none", "trying", "done", "failed"}]
      /\ UncompressReachesHalf'
    <2>1. CASE lmz_uncompress(need, out_len)
        BY <2>1 DEF lmz_uncompress, UncompressReachesHalf
    <2>2. CASE UncompressTurn
        <3>1. buffer.need \in Nat /\ buffer.size \in Nat /\ INT_MAX \in Nat
            BY StreamBounds DEF StreamInv, StreamTypeOK
        <3>2. CASE buffer.need <= buffer.size
            <4>1. buffer' = [need |-> buffer.need, size |-> buffer.size, status |-> "done"]
                BY <2>2, <3>2 DEF UncompressTurn, StreamInv, StreamTypeOK
            <4> QED
                BY <3>1, <3>2, <4>1 DEF UncompressReachesHalf
        <3>3. CASE ~(buffer.need <= buffer.size)
            <4>1. PICK status \in {"trying", "failed"} :
                    /\ buffer' = [need |-> buffer.need, size |-> 2 * buffer.size, status |-> status]
                    /\ status = "failed" => ~(2 * buffer.size > 1 /\ 2 * buffer.size < INT_MAX)
                BY <2>2, <3>3 DEF UncompressTurn, StreamInv, StreamTypeOK
            <4>2. buffer.size > 0
                BY <2>2 DEF UncompressTurn, StreamInv, BufferIsPositive
            <4>3. status = "failed" => buffer.need > INT_MAX \div 2
                BY <3>1, <3>3, <4>1, <4>2
            <4> QED
                BY <3>1, <4>1, <4>3 DEF UncompressReachesHalf
        <3> QED
            BY <3>2, <3>3
    <2> QED
        BY <2>1, <2>2
<1>3. BufferIsPositive'
    <2>1. CASE lmz_uncompress(need, out_len)
        BY <2>1 DEF lmz_uncompress, BufferIsPositive
    <2>2. CASE UncompressTurn
        BY <2>2 DEF UncompressTurn, BufferIsPositive, StreamInv, StreamTypeOK
    <2> QED
        BY <2>1, <2>2
<1> QED
    BY <1>1, <1>2, <1>3 DEF StreamInv, StreamTypeOK, OutputIsAccounted,
       DecompressionIsComplete, StreamsReturnAllOutput

LEMMA StreamTurnStep ==
    ASSUME StreamInv, lmz_inflator_deflator_impl
    PROVE  StreamInv'
<1>1. PICK added \in 0..LUAL_BUFFERSIZE,
           status \in {"MZ_OK", "MZ_STREAM_END", "MZ_BUF_ERROR", "MZ_DATA_ERROR"} :
         LET lvl == stream.lvl + (IF stream.size > 0 THEN 1 ELSE 0)
             size == luaL_addsize(status, added)
             done == added < LUAL_BUFFERSIZE \/ status = "MZ_DATA_ERROR"
             dropped == stream.dropped \/ (status = "MZ_BUF_ERROR" /\ added > 0)
             total_out == stream.total_out + added
         IN /\ total_out <= MaxOutput
            /\ stream' = [stream EXCEPT !.running = ~done, !.total_out = total_out,
                             !.dropped = dropped,
                             !.lvl = IF done THEN 0 ELSE lvl, !.size = IF done THEN 0 ELSE size,
                             !.returned = CASE ~done -> @
                                            [] status = "MZ_DATA_ERROR" -> total_out
                                            [] OTHER -> @ + LUAL_BUFFERSIZE * lvl + size]
            /\ returns' = CASE ~done -> returns
                            [] status = "MZ_DATA_ERROR" -> ErrorResults(lvl)
                            [] OTHER -> <<"data", Nil, Nil>>
    BY DEF lmz_inflator_deflator_impl
<1> DEFINE lvl == stream.lvl + (IF stream.size > 0 THEN 1 ELSE 0)
           size == luaL_addsize(status, added)
           done == added < LUAL_BUFFERSIZE \/ status = "MZ_DATA_ERROR"
           dropped == stream.dropped \/ (status = "MZ_BUF_ERROR" /\ added > 0)
           total_out == stream.total_out + added
           returned == CASE ~done -> stream.returned
                         [] status = "MZ_DATA_ERROR" -> total_out
                         [] OTHER -> stream.returned + LUAL_BUFFERSIZE * lvl + size
<1>2. /\ stream.kind \in {"none", "live", "collected"} /\ stream.running /\ stream.dropped \in BOOLEAN
      /\ stream.lvl \in Nat /\ stream.size \in {0, LUAL_BUFFERSIZE}
      /\ stream.total_out \in Nat /\ stream.returned \in Nat
      /\ LUAL_BUFFERSIZE \in Nat /\ LUAL_BUFFERSIZE > 0 /\ added \in 0..LUAL_BUFFERSIZE
    BY StreamBounds DEF StreamInv, StreamTypeOK, lmz_stream_t, lmz_inflator_deflator_impl
<1>3. /\ stream' = [kind |-> stream.kind, running |-> ~done,
                    lvl |-> IF done THEN 0 ELSE lvl, size |-> IF done THEN 0 ELSE size,
                    total_out |-> total_out, dropped |-> dropped, returned |-> returned]
      /\ returns' = CASE ~done -> returns
                      [] status = "MZ_DATA_ERROR" -> ErrorResults(lvl)
                      [] OTHER -> <<"data", Nil, Nil>>
    BY <1>1 DEF StreamInv, StreamTypeOK, lmz_stream_t
<1>4. size \in Nat /\ size <= added /\ total_out \in Nat /\ (~dropped => size = added)
    BY <1>2 DEF luaL_addsize
<1>5. LUAL_BUFFERSIZE * stream.lvl \in Nat
      /\ LUAL_BUFFERSIZE * (stream.lvl + 1) = LUAL_BUFFERSIZE * stream.lvl + LUAL_BUFFERSIZE
    BY <1>2, OneMorePiece
<1>6. lvl \in Nat /\ LUAL_BUFFERSIZE * lvl \in Nat
      /\ LUAL_BUFFERSIZE * lvl = LUAL_BUFFERSIZE * stream.lvl + stream.size
    <2>1. CASE stream.size = 0
        BY <1>2, <1>5, <2>1
    <2>2. CASE stream.size = LUAL_BUFFERSIZE
        <3>1. lvl = stream.lvl + 1
            BY <1>2, <2>2
        <3> QED
            BY <1>2, <1>5, <2>2, <3>1
    <2> QED
        BY <1>2, <2>1, <2>2
<1>7. ~stream.dropped => stream.returned + LUAL_BUFFERSIZE * stream.lvl + stream.size = stream.total_out
    BY <1>2 DEF StreamInv, OutputIsAccounted
<1>8. ~dropped => ~stream.dropped /\ stream.returned + LUAL_BUFFERSIZE * lvl + size = total_out
    BY <1>2, <1>4, <1>5, <1>6, <1>7
<1> HIDE DEF lvl, size, dropped, total_out
<1>9. returned \in Nat
    BY <1>2, <1>4, <1>6
<1>10. ~dropped /\ done => returned = total_out
    BY <1>8
<1>11. ~done => size \in {0, LUAL_BUFFERSIZE}
    BY <1>1, <1>2, <1>4 DEF luaL_addsize, size
<1>12. ErrorResults(lvl) \in [1..3 -> {"data", "message", "raised", Nil}]
    BY <1>6, ErrorResultsType
<1>13. dropped \in BOOLEAN /\ done \in BOOLEAN
    BY <1>2 DEF dropped
<1>14. ~done => returned = stream.returned
    OBVIOUS
<1> HIDE DEF returned
<1>15. StreamTypeOK'
    <2>1. stream' \in lmz_stream_t
        BY <1>2, <1>3, <1>4, <1>6, <1>9, <1>13 DEF lmz_stream_t
    <2>2. returns' \in [1..3 -> {"data", "message", "raised", Nil}] \cup {Nil}
        <3>1. <<"data", Nil, Nil>> \in [1..3 -> {"data", "message", "raised", Nil}]
            OBVIOUS
        <3> QED
            BY <1>3, <1>12, <3>1 DEF StreamInv, StreamTypeOK
    <2>3. buffer' = buffer
        BY DEF lmz_inflator_deflator_impl
    <2> QED
        BY <2>1, <2>2, <2>3 DEF StreamInv, StreamTypeOK
<1>16. stream'.running = ~done /\ stream'.dropped = dropped /\ stream'.returned = returned
       /\ stream'.total_out = total_out /\ (~done => stream'.lvl = lvl /\ stream'.size = size)
    BY <1>3
<1> HIDE DEF done
<1>17. StreamsReturnAllOutput'
    BY <1>10, <1>13, <1>16 DEF StreamsReturnAllOutput
<1>18. OutputIsAccounted'
    <2> SUFFICES ASSUME ~done, ~dropped
                 PROVE  stream'.returned + LUAL_BUFFERSIZE * stream'.lvl + stream'.size = stream'.total_out
        BY <1>16 DEF OutputIsAccounted
    <2> QED
        BY <1>8, <1>14, <1>16
<1>19. buffer' = buffer
    BY DEF lmz_inflator_deflator_impl
<1> QED
    BY <1>11, <1>15, <1>16, <1>17, <1>18, <1>19
       DEF StreamInv, DecompressionIsComplete, UncompressReachesHalf, BufferIsPositive

LEMMA StreamStepHolds == StreamInv /\ [StreamNext]_streamVars => StreamInv'
<1> SUFFICES ASSUME StreamInv, [StreamNext]_streamVars PROVE StreamInv'
    OBVIOUS
<1>1. CASE NewStream \/ StreamGc
    BY <1>1 DEF NewStream, StreamGc, StreamInv, StreamTypeOK, lmz_stream_t, OutputIsAccounted,
       DecompressionIsComplete, StreamsReturnAllOutput, UncompressReachesHalf, BufferIsPositive
<1>2. CASE StreamCall
    <2>1. LUAL_BUFFERSIZE * 0 = 0
        BY StreamBounds
    <2>2. stream \in lmz_stream_t
        BY DEF StreamInv, StreamTypeOK
    <2>3. /\ stream' \in lmz_stream_t /\ stream'.running /\ stream'.lvl = 0 /\ stream'.size = 0
          /\ stream'.total_out = stream.total_out /\ stream'.returned = stream.returned
          /\ stream'.dropped = stream.dropped /\ returns' = Nil /\ buffer' = buffer
          /\ ~stream.running
        BY <1>2, <2>2 DEF StreamCall, lmz_stream_t
    <2>4. stream.dropped \/ stream.returned = stream.total_out
        BY <2>3 DEF StreamInv, DecompressionIsComplete, StreamsReturnAllOutput
    <2>5. stream.returned \in Nat
        BY <2>2 DEF lmz_stream_t
    <2>6. OutputIsAccounted'
        BY <2>1, <2>3, <2>4, <2>5 DEF OutputIsAccounted
    <2> QED
        BY <2>3, <2>6 DEF StreamInv, StreamTypeOK, DecompressionIsComplete,
           StreamsReturnAllOutput, UncompressReachesHalf, BufferIsPositive
<1>3. CASE lmz_inflator_deflator_impl
    BY <1>3, StreamTurnStep
<1>4. ASSUME NEW need \in 1..(INT_MAX + 1), NEW out_len \in 1..(INT_MAX + 1),
             lmz_uncompress(need, out_len)
      PROVE  StreamInv'
    BY <1>4, UncompressStep, StreamBounds
<1>5. CASE UncompressTurn
    BY <1>5, UncompressStep
<1>6. CASE UNCHANGED streamVars
    BY <1>6 DEF streamVars, StreamInv, StreamTypeOK, OutputIsAccounted,
       DecompressionIsComplete, StreamsReturnAllOutput, UncompressReachesHalf, BufferIsPositive
<1> QED
    BY <1>1, <1>2, <1>3, <1>4, <1>5, <1>6 DEF StreamNext

(* However many buffers a call of deflate or inflate fills, between two calls the
   script has all the output, was told of an error, or miniz had reported
   MZ_BUF_ERROR; and uncompress gives up only on what needs more than half of
   INT_MAX, whatever buffer it starts with. *)
THEOREM NothingIsLostSilently == StreamSpec => []DecompressionIsComplete
<1>1. StreamInv => DecompressionIsComplete
    BY DEF StreamInv
<1> QED
    BY <1>1, StreamInitHolds, StreamStepHolds, PTL DEF StreamSpec

-----------------------------------------------------------------------------
(* Audio: LabSound's graph plus the changes it has not applied yet is what the
   script sees, until the context goes; that is why a node the script has
   disconnected, and waited for, is in neither. *)
Change == {"connect", "disconnect"} \X Edges

QueueCatchesUp ==
    /\ context # "destroyed" => wired = Settled(graph, queued)
    /\ synchronised => queued = <<>> /\ graph = wired

(* What the audio thread can reach, now or after a change that waits. *)
Reached(g, c) == g \cup {c[i][2] : i \in DOMAIN c}

AudioInv ==
    /\ AudioTypeOK
    /\ QueueCatchesUp
    /\ AudioThreadSeesLiveNodes
    /\ DefaultConfigIsUsable

(* A node at an end of an edge. *)
LEMMA EndsAreNodes ==
    ASSUME NEW e \in Edges
    PROVE  Range(e) = {e[1], e[2]} /\ e[1] \in Nodes /\ e[2] \in Nodes
<1>1. e \in Nodes \X Nodes
    BY EdgesJoinNodes
<1>2. DOMAIN e = {1, 2} /\ e[1] \in Nodes /\ e[2] \in Nodes
    BY <1>1
<1> QED
    BY <1>2 DEF Range

(* What is reached stays alive if no more is reached, and no more is dead. *)
LEMMA SeesLiveNodesStep ==
    ASSUME AudioThreadSeesLiveNodes, Reached(graph', queued') \subseteq Reached(graph, queued),
           node' = node, careless' = careless
    PROVE  AudioThreadSeesLiveNodes'
BY DEF AudioThreadSeesLiveNodes, Reached

LEMMA SettledEmpty ==
    ASSUME NEW g \in SUBSET Edges
    PROVE  Settled(g, <<>>) = g
BY DEF Settled

LEMMA SettledConnect ==
    ASSUME NEW g, NEW c \in Seq(Change), NEW e \in Edges
    PROVE  Settled(g, Append(c, <<"connect", e>>)) = Settled(g, c) \cup {e}
<1> DEFINE d == Append(c, <<"connect", e>>)
<1>1. /\ Len(c) \in Nat /\ DOMAIN c = 1..Len(c) /\ DOMAIN d = 1..(Len(c) + 1)
      /\ \A i \in 1..Len(c) : d[i] = c[i]
      /\ d[Len(c) + 1] = <<"connect", e>>
    BY DEF Change
<1> HIDE DEF d
<1>2. ASSUME NEW x \in Edges PROVE x \in Settled(g, d) <=> x \in Settled(g, c) \/ x = e
    <2>1. CASE x = e
        <3>1. \A j \in DOMAIN d : d[j] = <<"disconnect", e>> => j < Len(c) + 1
            BY <1>1
        <3>2. Len(c) + 1 \in DOMAIN d
            BY <1>1
        <3> QED
            BY <1>1, <2>1, <3>1, <3>2 DEF Settled
    <2>2. CASE x # e
        <3>1. d[Len(c) + 1] # <<"connect", x>> /\ d[Len(c) + 1] # <<"disconnect", x>>
            BY <1>1, <2>2
        <3>2. \A i \in DOMAIN d : d[i] = <<"connect", x>> \/ d[i] = <<"disconnect", x>> => i \in DOMAIN c
            BY <1>1, <3>1
        <3>3. \A i \in DOMAIN c : i \in DOMAIN d /\ d[i] = c[i]
            BY <1>1
        <3> QED
            BY <2>2, <3>2, <3>3 DEF Settled
    <2> QED
        BY <2>1, <2>2
<1> QED
    BY <1>2 DEF Settled, d

LEMMA SettledDisconnect ==
    ASSUME NEW g, NEW c \in Seq(Change), NEW e \in Edges
    PROVE  Settled(g, Append(c, <<"disconnect", e>>)) = Settled(g, c) \ {e}
<1> DEFINE d == Append(c, <<"disconnect", e>>)
<1>1. /\ Len(c) \in Nat /\ DOMAIN c = 1..Len(c) /\ DOMAIN d = 1..(Len(c) + 1)
      /\ \A i \in 1..Len(c) : d[i] = c[i]
      /\ d[Len(c) + 1] = <<"disconnect", e>>
    BY DEF Change
<1> HIDE DEF d
<1>2. ASSUME NEW x \in Edges PROVE x \in Settled(g, d) <=> x \in Settled(g, c) /\ x # e
    <2>1. CASE x = e
        <3>1. Len(c) + 1 \in DOMAIN d /\ \A i \in DOMAIN d : ~(Len(c) + 1 < i)
            BY <1>1
        <3> QED
            BY <1>1, <2>1, <3>1 DEF Settled
    <2>2. CASE x # e
        <3>1. d[Len(c) + 1] # <<"connect", x>> /\ d[Len(c) + 1] # <<"disconnect", x>>
            BY <1>1, <2>2
        <3>2. \A i \in DOMAIN d : d[i] = <<"connect", x>> \/ d[i] = <<"disconnect", x>> => i \in DOMAIN c
            BY <1>1, <3>1
        <3>3. \A i \in DOMAIN c : i \in DOMAIN d /\ d[i] = c[i]
            BY <1>1
        <3> QED
            BY <2>2, <3>2, <3>3 DEF Settled
    <2> QED
        BY <2>1, <2>2
<1> QED
    BY <1>2 DEF Settled, d

(* Applying the oldest change settles nothing differently. *)
LEMMA SettledHead ==
    ASSUME NEW g \in SUBSET Edges, NEW c \in Seq(Change), c # <<>>
    PROVE  /\ Settled(ApplyChange(g, Head(c)), Tail(c)) = Settled(g, c)
           /\ ApplyChange(g, Head(c)) \in SUBSET Edges
<1> DEFINE t == Tail(c)
           h == ApplyChange(g, Head(c))
<1>1. /\ Len(c) \in Nat /\ Len(c) > 0 /\ DOMAIN c = 1..Len(c) /\ DOMAIN t = 1..(Len(c) - 1)
      /\ Head(c) = c[1] /\ \A i \in 1..(Len(c) - 1) : t[i] = c[i + 1]
    BY DEF Change
<1>2. PICK e \in Edges : c[1] = <<"connect", e>> \/ c[1] = <<"disconnect", e>>
    <2>1. c[1] \in Change
        BY <1>1
    <2> QED
        BY <2>1 DEF Change
<1>3. c[1][2] = e /\ c[1][1] \in {"connect", "disconnect"}
    BY <1>2
<1>4. h = IF c[1] = <<"connect", e>> THEN g \cup {e} ELSE g \ {e}
    <2>1. Head(c)[1] = "connect" <=> c[1] = <<"connect", e>>
        BY <1>1, <1>2
    <2> QED
        BY <1>1, <1>3, <2>1 DEF ApplyChange
<1> HIDE DEF t, h
<1>5. ASSUME NEW x \in Edges, x \in Settled(h, t) PROVE x \in Settled(g, c)
    <2>1. CASE \E i \in DOMAIN t : /\ t[i] = <<"connect", x>>
                                   /\ \A j \in DOMAIN t : t[j] = <<"disconnect", x>> => j < i
        <3>1. PICK i \in DOMAIN t : /\ t[i] = <<"connect", x>>
                                    /\ \A j \in DOMAIN t : t[j] = <<"disconnect", x>> => j < i
            BY <2>1
        <3>2. i + 1 \in DOMAIN c /\ c[i + 1] = <<"connect", x>>
            BY <1>1, <3>1
        <3>3. ASSUME NEW j \in DOMAIN c, c[j] = <<"disconnect", x>> PROVE j < i + 1
            <4>1. CASE j = 1
                BY <1>1, <3>1, <4>1
            <4>2. CASE j # 1
                <5>1. j - 1 \in DOMAIN t /\ t[j - 1] = c[j]
                    BY <1>1, <4>2
                <5>2. j - 1 < i
                    BY <3>1, <3>3, <5>1
                <5> QED
                    BY <1>1, <3>1, <5>2
            <4> QED
                BY <4>1, <4>2
        <3> QED
            BY <3>2, <3>3 DEF Settled
    <2>2. CASE x \in h /\ \A i \in DOMAIN t : t[i] # <<"disconnect", x>>
        <3>1. ASSUME NEW j \in DOMAIN c, j # 1 PROVE c[j] # <<"disconnect", x>>
            <4>1. j - 1 \in DOMAIN t /\ t[j - 1] = c[j]
                BY <1>1, <3>1
            <4> QED
                BY <2>2, <4>1
        <3>2. CASE c[1] = <<"connect", x>>
            <4>1. 1 \in DOMAIN c /\ \A j \in DOMAIN c : c[j] = <<"disconnect", x>> => j < 1
                BY <1>1, <3>1, <3>2
            <4> QED
                BY <3>2, <4>1 DEF Settled
        <3>3. CASE c[1] # <<"connect", x>>
            <4>1. x \in g /\ c[1] # <<"disconnect", x>>
                BY <1>2, <1>4, <2>2, <3>3
            <4> QED
                BY <3>1, <4>1 DEF Settled
        <3> QED
            BY <3>2, <3>3
    <2> QED
        BY <1>5, <2>1, <2>2 DEF Settled
<1>6. ASSUME NEW x \in Edges, x \in Settled(g, c) PROVE x \in Settled(h, t)
    <2>1. ASSUME NEW i \in DOMAIN c, c[i] = <<"connect", x>>,
                 \A j \in DOMAIN c : c[j] = <<"disconnect", x>> => j < i
          PROVE  x \in Settled(h, t)
        <3>1. CASE i = 1
            <4>1. x \in h
                BY <1>2, <1>3, <1>4, <2>1, <3>1
            <4>2. ASSUME NEW j \in DOMAIN t PROVE t[j] # <<"disconnect", x>>
                <5>1. j + 1 \in DOMAIN c /\ t[j] = c[j + 1] /\ ~(j + 1 < i)
                    BY <1>1, <3>1
                <5> QED
                    BY <2>1, <5>1
            <4> QED
                BY <4>1, <4>2 DEF Settled
        <3>2. CASE i # 1
            <4>1. i - 1 \in DOMAIN t /\ t[i - 1] = <<"connect", x>>
                BY <1>1, <2>1, <3>2
            <4>2. ASSUME NEW j \in DOMAIN t, t[j] = <<"disconnect", x>> PROVE j < i - 1
                <5>1. j + 1 \in DOMAIN c /\ t[j] = c[j + 1]
                    BY <1>1
                <5>2. j + 1 < i
                    BY <2>1, <4>2, <5>1
                <5> QED
                    BY <1>1, <5>2
            <4> QED
                BY <4>1, <4>2 DEF Settled
        <3> QED
            BY <3>1, <3>2
    <2>2. ASSUME x \in g, \A i \in DOMAIN c : c[i] # <<"disconnect", x>>
          PROVE  x \in Settled(h, t)
        <3>1. ASSUME NEW j \in DOMAIN t PROVE t[j] # <<"disconnect", x>>
            <4>1. j + 1 \in DOMAIN c /\ t[j] = c[j + 1]
                BY <1>1
            <4> QED
                BY <2>2, <4>1
        <3>2. c[1] # <<"disconnect", x>>
            BY <1>1, <2>2
        <3>3. x \in h
            BY <1>2, <1>4, <2>2, <3>2
        <3> QED
            BY <3>1, <3>3 DEF Settled
    <2> QED
        BY <1>6, <2>1, <2>2 DEF Settled
<1>7. h \in SUBSET Edges
    BY <1>4
<1> QED
    BY <1>5, <1>6, <1>7 DEF Settled, t, h

LEMMA AudioInitHolds == AudioInit => AudioInv
<1> SUFFICES ASSUME AudioInit PROVE AudioInv
    OBVIOUS
<1>1. QueueCatchesUp
    BY SettledEmpty DEF AudioInit, QueueCatchesUp
<1>2. AudioTypeOK
    BY QueueIsBounded DEF AudioInit, AudioTypeOK, NoConfig
<1>3. AudioThreadSeesLiveNodes
    BY DEF AudioInit, AudioThreadSeesLiveNodes
<1>4. DefaultConfigIsUsable
    BY DEF AudioInit, DefaultConfigIsUsable, NoConfig
<1> QED
    BY <1>1, <1>2, <1>3, <1>4 DEF AudioInv

(* The smaller of two rates. *)
LEMMA MinOfTwo ==
    ASSUME NEW m \in Nat, NEW n \in Nat
    PROVE  Min({m, n}) \in {m, n} /\ Min({m, n}) <= m /\ Min({m, n}) <= n
<1>1. \E x \in {m, n} : \A y \in {m, n} : x =< y
    <2>1. CASE m <= n
        BY <2>1
    <2>2. CASE n <= m
        BY <2>2
    <2> QED
        BY <2>1, <2>2
<1> QED
    BY <1>1 DEF Min

LEMMA ConfigStep ==
    ASSUME AudioInv, NEW out \in Rates \cup {0}, NEW in \in Rates \cup {0},
           NEW with_input \in BOOLEAN,
           labsound_get_default_device_config(out, in, with_input)
    PROVE  AudioInv'
<1> DEFINE success == with_input => in # 0
           rates == IF success THEN DesiredRates(out, in, with_input)
                    ELSE [output |-> 0, input |-> 0]
<1>1. out \in Nat /\ in \in Nat
    BY RatesAreNatural
<1>2. Min({out, in}) \in {out, in} /\ Min({out, in}) <= out /\ Min({out, in}) <= in
    BY <1>1, MinOfTwo
<1>3. config' = [out |-> out, in |-> in, with_input |-> with_input, success |-> success,
                 output |-> rates.output, input |-> rates.input]
    BY DEF labsound_get_default_device_config
<1>4. rates.output \in Rates \cup {0} /\ rates.input \in Rates \cup {0}
    <2>1. CASE ~success
        BY <2>1
    <2>2. CASE success /\ out # in
        BY <1>2, <2>2 DEF DesiredRates
    <2>3. CASE success /\ out = in
        BY <2>3 DEF DesiredRates
    <2> QED
        BY <2>1, <2>2, <2>3
<1>5. success => /\ with_input => rates.input = rates.output
                 /\ rates.output <= out
                 /\ (rates.output = 0 <=> 0 \in {out, in})
    <2>1. CASE success /\ out # in
        <3>1. 0 \in {out, in} => Min({out, in}) = 0
            BY <1>1, <1>2
        <3> QED
            BY <1>1, <1>2, <2>1, <3>1 DEF DesiredRates
    <2>2. CASE success /\ out = in
        BY <1>1, <2>2 DEF DesiredRates
    <2> QED
        BY <2>1, <2>2
<1> HIDE DEF rates
<1>6. DefaultConfigIsUsable'
    BY <1>3, <1>5 DEF DefaultConfigIsUsable
<1>7. config' \in [out : Rates \cup {0}, in : Rates \cup {0}, with_input : BOOLEAN,
                   success : BOOLEAN, output : Rates \cup {0}, input : Rates \cup {0}]
    BY <1>3, <1>4
<1>8. UNCHANGED <<device, context, node, careless, playing, parameter, listener,
                  wired, queued, graph, synchronised>>
    BY DEF labsound_get_default_device_config, audioGraph, audioSettings
<1> QED
    BY <1>6, <1>7, <1>8 DEF AudioInv, AudioTypeOK, QueueCatchesUp, AudioThreadSeesLiveNodes

(* What happens to the device and the context concerns no node; the changes that
   wait go with the context. *)
LEMMA DeviceStep ==
    ASSUME AudioInv, labsound_device_create \/ labsound_device_destroy
                     \/ labsound_context_create \/ labsound_context_destroy
    PROVE  AudioInv'
<1>1. /\ UNCHANGED <<node, careless, playing, parameter, listener, wired, graph, synchronised>>
      /\ queued' = queued \/ (queued' = <<>> /\ context' = "destroyed")
      /\ context' # "destroyed" => context # "destroyed"
    BY DEF labsound_device_create, labsound_device_destroy, labsound_context_create,
       labsound_context_destroy, audioGraph, audioSettings
<1>2. config' \in {config, NoConfig}
      /\ {device', context'} \subseteq {"none", "live", "destroyed"}
    BY DEF labsound_device_create, labsound_device_destroy, labsound_context_create,
       labsound_context_destroy, AudioInv, AudioTypeOK
<1>3. AudioTypeOK'
    <2> DEFINE Configs == [out : Rates \cup {0}, in : Rates \cup {0}, with_input : BOOLEAN,
                           success : BOOLEAN, output : Rates \cup {0}, input : Rates \cup {0}]
    <2>1. NoConfig \in Configs
        BY DEF NoConfig
    <2>2. config' \in Configs
        BY <1>2, <2>1 DEF AudioInv, AudioTypeOK
    <2>3. queued' \in Seq({"connect", "disconnect"} \X Edges) /\ Len(queued') <= MaxQueued
        <3>1. CASE queued' = queued
            BY <3>1 DEF AudioInv, AudioTypeOK
        <3>2. CASE queued' = <<>>
            <4>1. Len(<<>>) = 0 /\ <<>> \in Seq({"connect", "disconnect"} \X Edges)
                OBVIOUS
            <4>2. Len(queued') <= MaxQueued
                BY <3>2, <4>1, QueueIsBounded
            <4> QED
                BY <3>2, <4>1, <4>2
        <3> QED
            BY <1>1, <3>1, <3>2
    <2>4. /\ node' \in [Nodes -> {"none", "live", "destroyed"}] /\ careless' \subseteq Nodes
          /\ playing' \subseteq Sampled /\ parameter' \in [Gains \cup Panners -> {0, 1}]
          /\ listener' \in [position : {0, 1}, velocity : {0, 1}]
          /\ wired' \subseteq Edges /\ graph' \subseteq Edges /\ synchronised' \in BOOLEAN
        BY <1>1 DEF AudioInv, AudioTypeOK
    <2> QED
        BY <1>2, <2>2, <2>3, <2>4, Zenon DEF AudioTypeOK
<1>4. DefaultConfigIsUsable'
    BY <1>2 DEF AudioInv, DefaultConfigIsUsable, NoConfig
<1>5. QueueCatchesUp'
    BY <1>1 DEF AudioInv, QueueCatchesUp
<1>6. Reached(graph', queued') \subseteq Reached(graph, queued)
    BY <1>1 DEF Reached
<1> QED
    BY <1>1, <1>3, <1>4, <1>5, <1>6, SeesLiveNodesStep DEF AudioInv

(* An edge that waits, or was applied. *)
LEMMA ReachedEdges ==
    ASSUME AudioTypeOK
    PROVE  Reached(graph, queued) \subseteq Edges
<1>1. \A i \in DOMAIN queued : queued[i][2] \in Edges
    BY DEF AudioTypeOK
<1> QED
    BY <1>1 DEF AudioTypeOK, Reached

LEMMA CreateNodeStep ==
    ASSUME AudioInv, NEW n \in Nodes, CreateNode(n)
    PROVE  AudioInv'
<1>1. UNCHANGED <<config, device, context, careless, playing, parameter, listener,
                  wired, queued, graph, synchronised>>
    BY DEF CreateNode, audioGraph, audioSettings
<1>2. /\ node \in [Nodes -> {"none", "live", "destroyed"}]
      /\ node' = [node EXCEPT ![n] = "live"]
    BY DEF CreateNode, AudioInv, AudioTypeOK
<1>3. AudioTypeOK'
    BY <1>1, <1>2 DEF AudioInv, AudioTypeOK
<1>4. \A m \in Nodes : node[m] = "live" => node'[m] = "live"
    BY <1>2
<1>5. \A e \in Reached(graph, queued) : \A m \in Range(e) : m \in Nodes
    BY ReachedEdges, EndsAreNodes DEF AudioInv
<1>6. AudioThreadSeesLiveNodes'
    BY <1>1, <1>4, <1>5 DEF AudioInv, AudioThreadSeesLiveNodes, Reached
<1> QED
    BY <1>1, <1>3, <1>6 DEF AudioInv, QueueCatchesUp, DefaultConfigIsUsable

(* If the script has waited, the queue is empty and the graph has no connection that
   the script has not. *)
LEMMA DestroyNodeStep ==
    ASSUME AudioInv, NEW n \in Nodes, DestroyNode(n)
    PROVE  AudioInv'
<1>1. UNCHANGED <<config, device, context, playing, parameter, listener,
                  wired, queued, graph, synchronised>>
    BY DEF DestroyNode, audioGraph, audioSettings
<1>2. /\ node \in [Nodes -> {"none", "live", "destroyed"}]
      /\ node' = [node EXCEPT ![n] = "destroyed"]
    BY DEF DestroyNode, AudioInv, AudioTypeOK
<1>3. careless' \in {careless, careless \cup {n}}
    BY DEF DestroyNode
<1>4. AudioTypeOK'
    BY <1>1, <1>2, <1>3 DEF AudioInv, AudioTypeOK
<1>5. ASSUME NEW e \in Reached(graph, queued), NEW m \in Range(e)
      PROVE  node'[m] = "live" \/ m \in careless'
    <2>1. m \in Nodes
        BY <1>5, ReachedEdges, EndsAreNodes DEF AudioInv
    <2>2. node[m] = "live" \/ m \in careless
        BY <1>5 DEF AudioInv, AudioThreadSeesLiveNodes, Reached
    <2>3. CASE m # n
        BY <1>2, <1>3, <2>1, <2>2, <2>3
    <2>4. CASE m = n /\ synchronised /\ \A x \in wired : n \notin Range(x)
        <3>1. queued = <<>> /\ graph = wired
            BY <2>4 DEF AudioInv, QueueCatchesUp
        <3>2. e \in wired
            BY <1>5, <3>1 DEF Reached
        <3> QED
            BY <1>5, <2>4, <3>2
    <2>5. CASE m = n /\ ~(synchronised /\ \A x \in wired : n \notin Range(x))
        <3>1. careless' = careless \cup {n}
            BY <2>5 DEF DestroyNode
        <3> QED
            BY <2>5, <3>1
    <2> QED
        BY <2>3, <2>4, <2>5
<1>6. AudioThreadSeesLiveNodes'
    BY <1>1, <1>5 DEF AudioThreadSeesLiveNodes, Reached
<1> QED
    BY <1>1, <1>4, <1>6 DEF AudioInv, QueueCatchesUp, DefaultConfigIsUsable

(* Starting, stopping and setting values leaves graph and nodes alone. *)
LEMMA SettingsStep ==
    ASSUME AudioInv, UNCHANGED <<audioObjects, audioGraph>>, playing' \subseteq Sampled,
           parameter' \in [Gains \cup Panners -> {0, 1}],
           listener' \in [position : {0, 1}, velocity : {0, 1}]
    PROVE  AudioInv'
<1>1. UNCHANGED <<config, device, context, node, careless, wired, queued, graph, synchronised>>
    BY DEF audioObjects, audioGraph
<1>2. AudioTypeOK'
    BY <1>1 DEF AudioInv, AudioTypeOK
<1> QED
    BY <1>1, <1>2 DEF AudioInv, QueueCatchesUp, AudioThreadSeesLiveNodes,
       DefaultConfigIsUsable

LEMMA ChangeStep ==
    ASSUME AudioInv, NEW e \in Edges,
           \/ labsound_context_connect(e[1], e[2])
           \/ labsound_context_disconnect(e[1], e[2])
    PROVE  AudioInv'
<1>1. /\ UNCHANGED <<config, device, context, node, careless, playing, parameter, listener, graph>>
      /\ synchronised' = FALSE
    BY DEF labsound_context_connect, labsound_context_disconnect, audioObjects, audioSettings
<1>2. e = <<e[1], e[2]>>
    BY EdgesJoinNodes
<1>3. PICK kind \in {"connect", "disconnect"} :
        /\ queued' = Append(queued, <<kind, e>>)
        /\ wired' = IF kind = "connect" THEN wired \cup {e} ELSE wired \ {e}
    BY <1>2 DEF labsound_context_connect, labsound_context_disconnect
<1>4. node[e[1]] = "live" /\ node[e[2]] = "live" /\ Len(queued) < MaxQueued
    BY DEF labsound_context_connect, labsound_context_disconnect
<1>5. queued \in Seq(Change) /\ <<kind, e>> \in Change /\ graph \in SUBSET Edges
    BY DEF AudioInv, AudioTypeOK, Change
<1>6. /\ queued' \in Seq(Change) /\ Len(queued') = Len(queued) + 1
      /\ DOMAIN queued' = 1..(Len(queued) + 1) /\ DOMAIN queued = 1..Len(queued)
      /\ \A i \in 1..Len(queued) : queued'[i] = queued[i]
      /\ queued'[Len(queued) + 1] = <<kind, e>> /\ Len(queued) \in Nat
    BY <1>3, <1>5
<1>7. AudioTypeOK'
    <2>1. Len(queued') <= MaxQueued
        BY <1>4, <1>6, QueueIsBounded
    <2>2. wired' \subseteq Edges
        BY <1>3 DEF AudioInv, AudioTypeOK
    <2> QED
        BY <1>1, <1>6, <2>1, <2>2 DEF AudioInv, AudioTypeOK, Change
<1>8. QueueCatchesUp'
    <2>1. CASE kind = "connect"
        BY <1>1, <1>3, <1>5, <2>1, SettledConnect DEF AudioInv, QueueCatchesUp
    <2>2. CASE kind = "disconnect"
        BY <1>1, <1>3, <1>5, <2>2, SettledDisconnect DEF AudioInv, QueueCatchesUp
    <2> QED
        BY <2>1, <2>2
<1>9. AudioThreadSeesLiveNodes'
    <2>1. Reached(graph', queued') \subseteq Reached(graph, queued) \cup {e}
        <3> SUFFICES ASSUME NEW i \in DOMAIN queued'
                     PROVE  queued'[i][2] \in {queued[k][2] : k \in DOMAIN queued} \cup {e}
            BY <1>1 DEF Reached
        <3>1. CASE i \in 1..Len(queued)
            BY <1>6, <3>1
        <3>2. CASE i = Len(queued) + 1
            BY <1>6, <3>2
        <3> QED
            BY <1>6, <3>1, <3>2
    <2>2. \A m \in Range(e) : node[m] = "live"
        BY <1>4, EndsAreNodes
    <2>3. \A x \in Reached(graph', queued') :
             \A m \in Range(x) : node[m] = "live" \/ m \in careless
        BY <2>1, <2>2 DEF AudioInv, AudioThreadSeesLiveNodes, Reached
    <2> QED
        BY <1>1, <2>3 DEF AudioThreadSeesLiveNodes, Reached
<1> QED
    BY <1>1, <1>7, <1>8, <1>9 DEF AudioInv, DefaultConfigIsUsable

(* The graph is then what the script sees, all of which is live. *)
LEMMA SynchronizeStep ==
    ASSUME AudioInv, labsound_context_synchronize_connections
    PROVE  AudioInv'
<1>1. UNCHANGED <<config, device, context, node, careless, playing, parameter, listener, wired>>
    BY DEF labsound_context_synchronize_connections, audioObjects, audioSettings
<1>2. graph' = wired /\ queued' = <<>> /\ synchronised' = TRUE
    BY DEF labsound_context_synchronize_connections, AudioInv, QueueCatchesUp
<1>3. AudioTypeOK' /\ QueueCatchesUp'
    BY <1>1, <1>2, SettledEmpty, QueueIsBounded DEF AudioInv, AudioTypeOK, QueueCatchesUp
<1>4. wired \subseteq Reached(graph, queued)
    <2> SUFFICES ASSUME NEW e \in Settled(graph, queued), e \notin graph
                 PROVE  e \in {queued[i][2] : i \in DOMAIN queued}
        BY DEF AudioInv, QueueCatchesUp, labsound_context_synchronize_connections, Reached
    <2>1. PICK i \in DOMAIN queued : queued[i] = <<"connect", e>>
        BY DEF Settled
    <2> QED
        BY <2>1
<1>5. Reached(graph', queued') \subseteq Reached(graph, queued)
    BY <1>2, <1>4 DEF Reached
<1> QED
    BY <1>1, <1>3, <1>5, SeesLiveNodesStep DEF AudioInv, DefaultConfigIsUsable

LEMMA RenderStep ==
    ASSUME AudioInv, Render
    PROVE  AudioInv'
<1>1. UNCHANGED <<config, device, context, node, careless, playing, parameter, listener,
                  wired, synchronised>>
    BY DEF Render, audioObjects, audioSettings
<1>2. /\ queued \in Seq(Change) /\ graph \in SUBSET Edges /\ queued # <<>>
      /\ graph' = ApplyChange(graph, Head(queued)) /\ queued' = Tail(queued)
    BY DEF AudioInv, AudioTypeOK, Render, Change
<1>3. QueueCatchesUp' /\ graph' \subseteq Edges
    BY <1>1, <1>2, SettledHead DEF AudioInv, QueueCatchesUp
<1>4. /\ queued' \in Seq(Change) /\ Len(queued') = Len(queued) - 1 /\ Len(queued) \in Nat
      /\ DOMAIN queued' = 1..(Len(queued) - 1) /\ DOMAIN queued = 1..Len(queued)
      /\ \A i \in 1..(Len(queued) - 1) : queued'[i] = queued[i + 1]
      /\ Head(queued) = queued[1] /\ Len(queued) > 0
    BY <1>2
<1>5. AudioTypeOK'
    <2>1. Len(queued') <= MaxQueued
        BY <1>4, QueueIsBounded DEF AudioInv, AudioTypeOK
    <2> QED
        BY <1>1, <1>3, <1>4, <2>1 DEF AudioInv, AudioTypeOK, Change
<1>6. Reached(graph', queued') \subseteq Reached(graph, queued)
    <2>1. {queued'[i][2] : i \in DOMAIN queued'} \subseteq {queued[i][2] : i \in DOMAIN queued}
        <3> SUFFICES ASSUME NEW i \in DOMAIN queued'
                     PROVE  queued'[i][2] \in {queued[k][2] : k \in DOMAIN queued}
            OBVIOUS
        <3>1. i + 1 \in DOMAIN queued /\ queued'[i] = queued[i + 1]
            BY <1>4
        <3> QED
            BY <3>1
    <2>2. graph' \subseteq graph \cup {queued[i][2] : i \in DOMAIN queued}
        <3>1. 1 \in DOMAIN queued
            BY <1>4
        <3> QED
            BY <1>2, <1>4, <3>1 DEF ApplyChange
    <2> QED
        BY <2>1, <2>2 DEF Reached
<1> QED
    BY <1>1, <1>3, <1>5, <1>6, SeesLiveNodesStep DEF AudioInv, DefaultConfigIsUsable

LEMMA AudioStepHolds == AudioInv /\ [AudioNext]_audioVars => AudioInv'
<1> SUFFICES ASSUME AudioInv, [AudioNext]_audioVars PROVE AudioInv'
    OBVIOUS
<1>1. ASSUME NEW out \in Rates \cup {0}, NEW in \in Rates \cup {0}, NEW with_input \in BOOLEAN,
             labsound_get_default_device_config(out, in, with_input)
      PROVE  AudioInv'
    BY <1>1, ConfigStep
<1>2. CASE labsound_device_create \/ labsound_device_destroy
           \/ labsound_context_create \/ labsound_context_destroy
    BY <1>2, DeviceStep
<1>3. Destination \in Nodes /\ \A n \in Sampled \cup Gains \cup Panners : n \in Nodes /\ n # Destination
    BY DestinationIsDistinct DEF Nodes
<1>4. CASE labsound_destination_node_create \/ labsound_destination_node_destroy
    BY <1>3, <1>4, CreateNodeStep, DestroyNodeStep
       DEF labsound_destination_node_create, labsound_destination_node_destroy
<1>5. ASSUME NEW n \in Sampled \cup Gains \cup Panners, CreateNode(n) \/ DestroyNode(n)
      PROVE  AudioInv'
    BY <1>3, <1>5, CreateNodeStep, DestroyNodeStep
<1>6. /\ playing \subseteq Sampled /\ parameter \in [Gains \cup Panners -> {0, 1}]
      /\ listener \in [position : {0, 1}, velocity : {0, 1}]
    BY DEF AudioInv, AudioTypeOK
<1>7. ASSUME NEW n \in Gains \cup Panners, NEW value \in {0, 1},
             labsound_gain_node_set_value(n, value) \/ labsound_panner_node_set(n, value)
      PROVE  AudioInv'
    BY <1>6, <1>7, SettingsStep DEF labsound_gain_node_set_value, labsound_panner_node_set
<1>8. ASSUME NEW n \in Sampled,
             labsound_sampled_audio_node_start(n) \/ labsound_sampled_audio_node_stop(n)
      PROVE  AudioInv'
    BY <1>6, <1>8, SettingsStep
       DEF labsound_sampled_audio_node_start, labsound_sampled_audio_node_stop
<1>9. ASSUME NEW value \in {0, 1},
             \/ labsound_context_listener_set_position(value)
             \/ labsound_context_listener_set_velocity(value)
      PROVE  AudioInv'
    BY <1>6, <1>9, SettingsStep
       DEF labsound_context_listener_set_position, labsound_context_listener_set_velocity
<1>10. ASSUME NEW e \in Edges,
              \/ labsound_context_connect(e[1], e[2])
              \/ labsound_context_disconnect(e[1], e[2])
       PROVE  AudioInv'
    BY <1>10, ChangeStep
<1>11. CASE labsound_context_synchronize_connections \/ Render
    BY <1>11, SynchronizeStep, RenderStep
<1>12. CASE UNCHANGED audioVars
    BY <1>6, <1>12, SettingsStep DEF audioVars, audioSettings
<1> QED
    BY <1>1, <1>2, <1>4, <1>5, <1>7, <1>8, <1>9, <1>10, <1>11, <1>12
       DEF AudioNext, labsound_gain_node_create, labsound_gain_node_destroy,
           labsound_panner_node_create, labsound_panner_node_destroy,
           labsound_sampled_audio_node_from_file, labsound_sampled_audio_node_from_memory,
           labsound_sampled_audio_node_destroy

(* However connections, disconnections, synchronisations, the audio thread and the
   destruction of nodes, devices and contexts interleave, for any nodes,
   connections and rates: no deleted node can be reached by the audio thread but
   one that was deleted while connected, or before the script had synchronised;
   the graph becomes the script's; and the default configuration is usable
   exactly if both default devices exist. *)
THEOREM AudioIsAlwaysSound == AudioSpec => []AudioIsSound
<1>1. AudioInv => AudioIsSound
    BY SettledEmpty DEF AudioInv, AudioIsSound, GraphSettles, QueueCatchesUp, AudioTypeOK
<1> QED
    BY <1>1, AudioInitHolds, AudioStepHolds, PTL DEF AudioSpec

-----------------------------------------------------------------------------
(* The virtual machine: where main is decides what is on the Lua stack, which
   libraries are there, and how the process may end. *)
Firsts(list, n) == {list[i] : i \in 1..n}

Labels == {"construct", "args", "loop", "packages", "exports", "namespace", "script",
           "run", "unwind", "close", "exited"}

(* How many packages, and how many libraries, main has asked for. *)
PackagesAt(label, n) ==
    CASE label \in {"construct", "args", "loop"} -> 0
      [] label = "packages" -> n - 1
      [] OTHER -> 9

LibrariesAt(label, n) ==
    CASE label \in {"construct", "args", "loop", "packages"} -> 0
      [] label = "exports" -> n - 1
      [] OTHER -> 14

LibrariesInOrder ==
    /\ pc = "packages" => next \in 1..9
    /\ IsFiniteSet(vm.loaded)
    /\ pc # "exited" => /\ vm.loaded = Firsts(Packages, PackagesAt(pc, next))
                        /\ Cardinality(vm.loaded) = PackagesAt(pc, next)
                        /\ vm.bindings = Firsts(Exports, LibrariesAt(pc, next))
    /\ ScriptSeesAllLibraries

StackHolds ==
    /\ vm.peak <= 14
    /\ IF pc = "construct" THEN vm.stack = <<>> /\ ~vm.open
       ELSE Len(vm.stack) = 1 + Cardinality(vm.loaded) + (IF script.state = "unborn" THEN 0 ELSE 1)
    /\ script.state # "failed" => CheckStack(vm)

Finished == [state |-> "returned", handles |-> 0, stop |-> FALSE]

ScriptFollows ==
    /\ pc \notin {"run", "unwind", "close", "exited"} => script.state = "unborn"
    /\ pc \notin {"unwind", "close", "exited"} => exit = "running"
    /\ pc = "run" => script.state = "returned"
    /\ pc \in {"unwind", "close"} =>
         \/ exit = "failure" /\ script.state # "unborn"
         \/ exit = "returning" /\ script = Finished
    /\ pc = "close" => ~loop.luv
    /\ script.stop => script.handles > 0
    /\ SuccessMeansDone

VmInv == VmTypeOK /\ pc \in Labels /\ LibrariesInOrder /\ StackHolds /\ ScriptFollows

StackValue == {"onLuaError", "package", "loaded", "chunk", "result", "error"}

Machine == [stack : Seq(StackValue), peak : Nat, m_relativeStackOffset : Int,
            loaded : SUBSET Range(Packages), bindings : SUBSET Range(Exports), open : BOOLEAN]

(* The lists name nothing twice. *)
LEMMA ListsAreInjective ==
    /\ Len(Packages) = 9 /\ Len(Exports) = 14
    /\ \A i, j \in 1..9 : Packages[i] = Packages[j] => i = j
    /\ Range(Packages) = Firsts(Packages, 9) /\ Range(Exports) = Firsts(Exports, 14)
    /\ "bindings" \in Range(Packages)
<1>1. Len(Packages) = 9 /\ DOMAIN Packages = 1..9
    BY DEF Packages
<1>2. Len(Exports) = 14 /\ DOMAIN Exports = 1..14
    BY DEF Exports
<1>3. \A i, j \in 1..9 : Packages[i] = Packages[j] => i = j
    BY DEF Packages
<1>4. Packages[9] = "bindings"
    BY DEF Packages
<1> QED
    BY <1>1, <1>2, <1>3, <1>4 DEF Range, Firsts

LEMMA OneMore ==
    ASSUME NEW list, NEW n \in Nat \ {0}
    PROVE  Firsts(list, n) = Firsts(list, n - 1) \cup {list[n]}
BY DEF Firsts

LEMMA WithResult ==
    ASSUME NEW m \in Machine, NEW n \in Nat
    PROVE  /\ With(m, n) \in Machine
           /\ With(m, n).peak = IF Len(m.stack) + n > m.peak THEN Len(m.stack) + n ELSE m.peak
           /\ With(m, n).stack = m.stack /\ With(m, n).loaded = m.loaded
           /\ With(m, n).bindings = m.bindings /\ With(m, n).open = m.open
           /\ With(m, n).m_relativeStackOffset = m.m_relativeStackOffset
<1>1. Len(m.stack) \in Nat
    BY DEF Machine
<1> QED
    BY <1>1 DEF With, Machine

LEMMA PushedResult ==
    ASSUME NEW m \in Machine, NEW v \in StackValue
    PROVE  /\ Pushed(m, v) \in Machine
           /\ Pushed(m, v).peak = IF Len(m.stack) + 1 > m.peak THEN Len(m.stack) + 1 ELSE m.peak
           /\ Pushed(m, v).stack = Append(m.stack, v) /\ Pushed(m, v).loaded = m.loaded
           /\ Pushed(m, v).bindings = m.bindings /\ Pushed(m, v).open = m.open
           /\ Pushed(m, v).m_relativeStackOffset = m.m_relativeStackOffset
<1> DEFINE p == [m EXCEPT !.stack = Append(@, v)]
<1>1. m.stack \in Seq(StackValue)
    BY DEF Machine
<1>2. Append(m.stack, v) \in Seq(StackValue) /\ Len(Append(m.stack, v)) = Len(m.stack) + 1
    BY <1>1
<1>3. p \in Machine /\ p.stack = Append(m.stack, v) /\ p.peak = m.peak /\ p.loaded = m.loaded
      /\ p.bindings = m.bindings /\ p.open = m.open
      /\ p.m_relativeStackOffset = m.m_relativeStackOffset
    BY <1>2 DEF Machine
<1>4. Pushed(m, v) = With(p, 0)
    BY DEF Pushed
<1>5. Len(p.stack) + 0 = Len(m.stack) + 1
    BY <1>1, <1>2, <1>3
<1> HIDE DEF p
<1>6. /\ With(p, 0) \in Machine
      /\ With(p, 0).peak = IF Len(p.stack) + 0 > p.peak THEN Len(p.stack) + 0 ELSE p.peak
      /\ With(p, 0).stack = p.stack /\ With(p, 0).loaded = p.loaded
      /\ With(p, 0).bindings = p.bindings /\ With(p, 0).open = p.open
      /\ With(p, 0).m_relativeStackOffset = p.m_relativeStackOffset
    BY <1>3, WithResult
<1> QED
    BY <1>3, <1>4, <1>5, <1>6

(* A package, or anything else, that is pushed after a look at the stack. *)
LEMMA LoadPackageResult ==
    ASSUME NEW m \in Machine, NEW name \in Range(Packages), m.peak <= 14, Len(m.stack) <= 9
    PROVE  LET after == LoadPackage(m, name) IN
           /\ after \in Machine /\ after.peak <= 14 /\ Len(after.stack) = Len(m.stack) + 1
           /\ after.loaded = m.loaded \cup {name} /\ after.bindings = m.bindings
           /\ after.open = m.open /\ after.m_relativeStackOffset = m.m_relativeStackOffset
<1> DEFINE w == With(m, 3)
           l == [w EXCEPT !.loaded = @ \cup {name}]
<1>1. /\ w \in Machine /\ w.peak = IF Len(m.stack) + 3 > m.peak THEN Len(m.stack) + 3 ELSE m.peak
      /\ w.stack = m.stack /\ w.loaded = m.loaded /\ w.bindings = m.bindings /\ w.open = m.open
      /\ w.m_relativeStackOffset = m.m_relativeStackOffset
    BY WithResult
<1> HIDE DEF w
<1>2. /\ l \in Machine /\ l.peak = w.peak /\ l.stack = m.stack
      /\ l.loaded = m.loaded \cup {name} /\ l.bindings = m.bindings /\ l.open = m.open
      /\ l.m_relativeStackOffset = m.m_relativeStackOffset
    BY <1>1 DEF Machine
<1> HIDE DEF l
<1>3. /\ Pushed(l, "package") \in Machine
      /\ Pushed(l, "package").peak = IF Len(l.stack) + 1 > l.peak THEN Len(l.stack) + 1 ELSE l.peak
      /\ Pushed(l, "package").stack = Append(l.stack, "package")
      /\ Pushed(l, "package").loaded = l.loaded /\ Pushed(l, "package").bindings = l.bindings
      /\ Pushed(l, "package").open = l.open
      /\ Pushed(l, "package").m_relativeStackOffset = l.m_relativeStackOffset
    BY <1>2, PushedResult DEF StackValue
<1>4. Len(m.stack) \in Nat /\ m.peak \in Nat /\ Len(Append(m.stack, "package")) = Len(m.stack) + 1
    BY DEF Machine
<1>5. Pushed(l, "package").peak <= 14
    BY <1>1, <1>2, <1>3, <1>4
<1>6. LoadPackage(m, name) = Pushed(l, "package")
    BY DEF LoadPackage, l, w
<1> QED
    BY <1>2, <1>3, <1>4, <1>5, <1>6

LEMMA BindResult ==
    ASSUME NEW m \in Machine, NEW name \in Range(Exports), m.peak <= 14, Len(m.stack) <= 10,
           "bindings" \in m.loaded
    PROVE  LET after == BindStaticLibraryExports(m, name) IN
           /\ after \in Machine /\ after.peak <= 14 /\ after.stack = m.stack
           /\ after.loaded = m.loaded /\ after.bindings = m.bindings \cup {name}
           /\ after.open = m.open /\ after.m_relativeStackOffset = m.m_relativeStackOffset
<1> DEFINE w == With(m, 4)
<1>1. /\ w \in Machine /\ w.peak = IF Len(m.stack) + 4 > m.peak THEN Len(m.stack) + 4 ELSE m.peak
      /\ w.stack = m.stack /\ w.loaded = m.loaded /\ w.bindings = m.bindings /\ w.open = m.open
      /\ w.m_relativeStackOffset = m.m_relativeStackOffset
    BY WithResult
<1>2. Len(m.stack) \in Nat /\ m.peak \in Nat
    BY DEF Machine
<1>3. w.peak <= 14
    BY <1>1, <1>2
<1>4. BindStaticLibraryExports(m, name) = [w EXCEPT !.bindings = @ \cup {name}]
    BY DEF BindStaticLibraryExports
<1> HIDE DEF w
<1> QED
    BY <1>1, <1>3, <1>4 DEF Machine

LEMMA OffsetResult ==
    ASSUME NEW m \in Machine, NEW d \in Int
    PROVE  LET after == [m EXCEPT !.m_relativeStackOffset = d] IN
           /\ after \in Machine /\ after.peak = m.peak /\ after.stack = m.stack
           /\ after.loaded = m.loaded /\ after.bindings = m.bindings /\ after.open = m.open
           /\ after.m_relativeStackOffset = d
BY DEF Machine

(* The chunk is replaced by what it returns, or by the message of its error,
   and only the former is counted. *)
HasRun(before, after, runs) ==
    /\ after \in Machine /\ after.peak <= 14 /\ Len(after.stack) = Len(before.stack) + 1
    /\ after.loaded = before.loaded /\ after.bindings = before.bindings /\ after.open = before.open
    /\ after.m_relativeStackOffset = before.m_relativeStackOffset + (IF runs THEN 0 ELSE 1)
    /\ Last(after.stack) = IF runs THEN "result" ELSE "error"

LEMMA DoStringResult ==
    ASSUME NEW m \in Machine, NEW runs \in BOOLEAN, m.peak <= 14, Len(m.stack) <= 10
    PROVE  HasRun(m, DoString(m, TRUE, runs), runs)
<1> DEFINE p == Pushed(m, "chunk")
           c == [p EXCEPT !.m_relativeStackOffset = @ + 1]
           q == [c EXCEPT !.stack = Front(@)]
           v == IF runs THEN "result" ELSE "error"
           r == Pushed(q, v)
<1>1. /\ p \in Machine /\ p.peak = IF Len(m.stack) + 1 > m.peak THEN Len(m.stack) + 1 ELSE m.peak
      /\ p.stack = Append(m.stack, "chunk") /\ p.loaded = m.loaded /\ p.bindings = m.bindings
      /\ p.open = m.open /\ p.m_relativeStackOffset = m.m_relativeStackOffset
    BY PushedResult DEF StackValue
<1> HIDE DEF p
<1>2. /\ c \in Machine /\ c.peak = p.peak /\ c.stack = Append(m.stack, "chunk")
      /\ c.loaded = m.loaded /\ c.bindings = m.bindings /\ c.open = m.open
      /\ c.m_relativeStackOffset = m.m_relativeStackOffset + 1
    <2>1. p.m_relativeStackOffset \in Int
        BY <1>1 DEF Machine
    <2>2. p.m_relativeStackOffset + 1 \in Int
        BY <2>1
    <2> QED
        BY <1>1, <2>2, OffsetResult
<1> HIDE DEF c
<1>3. /\ m.stack \in Seq(StackValue) /\ Len(m.stack) \in Nat /\ m.peak \in Nat
      /\ m.m_relativeStackOffset \in Int
    BY DEF Machine
<1>4. /\ Len(c.stack) = Len(m.stack) + 1 /\ Last(c.stack) = "chunk"
      /\ Front(c.stack) \in Seq(StackValue) /\ Len(Front(c.stack)) = Len(m.stack)
    BY <1>2, <1>3 DEF Last, Front, StackValue
<1>5. /\ q \in Machine /\ q.peak = p.peak /\ Len(q.stack) = Len(m.stack)
      /\ q.loaded = m.loaded /\ q.bindings = m.bindings /\ q.open = m.open
      /\ q.m_relativeStackOffset = m.m_relativeStackOffset + 1
    BY <1>2, <1>4 DEF Machine
<1>6. q = Popped(c)
    BY DEF Popped
<1> HIDE DEF q
<1>7. v \in StackValue
    BY DEF StackValue
<1> HIDE DEF v
<1>8. /\ r \in Machine /\ r.peak = IF Len(q.stack) + 1 > q.peak THEN Len(q.stack) + 1 ELSE q.peak
      /\ r.stack = Append(q.stack, v) /\ r.loaded = q.loaded /\ r.bindings = q.bindings
      /\ r.open = q.open /\ r.m_relativeStackOffset = q.m_relativeStackOffset
    BY <1>5, <1>7, PushedResult
<1>9. q.stack \in Seq(StackValue)
    BY <1>5 DEF Machine
<1>10. Len(r.stack) = Len(m.stack) + 1 /\ Last(r.stack) = v /\ r.peak <= 14
    BY <1>1, <1>3, <1>5, <1>7, <1>8, <1>9 DEF Last
<1>11. CompileChunk(m, TRUE) = c
    BY DEF CompileChunk, c, p
<1>12. CASE runs
    <2>1. DoString(m, TRUE, runs) = [r EXCEPT !.m_relativeStackOffset = @ - 1]
        BY <1>4, <1>6, <1>11, <1>12 DEF DoString, RunCompiledChunk, r, v
    <2> HIDE DEF r
    <2>2. r.m_relativeStackOffset - 1 = m.m_relativeStackOffset
        BY <1>3, <1>5, <1>8
    <2> DEFINE o == [r EXCEPT !.m_relativeStackOffset = m.m_relativeStackOffset]
    <2>3. DoString(m, TRUE, runs) = o
        BY <2>1, <2>2
    <2>4. /\ o \in Machine /\ o.peak = r.peak /\ o.stack = r.stack /\ o.loaded = r.loaded
          /\ o.bindings = r.bindings /\ o.open = r.open
          /\ o.m_relativeStackOffset = m.m_relativeStackOffset
        BY <1>3, <1>8, OffsetResult
    <2> HIDE DEF o
    <2>5. v = (IF runs THEN "result" ELSE "error")
        BY DEF v
    <2>6. m.m_relativeStackOffset + (IF runs THEN 0 ELSE 1) = m.m_relativeStackOffset
        BY <1>3, <1>12
    <2> QED
        BY <1>5, <1>8, <1>10, <2>3, <2>4, <2>5, <2>6 DEF HasRun
<1>13. CASE ~runs
    <2>1. DoString(m, TRUE, runs) = r
        BY <1>4, <1>6, <1>11, <1>13 DEF DoString, RunCompiledChunk, r, v
    <2> HIDE DEF r
    <2> QED
        BY <1>3, <1>5, <1>8, <1>10, <1>13, <2>1 DEF v, HasRun
<1> QED
    BY <1>12, <1>13

LEMMA VmInitHolds == VmInit => VmInv
<1> SUFFICES ASSUME VmInit PROVE VmInv
    OBVIOUS
<1> DEFINE m == [stack |-> <<>>, peak |-> 0, m_relativeStackOffset |-> 0,
                 loaded |-> {}, bindings |-> {}, open |-> TRUE]
<1>1. m \in Machine /\ m.stack = <<>>
    BY DEF Machine
<1>2. NewVirtualMachine = Pushed(m, "onLuaError")
    BY DEF NewVirtualMachine
<1>3. /\ NewVirtualMachine \in Machine /\ NewVirtualMachine.loaded = {}
      /\ NewVirtualMachine.bindings = {} /\ NewVirtualMachine.m_relativeStackOffset = 0
    <2> HIDE DEF m
    <2>1. /\ Pushed(m, "onLuaError") \in Machine /\ Pushed(m, "onLuaError").loaded = m.loaded
          /\ Pushed(m, "onLuaError").bindings = m.bindings
          /\ Pushed(m, "onLuaError").m_relativeStackOffset = m.m_relativeStackOffset
        BY <1>1, PushedResult DEF StackValue
    <2> QED
        BY <1>2, <2>1 DEF m
<1>4. /\ vm \in Machine /\ vm.loaded = {} /\ vm.bindings = {} /\ vm.stack = <<>> /\ ~vm.open
      /\ vm.m_relativeStackOffset = 0 /\ vm.peak = 0
    <2>1. vm = [stack |-> <<>>, peak |-> 0, m_relativeStackOffset |-> 0,
                loaded |-> {}, bindings |-> {}, open |-> FALSE]
        BY <1>3 DEF VmInit, Machine
    <2> QED
        BY <2>1 DEF Machine
<1>5. VmTypeOK
    <2>1. 1 \in 1..Len(Exports)
        BY ListsAreInjective
    <2> QED
        BY <1>4, <2>1, HandlesAreCounted DEF VmInit, VmTypeOK, Machine, StackValue
<1>6. LibrariesInOrder
    BY <1>4, FS_EmptySet DEF VmInit, LibrariesInOrder, PackagesAt, LibrariesAt, Firsts,
       ScriptSeesAllLibraries
<1>7. StackHolds /\ ScriptFollows /\ pc \in Labels
    BY <1>4 DEF VmInit, StackHolds, ScriptFollows, CheckStack, SuccessMeansDone, Labels
<1> QED
    BY <1>5, <1>6, <1>7 DEF VmInv

LEMMA MachineType == VmInv => vm \in Machine /\ Len(vm.stack) \in Nat /\ vm.peak \in Nat
BY DEF VmInv, VmTypeOK, Machine, StackValue

LEMMA ConstructStep ==
    ASSUME VmInv, Construct
    PROVE  VmInv'
<1> DEFINE m == [stack |-> <<>>, peak |-> 0, m_relativeStackOffset |-> 0,
                 loaded |-> {}, bindings |-> {}, open |-> TRUE]
<1>1. m \in Machine /\ m.stack = <<>> /\ m.loaded = {} /\ m.bindings = {} /\ m.peak = 0
      /\ m.m_relativeStackOffset = 0
    BY DEF Machine
<1>2. vm' = Pushed(m, "onLuaError")
    BY DEF Construct, NewVirtualMachine
<1> HIDE DEF m
<1>3. /\ Pushed(m, "onLuaError") \in Machine /\ Pushed(m, "onLuaError").loaded = m.loaded
      /\ Pushed(m, "onLuaError").bindings = m.bindings
      /\ Pushed(m, "onLuaError").m_relativeStackOffset = m.m_relativeStackOffset
      /\ Pushed(m, "onLuaError").stack = Append(m.stack, "onLuaError")
      /\ Pushed(m, "onLuaError").peak = IF Len(m.stack) + 1 > m.peak THEN Len(m.stack) + 1 ELSE m.peak
    BY <1>1, PushedResult DEF StackValue
<1>4. Len(m.stack) = 0 /\ Append(m.stack, "onLuaError") = <<"onLuaError">>
    BY <1>1
<1>5. /\ vm' \in Machine /\ vm'.loaded = {} /\ vm'.bindings = {} /\ vm'.peak = 1
      /\ vm'.m_relativeStackOffset = 0 /\ Len(vm'.stack) = 1
    <2>1. Len(<<"onLuaError">>) = 1
        OBVIOUS
    <2>2. vm'.peak = 1
        BY <1>1, <1>2, <1>3, <1>4
    <2> QED
        BY <1>1, <1>2, <1>3, <1>4, <2>1, <2>2
<1>6. pc = "construct" /\ pc' = "args" /\ next' = 1 /\ UNCHANGED <<loop, script, exit>>
    BY DEF Construct, Goto
<1>7. VmTypeOK'
    <2>1. 1 \in 1..Len(Exports)
        BY ListsAreInjective
    <2> QED
        BY <1>5, <1>6, <2>1 DEF VmInv, VmTypeOK, Machine, StackValue
<1>8. script.state = "unborn" /\ exit = "running"
    BY <1>6 DEF VmInv, ScriptFollows
<1> QED
    BY <1>5, <1>6, <1>7, <1>8, FS_EmptySet DEF VmInv, LibrariesInOrder, StackHolds, ScriptFollows,
       PackagesAt, LibrariesAt, Firsts, ScriptSeesAllLibraries, CheckStack, SuccessMeansDone, Labels

(* Calls that only look at the stack. *)
LEMMA LookStep ==
    ASSUME VmInv, SetArgs \/ CreateNamespaces
    PROVE  VmInv'
<1>1. vm \in Machine /\ Len(vm.stack) \in Nat /\ vm.peak \in Nat
    BY MachineType
<1>2. PICK n \in 1..2 : vm' = With(vm, n)
    BY DEF SetArgs, CreateNamespaces, SetGlobalArgs, CreateGlobalNamespace
<1>3. /\ With(vm, n) \in Machine
      /\ With(vm, n).peak = IF Len(vm.stack) + n > vm.peak THEN Len(vm.stack) + n ELSE vm.peak
      /\ With(vm, n).stack = vm.stack /\ With(vm, n).loaded = vm.loaded
      /\ With(vm, n).bindings = vm.bindings /\ With(vm, n).open = vm.open
      /\ With(vm, n).m_relativeStackOffset = vm.m_relativeStackOffset
    <2>1. n \in Nat
        BY <1>2
    <2> QED
        BY <1>1, <2>1, WithResult
<1>4. /\ (pc = "args" /\ pc' = "loop") \/ (pc = "namespace" /\ pc' = "script")
      /\ next' = 1 /\ UNCHANGED <<loop, script, exit>>
    BY DEF SetArgs, CreateNamespaces, Goto
<1>5. script.state = "unborn" /\ exit = "running"
    BY <1>4 DEF VmInv, ScriptFollows
<1>6. Len(vm.stack) <= 10
    BY <1>1, <1>4, <1>5 DEF VmInv, LibrariesInOrder, StackHolds, PackagesAt
<1>7. vm'.peak <= 14
    BY <1>1, <1>2, <1>3, <1>6 DEF VmInv, StackHolds
<1>8. VmTypeOK'
    <2>1. 1 \in 1..Len(Exports)
        BY ListsAreInjective
    <2> QED
        BY <1>2, <1>3, <1>4, <2>1 DEF VmInv, VmTypeOK, Machine, StackValue
<1>9. LibrariesInOrder'
    BY <1>2, <1>3, <1>4, <1>5 DEF VmInv, LibrariesInOrder, PackagesAt, LibrariesAt, ScriptSeesAllLibraries
<1>10. StackHolds'
    BY <1>2, <1>3, <1>4, <1>5, <1>7 DEF VmInv, StackHolds, CheckStack
<1>11. ScriptFollows' /\ pc' \in Labels
    BY <1>4, <1>5 DEF VmInv, ScriptFollows, SuccessMeansDone, Labels
<1> QED
    BY <1>8, <1>9, <1>10, <1>11 DEF VmInv

(* Steps that leave the virtual machine alone. *)
LEMMA LoopInitStep ==
    ASSUME VmInv, NewSharedEventLoop
    PROVE  VmInv'
<1>1. vm' = vm /\ script' = script /\ pc = "loop" /\ next' = 1
      /\ ((pc' = "packages" /\ exit' = exit) \/ (pc' = "exited" /\ exit' = "terminated"))
      /\ loop' \in [uv : BOOLEAN, luv : BOOLEAN, uws : BOOLEAN, curl : BOOLEAN]
    <2>1. PICK uv_loop_init \in BOOLEAN, curl_global_init \in BOOLEAN :
            /\ loop' = [uv |-> uv_loop_init, luv |-> uv_loop_init, uws |-> uv_loop_init,
                        curl |-> curl_global_init]
            /\ IF curl_global_init THEN Goto("packages") /\ UNCHANGED exit
               ELSE Goto("exited") /\ exit' = "terminated"
        BY DEF NewSharedEventLoop
    <2>2. loop' \in [uv : BOOLEAN, luv : BOOLEAN, uws : BOOLEAN, curl : BOOLEAN]
        BY <2>1
    <2>3. /\ next' = 1
          /\ (pc' = "packages" /\ exit' = exit) \/ (pc' = "exited" /\ exit' = "terminated")
        BY <2>1 DEF Goto
    <2> QED
        BY <2>2, <2>3 DEF NewSharedEventLoop
<1>2. 1 \in 1..Len(Exports)
    BY ListsAreInjective
<1>3. script.state = "unborn" /\ exit = "running"
    BY <1>1 DEF VmInv, ScriptFollows
<1>4. VmTypeOK'
    BY <1>1, <1>2 DEF VmInv, VmTypeOK
<1>5. LibrariesInOrder'
    BY <1>1, <1>3 DEF VmInv, LibrariesInOrder, PackagesAt, LibrariesAt, ScriptSeesAllLibraries
<1>6. StackHolds'
    BY <1>1 DEF VmInv, StackHolds, CheckStack
<1>7. ScriptFollows' /\ pc' \in Labels
    BY <1>1, <1>3 DEF VmInv, ScriptFollows, SuccessMeansDone, Labels
<1> QED
    BY <1>4, <1>5, <1>6, <1>7 DEF VmInv

LEMMA LoadStep ==
    ASSUME VmInv, LoadNextPackage
    PROVE  VmInv'
<1>1. vm \in Machine /\ Len(vm.stack) \in Nat /\ vm.peak \in Nat
    BY MachineType
<1>2. pc = "packages" /\ next \in 1..9 /\ script.state = "unborn" /\ exit = "running"
    BY DEF LoadNextPackage, VmInv, LibrariesInOrder, ScriptFollows
<1>3. /\ IsFiniteSet(vm.loaded) /\ vm.loaded = Firsts(Packages, next - 1)
      /\ Cardinality(vm.loaded) = next - 1 /\ vm.bindings = Firsts(Exports, 0)
      /\ Len(vm.stack) = next /\ vm.peak <= 14
    BY <1>1, <1>2 DEF VmInv, LibrariesInOrder, StackHolds, PackagesAt, LibrariesAt
<1>4. Packages[next] \in Range(Packages) /\ Packages[next] \notin vm.loaded
    BY <1>2, <1>3, ListsAreInjective DEF Firsts
<1>5. /\ vm' \in Machine /\ vm'.peak <= 14 /\ Len(vm'.stack) = next + 1
      /\ vm'.loaded = vm.loaded \cup {Packages[next]} /\ vm'.bindings = vm.bindings
      /\ vm'.open = vm.open /\ vm'.m_relativeStackOffset = vm.m_relativeStackOffset
    <2>1. vm' = LoadPackage(vm, Packages[next])
        BY DEF LoadNextPackage
    <2>2. Len(vm.stack) <= 9
        BY <1>2, <1>3
    <2> QED
        BY <1>1, <1>3, <1>4, <2>1, <2>2, LoadPackageResult
<1>6. vm'.loaded = Firsts(Packages, next) /\ Cardinality(vm'.loaded) = next /\ IsFiniteSet(vm'.loaded)
    <2>1. Firsts(Packages, next) = Firsts(Packages, next - 1) \cup {Packages[next]}
        BY <1>2, OneMore
    <2>2. /\ IsFiniteSet(vm.loaded \cup {Packages[next]})
          /\ Cardinality(vm.loaded \cup {Packages[next]}) = Cardinality(vm.loaded) + 1
        BY <1>3, <1>4, FS_AddElement
    <2> QED
        BY <1>2, <1>3, <1>5, <2>1, <2>2
<1>7. /\ IF next = 9 THEN pc' = "exports" /\ next' = 1 ELSE pc' = "packages" /\ next' = next + 1
      /\ UNCHANGED <<loop, script, exit>>
    BY <1>2, ListsAreInjective DEF LoadNextPackage, GotoNext, Goto
<1>8. VmTypeOK'
    <2>1. next' \in 1..Len(Exports)
        BY <1>2, <1>7, ListsAreInjective
    <2> QED
        BY <1>5, <1>7, <2>1 DEF VmInv, VmTypeOK, Machine, StackValue
<1>9. LibrariesInOrder'
    BY <1>2, <1>3, <1>5, <1>6, <1>7 DEF LibrariesInOrder, PackagesAt, LibrariesAt, ScriptSeesAllLibraries
<1>10. StackHolds'
    <2>1. vm.m_relativeStackOffset = 0
        BY <1>2 DEF VmInv, StackHolds, CheckStack
    <2> QED
        BY <1>2, <1>5, <1>6, <1>7, <2>1 DEF StackHolds, CheckStack
<1>11. ScriptFollows' /\ pc' \in Labels
    BY <1>2, <1>7 DEF VmInv, ScriptFollows, SuccessMeansDone, Labels
<1> QED
    BY <1>8, <1>9, <1>10, <1>11 DEF VmInv

LEMMA BindStep ==
    ASSUME VmInv, BindNextLibrary
    PROVE  VmInv'
<1>1. vm \in Machine /\ Len(vm.stack) \in Nat /\ vm.peak \in Nat
    BY MachineType
<1>2. pc = "exports" /\ next \in 1..14 /\ script.state = "unborn" /\ exit = "running"
    BY ListsAreInjective DEF BindNextLibrary, VmInv, VmTypeOK, ScriptFollows
<1>3. /\ IsFiniteSet(vm.loaded) /\ vm.loaded = Firsts(Packages, 9)
      /\ Cardinality(vm.loaded) = 9 /\ vm.bindings = Firsts(Exports, next - 1)
      /\ Len(vm.stack) = 10 /\ vm.peak <= 14
    <2>1. PackagesAt(pc, next) = 9 /\ LibrariesAt(pc, next) = next - 1
        BY <1>2 DEF PackagesAt, LibrariesAt
    <2>2. Cardinality(vm.loaded) = 9 /\ vm.loaded = Firsts(Packages, 9) /\ IsFiniteSet(vm.loaded)
          /\ vm.bindings = Firsts(Exports, next - 1)
        BY <1>2, <2>1 DEF VmInv, LibrariesInOrder
    <2>3. Len(vm.stack) = 1 + Cardinality(vm.loaded) + 0 /\ vm.peak <= 14
        BY <1>2 DEF VmInv, StackHolds
    <2> QED
        BY <2>2, <2>3
<1>4. Exports[next] \in Range(Exports) /\ "bindings" \in vm.loaded
    BY <1>2, <1>3, ListsAreInjective DEF Firsts
<1>5. /\ vm' \in Machine /\ vm'.peak <= 14 /\ vm'.stack = vm.stack
      /\ vm'.loaded = vm.loaded /\ vm'.bindings = vm.bindings \cup {Exports[next]}
      /\ vm'.open = vm.open /\ vm'.m_relativeStackOffset = vm.m_relativeStackOffset
    <2>1. vm' = BindStaticLibraryExports(vm, Exports[next])
        BY DEF BindNextLibrary
    <2>2. Len(vm.stack) <= 10
        BY <1>3
    <2> QED
        BY <1>1, <1>3, <1>4, <2>1, <2>2, BindResult
<1>6. vm'.bindings = Firsts(Exports, next)
    <2>1. Firsts(Exports, next) = Firsts(Exports, next - 1) \cup {Exports[next]}
        BY <1>2, OneMore
    <2> QED
        BY <1>3, <1>5, <2>1
<1>7. /\ IF next = 14 THEN pc' = "namespace" /\ next' = 1 ELSE pc' = "exports" /\ next' = next + 1
      /\ UNCHANGED <<loop, script, exit>>
    BY <1>2, ListsAreInjective DEF BindNextLibrary, GotoNext, Goto
<1>8. VmTypeOK'
    <2>1. next' \in 1..Len(Exports)
        BY <1>2, <1>7, ListsAreInjective
    <2> QED
        BY <1>5, <1>7, <2>1 DEF VmInv, VmTypeOK, Machine, StackValue
<1>9. LibrariesInOrder'
    BY <1>2, <1>3, <1>5, <1>6, <1>7 DEF LibrariesInOrder, PackagesAt, LibrariesAt, ScriptSeesAllLibraries
<1>10. StackHolds'
    <2>1. vm.m_relativeStackOffset = 0
        BY <1>2 DEF VmInv, StackHolds, CheckStack
    <2>2. Len(vm'.stack) = 1 + Cardinality(vm'.loaded) + 0
        <3>1. Len(vm'.stack) = 10 /\ Cardinality(vm'.loaded) = 9
            BY <1>3, <1>5, Zenon
        <3> QED
            BY <3>1
    <2>3. script'.state = "unborn" /\ pc' # "construct" /\ vm'.m_relativeStackOffset = 0
        BY <1>2, <1>5, <1>7, <2>1
    <2> QED
        BY <1>5, <2>2, <2>3 DEF StackHolds, CheckStack
<1>11. ScriptFollows' /\ pc' \in Labels
    BY <1>2, <1>7 DEF VmInv, ScriptFollows, SuccessMeansDone, Labels
<1> QED
    BY <1>8, <1>9, <1>10, <1>11 DEF VmInv

LEMMA RunScriptStep ==
    ASSUME VmInv, RunScript
    PROVE  VmInv'
<1>1. vm \in Machine /\ Len(vm.stack) \in Nat /\ vm.peak \in Nat
    BY MachineType
<1>2. pc = "script" /\ script.state = "unborn" /\ exit = "running"
    BY DEF RunScript, VmInv, ScriptFollows
<1>3. /\ IsFiniteSet(vm.loaded) /\ vm.loaded = Firsts(Packages, 9)
      /\ Cardinality(vm.loaded) = 9 /\ vm.bindings = Firsts(Exports, 14)
      /\ Len(vm.stack) = 10 /\ vm.peak <= 14 /\ vm.m_relativeStackOffset = 0
    <2>1. PackagesAt(pc, next) = 9 /\ LibrariesAt(pc, next) = 14
        BY <1>2 DEF PackagesAt, LibrariesAt
    <2>2. Cardinality(vm.loaded) = 9 /\ vm.loaded = Firsts(Packages, 9) /\ IsFiniteSet(vm.loaded)
          /\ vm.bindings = Firsts(Exports, 14)
        BY <1>2, <2>1 DEF VmInv, LibrariesInOrder
    <2>3. Len(vm.stack) = 1 + Cardinality(vm.loaded) + 0 /\ vm.peak <= 14
          /\ vm.m_relativeStackOffset = 0
        BY <1>2 DEF VmInv, StackHolds, CheckStack
    <2> QED
        BY <2>2, <2>3
<1>4. PICK runs \in BOOLEAN, handles \in 0..MaxHandles :
         /\ vm' = DoString(vm, TRUE, runs)
         /\ script' = [state |-> IF runs THEN "returned" ELSE "failed",
                       handles |-> handles, stop |-> FALSE]
         /\ IF DoStringSucceeds(vm, TRUE, runs) THEN Goto("run") /\ UNCHANGED exit
            ELSE Goto("unwind") /\ exit' = "failure"
    BY DEF RunScript
<1>5. /\ vm' \in Machine /\ vm'.peak <= 14 /\ Len(vm'.stack) = 11
      /\ vm'.loaded = vm.loaded /\ vm'.bindings = vm.bindings /\ vm'.open = vm.open
      /\ vm'.m_relativeStackOffset = IF runs THEN 0 ELSE 1
      /\ Last(vm'.stack) = IF runs THEN "result" ELSE "error"
    <2>1. HasRun(vm, vm', runs)
        <3>1. Len(vm.stack) <= 10
            BY <1>3
        <3> QED
            BY <1>1, <1>3, <1>4, <3>1, DoStringResult
    <2>2. vm.m_relativeStackOffset + (IF runs THEN 0 ELSE 1) = IF runs THEN 0 ELSE 1
        BY <1>3
    <2>3. Len(vm.stack) + 1 = 11
        BY <1>3
    <2> QED
        BY <2>1, <2>2, <2>3 DEF HasRun
<1>6. DoStringSucceeds(vm, TRUE, runs) = runs
    <2>1. DoStringSucceeds(vm, TRUE, runs) = (Last(vm'.stack) = "result" /\ CheckStack(vm'))
        BY <1>4 DEF DoStringSucceeds
    <2>2. (Last(vm'.stack) = "result" /\ CheckStack(vm')) <=> runs
        BY <1>5 DEF CheckStack
    <2> QED
        BY <2>1, <2>2
<1>7. /\ IF runs THEN pc' = "run" /\ exit' = exit ELSE pc' = "unwind" /\ exit' = "failure"
      /\ next' = 1 /\ loop' = loop
    BY <1>4, <1>6 DEF Goto, RunScript
<1>8. /\ script'.state = IF runs THEN "returned" ELSE "failed"
      /\ script' \in [state : {"unborn", "failed", "returned"}, handles : 0..MaxHandles, stop : BOOLEAN]
      /\ script'.stop = FALSE
    BY <1>4
<1>9. VmTypeOK'
    <2>1. next' \in 1..Len(Exports)
        BY <1>7, ListsAreInjective
    <2> QED
        BY <1>5, <1>7, <1>8, <2>1 DEF VmInv, VmTypeOK, Machine, StackValue
<1>10. LibrariesInOrder'
    BY <1>3, <1>5, <1>7, ListsAreInjective
       DEF LibrariesInOrder, PackagesAt, LibrariesAt, ScriptSeesAllLibraries
<1>11. StackHolds'
    BY <1>3, <1>5, <1>7, <1>8 DEF StackHolds, CheckStack
<1>12. ScriptFollows' /\ pc' \in Labels
    BY <1>2, <1>7, <1>8 DEF ScriptFollows, SuccessMeansDone, Labels
<1> QED
    BY <1>9, <1>10, <1>11, <1>12 DEF VmInv

(* From there on nothing is loaded, pushed or popped. *)
LEMMA EndStep ==
    ASSUME VmInv, ScriptExits \/ LoopTurn \/ RunMainLoopUntilDone \/ DestroySharedEventLoop
                  \/ DestroyVirtualMachine
    PROVE  VmInv'
<1>1. /\ vm \in Machine /\ loop \in [uv : BOOLEAN, luv : BOOLEAN, uws : BOOLEAN, curl : BOOLEAN]
      /\ script \in [state : {"unborn", "failed", "returned"}, handles : 0..MaxHandles, stop : BOOLEAN]
    BY MachineType DEF VmInv, VmTypeOK
<1>2. /\ vm' \in Machine /\ vm'.stack = vm.stack /\ vm'.peak = vm.peak
      /\ vm'.loaded = vm.loaded /\ vm'.bindings = vm.bindings
      /\ vm'.m_relativeStackOffset = vm.m_relativeStackOffset /\ vm'.open \in {vm.open, FALSE}
      /\ script'.state = script.state
    BY <1>1 DEF ScriptExits, LoopTurn, RunMainLoopUntilDone, DestroySharedEventLoop,
       DestroyVirtualMachine, Machine
<1>3. script' \in [state : {"unborn", "failed", "returned"}, handles : 0..MaxHandles, stop : BOOLEAN]
      /\ loop' \in [uv : BOOLEAN, luv : BOOLEAN, uws : BOOLEAN, curl : BOOLEAN]
    <2>1. CASE LoopTurn
        <3>1. script.handles \in Int /\ script.handles > 0 /\ script.handles <= MaxHandles
            BY <1>1, <2>1, HandlesAreCounted DEF LoopTurn
        <3>2. script.handles - 1 \in 0..MaxHandles
            BY <3>1, HandlesAreCounted
        <3> QED
            BY <1>1, <2>1, <3>2 DEF LoopTurn
    <2>2. CASE ScriptExits \/ RunMainLoopUntilDone \/ DestroyVirtualMachine
        BY <1>1, <2>2 DEF ScriptExits, RunMainLoopUntilDone, DestroyVirtualMachine
    <2>3. CASE DestroySharedEventLoop
        BY <1>1, <2>3 DEF DestroySharedEventLoop
    <2> QED
        BY <2>1, <2>2, <2>3
<1>4. /\ pc \in {"script", "run", "unwind", "close"} /\ pc' \in {"run", "unwind", "close", "exited"}
      /\ next' \in {next, 1}
      /\ exit' \in {"running", "returning", "success", "failure", "terminated", "byScript"}
    BY DEF ScriptExits, LoopTurn, RunMainLoopUntilDone, DestroySharedEventLoop,
       DestroyVirtualMachine, Goto, VmInv, VmTypeOK
<1>5. VmTypeOK'
    <2>1. next' \in 1..Len(Exports)
        BY <1>4, ListsAreInjective DEF VmInv, VmTypeOK
    <2> QED
        BY <1>2, <1>3, <1>4, <2>1 DEF VmTypeOK, Machine, StackValue
<1>6. LibrariesInOrder'
    BY <1>2, <1>4 DEF VmInv, LibrariesInOrder, PackagesAt, LibrariesAt, ScriptSeesAllLibraries
<1>7. StackHolds'
    BY <1>2, <1>4 DEF VmInv, StackHolds, CheckStack
<1>8. ScriptFollows'
    <2>1. CASE ScriptExits
        BY <2>1 DEF ScriptExits, Goto, VmInv, ScriptFollows, SuccessMeansDone
    <2>2. CASE LoopTurn
        <3>1. /\ pc = "run" /\ pc' = pc /\ exit' = exit /\ loop' = loop
              /\ script'.stop => script'.handles > 0
            BY <1>1, <2>2 DEF LoopTurn
        <3> QED
            BY <1>2, <3>1 DEF VmInv, ScriptFollows, SuccessMeansDone
    <2>3. CASE RunMainLoopUntilDone
        <3>1. script.handles = 0 /\ script.state = "returned" => script = Finished
            BY <1>1 DEF VmInv, ScriptFollows, Finished
        <3> QED
            BY <2>3, <3>1 DEF RunMainLoopUntilDone, Goto, VmInv, ScriptFollows, SuccessMeansDone
    <2>4. CASE DestroySharedEventLoop
        <3>1. ~loop'.luv
            BY <1>1, <2>4 DEF DestroySharedEventLoop
        <3> QED
            BY <2>4, <3>1 DEF DestroySharedEventLoop, Goto, VmInv, ScriptFollows, SuccessMeansDone
    <2>5. CASE DestroyVirtualMachine
        <3>1. ~vm'.open
            BY <1>1, <2>5 DEF DestroyVirtualMachine, Machine
        <3> QED
            BY <2>5, <3>1 DEF DestroyVirtualMachine, Goto, VmInv, ScriptFollows, SuccessMeansDone,
               Finished
    <2> QED
        BY <2>1, <2>2, <2>3, <2>4, <2>5
<1> QED
    BY <1>4, <1>5, <1>6, <1>7, <1>8 DEF VmInv, Labels

LEMMA VmStepHolds == VmInv /\ [VmNext]_vmVars => VmInv'
<1> SUFFICES ASSUME VmInv, [VmNext]_vmVars PROVE VmInv'
    OBVIOUS
<1>1. CASE UNCHANGED vmVars
    BY <1>1 DEF vmVars, VmInv, VmTypeOK, LibrariesInOrder, StackHolds, ScriptFollows,
       ScriptSeesAllLibraries, SuccessMeansDone, CheckStack
<1> QED
    BY <1>1, ConstructStep, LookStep, LoopInitStep, LoadStep, BindStep, RunScriptStep, EndStep
       DEF VmNext

(* However the script behaves and whatever fails to initialise: the values that
   LoadPackage leaves on the Lua stack never fill the slots a C function has. *)
THEOREM StackIsLargeEnough == VmSpec => []StackNeverOverflows
<1>1. VmInv => StackNeverOverflows
    <2> SUFFICES ASSUME VmInv PROVE StackNeverOverflows
        OBVIOUS
    <2>1. vm.peak <= LUA_MINSTACK
        BY EnoughSlots, MachineType DEF VmInv, StackHolds
    <2> QED
        BY <2>1 DEF VmInv, StackHolds, StackNeverOverflows
<1> QED
    BY <1>1, VmInitHolds, VmStepHolds, PTL DEF VmSpec

(* The script runs with every package and every binding in place, and the process
   reports success only if the script returned, the event loop has nothing left,
   and everything was torn down. *)
THEOREM RunsAreAlwaysComplete == VmSpec => []RunsAreComplete
<1>1. VmInv => RunsAreComplete
    BY DEF VmInv, LibrariesInOrder, ScriptFollows, RunsAreComplete
<1> QED
    BY <1>1, VmInitHolds, VmStepHolds, PTL DEF VmSpec

-----------------------------------------------------------------------------
(* Induction.  The induction theorems of the library are about an operator, here
   the property is the set of the numbers that have it. *)

LEMMA LeastNumber ==
    ASSUME NEW T \in SUBSET Nat, T # {}
    PROVE  \E x \in T : \A y \in T : x <= y
<1>1. PICK x \in T : \A y \in T : <<y, x>> \notin OpToRel(<, Nat)
    BY NatLessThanWellFounded, WFMin, Zenon
<1>2. \A y \in T : ~(y < x)
    BY <1>1 DEF OpToRel
<1> QED
    BY <1>2

LEMMA Induction ==
    ASSUME NEW S, 0 \in S, \A k \in Nat : k \in S => k + 1 \in S
    PROVE  \A k \in Nat : k \in S
<1> SUFFICES ASSUME NEW m \in Nat, m \notin S PROVE FALSE
    OBVIOUS
<1> DEFINE T == Nat \ S
<1>1. PICK x \in T : \A y \in T : x <= y
    BY LeastNumber
<1>2. x # 0 /\ x - 1 \in Nat
    BY <1>1
<1>3. x - 1 \in S
    BY <1>1, <1>2
<1> QED
    BY <1>1, <1>2, <1>3

LEMMA BoundedInduction ==
    ASSUME NEW n \in Nat, NEW S, 0 \in S, \A k \in 0..(n - 1) : k \in S => k + 1 \in S
    PROVE  \A k \in 0..n : k \in S
<1> DEFINE T == {k \in Nat : k <= n => k \in S}
<1>1. 0 \in T
    OBVIOUS
<1>2. \A k \in Nat : k \in T => k + 1 \in T
    OBVIOUS
<1> HIDE DEF T
<1>3. \A k \in Nat : k \in T
    BY <1>1, <1>2, Induction
<1> QED
    BY <1>3 DEF T

-----------------------------------------------------------------------------
(* Folds over sequences. *)

(* The largest number of a set up to m + 1 that has m + 1. *)
LEMMA MaxIsLast ==
    ASSUME NEW m \in Nat, NEW s \in SUBSET (1..(m + 1)), m + 1 \in s
    PROVE  Max(s) = m + 1
<1>1. m + 1 \in s /\ \A y \in s : m + 1 >= y
    OBVIOUS
<1>2. Max(s) \in s /\ \A y \in s : Max(s) >= y
    BY <1>1, Zenon DEF Max
<1>3. \A y \in s : y \in Int
    OBVIOUS
<1>4. Max(s) \in Int
    BY <1>2, <1>3, Zenon
<1> QED
    BY <1>1, <1>2, <1>4

(* g is what a fold iterates: step takes the largest index of a set and the
   result for the others. *)
IteratesFold(g, n, base, step) ==
    \A s \in SUBSET (1..n) :
       g[s] = IF s = {} THEN base ELSE step[<<Max(s), g[s \ {Max(s)}]>>]

LEMMA FoldExists ==
    ASSUME NEW n \in Nat, NEW St, NEW base \in St, NEW step \in [(1..n) \X St -> St]
    PROVE  \E g \in [SUBSET (1..n) -> St] : IteratesFold(g, n, base, step)
<1> DEFINE Good(m, g) == IteratesFold(g, m, base, step)
           S == {m \in 0..n : \E g \in [SUBSET (1..m) -> St] : Good(m, g)}
<1>1. 0 \in S
    <2> DEFINE g == [s \in SUBSET (1..0) |-> base]
    <2>0. 1..0 = {}
        OBVIOUS
    <2>1. g \in [SUBSET (1..0) -> St]
        OBVIOUS
    <2>2. Good(0, g)
        BY <2>0 DEF IteratesFold
    <2>3. 0 \in 0..n
        OBVIOUS
    <2> HIDE DEF g, Good
    <2> QED
        BY <2>1, <2>2, <2>3
<1>2. ASSUME NEW m \in 0..(n - 1), m \in S PROVE m + 1 \in S
    <2>1. PICK g \in [SUBSET (1..m) -> St] : Good(m, g)
        BY <1>2
    <2> HIDE DEF Good
    <2> DEFINE h == [s \in SUBSET (1..(m + 1)) |->
                       IF m + 1 \in s THEN step[<<m + 1, g[s \ {m + 1}]>>] ELSE g[s]]
    <2>2. ASSUME NEW s \in SUBSET (1..(m + 1)), m + 1 \in s
          PROVE  /\ s \ {m + 1} \in SUBSET (1..m)
                 /\ h[s] = step[<<m + 1, g[s \ {m + 1}]>>] /\ h[s] \in St
                 /\ h[s \ {m + 1}] = g[s \ {m + 1}]
        <3>1. s \ {m + 1} \in SUBSET (1..m)
            OBVIOUS
        <3>2. g[s \ {m + 1}] \in St
            BY <3>1
        <3>3. m + 1 \in 1..n
            OBVIOUS
        <3>4. <<m + 1, g[s \ {m + 1}]>> \in (1..n) \X St
            BY <3>2, <3>3
        <3>5. step[<<m + 1, g[s \ {m + 1}]>>] \in St
            BY <3>4
        <3>6. s \ {m + 1} \in SUBSET (1..(m + 1)) /\ m + 1 \notin s \ {m + 1}
            OBVIOUS
        <3> QED
            BY <2>2, <3>1, <3>5, <3>6
    <2>3. ASSUME NEW s \in SUBSET (1..(m + 1)), m + 1 \notin s
          PROVE  s \in SUBSET (1..m) /\ h[s] = g[s]
        <3>1. s \in SUBSET (1..m)
            BY <2>3
        <3> QED
            BY <2>3, <3>1
    <2>4. h \in [SUBSET (1..(m + 1)) -> St]
        <3>1. \A s \in SUBSET (1..(m + 1)) : h[s] \in St
            BY <2>2, <2>3
        <3>2. h = [s \in SUBSET (1..(m + 1)) |-> h[s]]
            OBVIOUS
        <3> HIDE DEF h
        <3> QED
            BY <3>1, <3>2
    <2> HIDE DEF h
    <2>5. ASSUME NEW s \in SUBSET (1..(m + 1))
          PROVE  h[s] = IF s = {} THEN base ELSE step[<<Max(s), h[s \ {Max(s)}]>>]
        <3>1. CASE m + 1 \in s
            <4>1. Max(s) = m + 1
                BY <3>1, MaxIsLast
            <4> QED
                BY <2>2, <3>1, <4>1
        <3>2. CASE m + 1 \notin s
            <4>1. s \in SUBSET (1..m) /\ h[s] = g[s]
                BY <2>3, <3>2
            <4>2. g[s] = IF s = {} THEN base ELSE step[<<Max(s), g[s \ {Max(s)}]>>]
                BY <2>1, <4>1 DEF Good, IteratesFold
            <4>3. s \ {Max(s)} \in SUBSET (1..(m + 1)) /\ m + 1 \notin s \ {Max(s)}
                BY <3>2
            <4>4. h[s \ {Max(s)}] = g[s \ {Max(s)}]
                BY <2>3, <4>3
            <4> QED
                BY <4>1, <4>2, <4>4
        <3> QED
            BY <3>1, <3>2
    <2>6. Good(m + 1, h)
        BY <2>5 DEF Good, IteratesFold
    <2>7. m + 1 \in 0..n
        OBVIOUS
    <2> QED
        BY <2>4, <2>6, <2>7
<1>3. n \in S
    <2> HIDE DEF S
    <2>1. \A k \in 0..n : k \in S
        BY <1>1, <1>2, BoundedInduction
    <2> QED
        BY <2>1
<1> QED
    BY <1>3

(* The sets that a fold over a sequence meets. *)
LEMMA Intervals ==
    ASSUME NEW n \in Nat, NEW k \in 1..n
    PROVE  /\ Max(1..k) = k /\ (1..k) \ {k} = 1..(k - 1)
           /\ 1..k \in SUBSET (1..n) /\ 1..(k - 1) \in SUBSET (1..n) /\ 1..k # {}
<1>1. k - 1 \in Nat /\ k \in 1..k
    OBVIOUS
<1>2. 1..k \in SUBSET (1..((k - 1) + 1)) /\ (k - 1) + 1 \in 1..k
    BY <1>1
<1>3. Max(1..k) = (k - 1) + 1
    BY <1>1, <1>2, MaxIsLast, Zenon
<1>4. (1..k) \ {k} = 1..(k - 1)
    BY <1>1
<1> QED
    BY <1>1, <1>3, <1>4

(* A recursive function over 0..n exists. *)
Recurs(f, n, base, step) ==
    \A k \in 0..n : f[k] = IF k = 0 THEN base ELSE step[<<k, f[k - 1]>>]

LEMMA RecursionExists ==
    ASSUME NEW n \in Nat, NEW St, NEW base \in St, NEW step \in [(1..n) \X St -> St]
    PROVE  \E f \in [0..n -> St] : Recurs(f, n, base, step)
<1>1. PICK g \in [SUBSET (1..n) -> St] : IteratesFold(g, n, base, step)
    BY FoldExists, Zenon
<1> DEFINE f == [k \in 0..n |-> g[1..k]]
<1>2. \A k \in 0..n : 1..k \in SUBSET (1..n)
    OBVIOUS
<1>3. f \in [0..n -> St]
    BY <1>2
<1>4. ASSUME NEW k \in 0..n PROVE f[k] = IF k = 0 THEN base ELSE step[<<k, f[k - 1]>>]
    <2>1. CASE k = 0
        <3>1. 1..k = {}
            BY <2>1
        <3> QED
            BY <1>1, <1>2, <2>1, <3>1 DEF IteratesFold
    <2>2. CASE k # 0
        <3>1. k \in 1..n /\ k - 1 \in 0..n
            BY <2>2
        <3>5. g[1..k] = step[<<k, g[1..(k - 1)]>>]
            BY <1>1, <3>1, Intervals DEF IteratesFold
        <3> QED
            BY <2>2, <3>1, <3>5
    <2> QED
        BY <2>1, <2>2
<1> HIDE DEF f
<1> QED
    BY <1>3, <1>4 DEF Recurs

LEMMA MaxOfIndices ==
    ASSUME NEW n \in Nat, NEW s \in SUBSET (1..n), s # {}
    PROVE  Max(s) \in s
<1> DEFINE T == {n - y : y \in s}
<1>0. PICK e \in s : TRUE
    OBVIOUS
<1>1. T \in SUBSET Nat /\ n - e \in T
    BY <1>0
<1>2. PICK x \in T : \A y \in T : x <= y
    BY <1>1, LeastNumber
<1>3. PICK z \in s : x = n - z
    BY <1>2
<1>4. \A y \in s : z >= y
    <2> TAKE y \in s
    <2>1. n - z <= n - y
        BY <1>2, <1>3
    <2> QED
        BY <2>1, <1>3
<1> QED
    BY <1>3, <1>4, Zenon DEF Max

(* Concatenation is associative, and what a function over 1..n is. *)
Associative(X) == \A a, b, c \in Seq(X) : (a \o b) \o c = a \o (b \o c)

LEMMA ConcatIsAssociative == \A X : Associative(X)
<1> SUFFICES ASSUME NEW X, NEW a \in Seq(X), NEW b \in Seq(X), NEW c \in Seq(X)
             PROVE  (a \o b) \o c = a \o (b \o c)
    BY DEF Associative
<1> QED
    BY ConcatAssociative

-----------------------------------------------------------------------------
(* Images: what append_to_buffer has kept and skipped after every chunk, against
   the sum of the chunks that count_bytes adds up. *)

Positive == Nat \ {0}

(* total is what the counter is after every chunk. *)
CountsChunks(total, chunks) ==
    /\ total \in [0..Len(chunks) -> Nat] /\ total[0] = 0
    /\ \A k \in 1..Len(chunks) : total[k] = total[k - 1] + chunks[k]

(* RequiredSize adds up the chunks. *)
LEMMA RequiredSizeCounts ==
    ASSUME NEW chunks \in Seq(Nat)
    PROVE  \E total : CountsChunks(total, chunks) /\ RequiredSize(chunks) = total[Len(chunks)]
<1> DEFINE n == Len(chunks)
           Is(g) == g = [s \in SUBSET (DOMAIN chunks) |-> IF s = {} THEN 0
                           ELSE count_bytes(g[s \ {Max(s)}], chunks[Max(s)])]
           iter == CHOOSE g : Is(g)
           step == [x \in (1..n) \X Nat |-> x[2] + chunks[x[1]]]
           total == [k \in 0..n |-> iter[1..k]]
<1>0. n \in Nat /\ DOMAIN chunks = 1..n
    OBVIOUS
<1>1. RequiredSize(chunks) = iter[DOMAIN chunks]
    BY Zenon DEF RequiredSize, FoldLeft, MapThenFoldSet
<1>2. step \in [(1..n) \X Nat -> Nat]
    OBVIOUS
<1>3. PICK g \in [SUBSET (1..n) -> Nat] : IteratesFold(g, n, 0, step)
    <2> HIDE DEF n, step
    <2> QED
        BY <1>0, <1>2, FoldExists
<1>4. Is(g)
    <2>1. ASSUME NEW s \in SUBSET (1..n), s # {}
          PROVE  g[s] = count_bytes(g[s \ {Max(s)}], chunks[Max(s)])
        <3>1. Max(s) \in 1..n /\ g[s \ {Max(s)}] \in Nat
            BY <2>1, <1>0, MaxOfIndices
        <3>2. g[s] = step[<<Max(s), g[s \ {Max(s)}]>>]
            BY <1>3, <2>1 DEF IteratesFold
        <3> QED
            BY <3>1, <3>2 DEF count_bytes
    <2>2. g[{}] = 0
        BY <1>3 DEF IteratesFold
    <2>3. g = [s \in SUBSET (1..n) |-> g[s]]
        OBVIOUS
    <2> QED
        BY <1>0, <2>1, <2>2, <2>3, Zenon
<1>5. Is(iter)
    <2> HIDE DEF Is
    <2> QED
        BY <1>4, Zenon
<1>6. ASSUME NEW k \in 1..n PROVE total[k] = total[k - 1] + chunks[k]
    <2> HIDE DEF iter
    <2>1. \A s \in SUBSET (1..n) :
             s # {} => iter[s] = count_bytes(iter[s \ {Max(s)}], chunks[Max(s)])
        BY <1>0, <1>5
    <2> HIDE DEF Is, n
    <2>2. /\ Max(1..k) = k /\ (1..k) \ {k} = 1..(k - 1)
          /\ 1..k \in SUBSET (1..n) /\ 1..k # {}
        BY <1>0, Intervals
    <2>3. iter[1..k] = count_bytes(iter[1..(k - 1)], chunks[k])
        BY <2>1, <2>2, Zenon
    <2>4. k \in 0..n /\ k - 1 \in 0..n
        BY <1>0
    <2> QED
        BY <2>3, <2>4 DEF count_bytes
<1>7. total[0] = 0
    <2> HIDE DEF iter
    <2>1. 1..0 = {} /\ {} \in SUBSET (1..n) /\ 0 \in 0..n
        OBVIOUS
    <2>2. iter[{}] = 0
        BY <1>0, <1>5, <2>1
    <2> QED
        BY <2>1, <2>2
<1>8. \A k \in 0..n : total[k] \in Nat
    <2> DEFINE S == {k \in 0..n : total[k] \in Nat}
    <2> HIDE DEF total
    <2>1. 0 \in S
        BY <1>0, <1>7
    <2>2. ASSUME NEW k \in 0..(n - 1), k \in S PROVE k + 1 \in S
        <3>1. k + 1 \in 1..n /\ (k + 1) - 1 = k /\ chunks[k + 1] \in Nat
            BY <1>0
        <3>2. total[k + 1] = total[k] + chunks[k + 1]
            BY <1>6, <3>1
        <3> QED
            BY <2>2, <3>1, <3>2
    <2> HIDE DEF S, n
    <2>3. \A k \in 0..n : k \in S
        BY <1>0, <2>1, <2>2, BoundedInduction
    <2> QED
        BY <2>3 DEF S
<1>9. total[n] = iter[DOMAIN chunks]
    BY <1>0
<1> HIDE DEF iter
<1>10. total \in [0..n -> Nat]
    BY <1>8
<1> HIDE DEF total
<1> QED
    BY <1>1, <1>6, <1>7, <1>9, <1>10 DEF CountsChunks

Buffer == [capacity : Nat, num_bytes_used : Nat, kept : Seq(1..MaxChunks)]

NewBuffer(size) == [capacity |-> size, num_bytes_used |-> 0, kept |-> <<>>]

(* results is what the buffer is after every chunk. *)
AppendsChunks(results, chunks, size) ==
    /\ results[0] = NewBuffer(size)
    /\ \A k \in 1..Len(chunks) : results[k] = append_to_buffer(results[k - 1], chunks, k)

LEMMA AppendType ==
    ASSUME NEW chunks \in Seq(Nat), Len(chunks) <= MaxChunks,
           NEW output \in Buffer, NEW k \in 1..Len(chunks)
    PROVE  append_to_buffer(output, chunks, k) \in Buffer
<1>1. chunks[k] \in Nat /\ k \in 1..MaxChunks
    BY EncoderAssumption
<1>2. /\ output.num_bytes_used + chunks[k] \in Nat
      /\ Append(output.kept, k) \in Seq(1..MaxChunks)
    BY <1>1 DEF Buffer
<1> QED
    BY <1>2 DEF append_to_buffer, Buffer

(* Encode appends the chunks one after the other. *)
LEMMA EncodeAppends ==
    ASSUME NEW chunks \in Seq(Nat), Len(chunks) <= MaxChunks, NEW size \in Nat
    PROVE  \E results : /\ AppendsChunks(results, chunks, size)
                        /\ Encode(chunks, size) = results[Len(chunks)]
<1> DEFINE n == Len(chunks)
           ids == [i \in DOMAIN chunks |-> i]
           Is(g) == g = [s \in SUBSET (DOMAIN ids) |-> IF s = {} THEN NewBuffer(size)
                           ELSE append_to_buffer(g[s \ {Max(s)}], chunks, ids[Max(s)])]
           iter == CHOOSE g : Is(g)
           step == [x \in (1..n) \X Buffer |-> append_to_buffer(x[2], chunks, x[1])]
           results == [k \in 0..n |-> iter[1..k]]
<1>0. n \in Nat /\ DOMAIN ids = 1..n /\ (\A i \in 1..n : ids[i] = i)
    OBVIOUS
<1>1. Encode(chunks, size) = iter[DOMAIN ids]
    BY Zenon DEF Encode, FoldLeft, MapThenFoldSet, NewBuffer
<1> HIDE DEF ids
<1>2. step \in [(1..n) \X Buffer -> Buffer]
    BY AppendType
<1>a. NewBuffer(size) \in Buffer
    BY DEF NewBuffer, Buffer
<1>3. PICK g \in [SUBSET (1..n) -> Buffer] : IteratesFold(g, n, NewBuffer(size), step)
    <2> HIDE DEF n, step
    <2> QED
        BY <1>0, <1>2, <1>a, FoldExists
<1>4. Is(g)
    <2>1. ASSUME NEW s \in SUBSET (1..n), s # {}
          PROVE  g[s] = append_to_buffer(g[s \ {Max(s)}], chunks, ids[Max(s)])
        <3>1. Max(s) \in 1..n /\ g[s \ {Max(s)}] \in Buffer
            BY <2>1, <1>0, MaxOfIndices
        <3>2. g[s] = step[<<Max(s), g[s \ {Max(s)}]>>]
            BY <1>3, <2>1 DEF IteratesFold
        <3>3. ids[Max(s)] = Max(s)
            BY <1>0, <3>1
        <3> QED
            BY <3>1, <3>2, <3>3
    <2>2. g[{}] = NewBuffer(size)
        BY <1>3 DEF IteratesFold
    <2>3. g = [s \in SUBSET (1..n) |-> g[s]]
        OBVIOUS
    <2> QED
        BY <1>0, <2>1, <2>2, <2>3, Zenon
<1>5. Is(iter)
    <2> HIDE DEF Is
    <2> QED
        BY <1>4, Zenon
<1> HIDE DEF iter
<1>6. ASSUME NEW k \in 1..n PROVE results[k] = append_to_buffer(results[k - 1], chunks, k)
    <2>1. \A s \in SUBSET (1..n) :
             s # {} => iter[s] = append_to_buffer(iter[s \ {Max(s)}], chunks, ids[Max(s)])
        BY <1>0, <1>5
    <2> HIDE DEF Is, n
    <2>2. /\ Max(1..k) = k /\ (1..k) \ {k} = 1..(k - 1)
          /\ 1..k \in SUBSET (1..n) /\ 1..k # {} /\ ids[k] = k
        BY <1>0, Intervals
    <2>3. iter[1..k] = append_to_buffer(iter[1..(k - 1)], chunks, k)
        BY <2>1, <2>2, Zenon
    <2>4. k \in 0..n /\ k - 1 \in 0..n
        BY <1>0
    <2> QED
        BY <2>3, <2>4
<1>7. results[0] = NewBuffer(size)
    <2>1. 1..0 = {} /\ {} \in SUBSET (1..n) /\ 0 \in 0..n
        OBVIOUS
    <2>2. iter[{}] = NewBuffer(size)
        BY <1>0, <1>5, <2>1
    <2> QED
        BY <2>1, <2>2
<1>8. results[n] = iter[DOMAIN ids]
    BY <1>0
<1> HIDE DEF results
<1> QED
    BY <1>1, <1>6, <1>7, <1>8 DEF AppendsChunks

(* The chunks up to the k-th are all in the buffer, or it was too small for
   them and what is in it is less. *)
WholeUpTo(output, k, bytes, size) ==
    /\ output \in Buffer /\ output.capacity = size /\ output.num_bytes_used <= size
    /\ \/ output.kept = [i \in 1..k |-> i] /\ output.num_bytes_used = bytes
       \/ Len(output.kept) < k /\ output.num_bytes_used < bytes /\ size < bytes

LEMMA WholeUpToNext ==
    ASSUME NEW chunks \in Seq(Positive), Len(chunks) <= MaxChunks, NEW size \in Nat,
           NEW k \in 1..Len(chunks), NEW output, NEW bytes \in Nat,
           WholeUpTo(output, k - 1, bytes, size)
    PROVE  WholeUpTo(append_to_buffer(output, chunks, k), k, bytes + chunks[k], size)
<1> DEFINE after == append_to_buffer(output, chunks, k)
           used == output.num_bytes_used
           more == used + chunks[k]
<1> SUFFICES WholeUpTo(after, k, bytes + chunks[k], size)
    OBVIOUS
<1>1. chunks[k] \in Nat /\ chunks[k] > 0 /\ k \in Nat /\ chunks \in Seq(Nat)
    BY DEF Positive
<1>2. /\ output \in Buffer /\ used \in Nat
      /\ output.kept \in Seq(1..MaxChunks) /\ Len(output.kept) \in Nat
    BY DEF WholeUpTo, Buffer
<1>3. after \in Buffer
    BY <1>1, <1>2, AppendType
<1>4. CASE more <= size
    <2>1. after = [capacity |-> size, num_bytes_used |-> more, kept |-> Append(output.kept, k)]
        BY <1>2, <1>4 DEF append_to_buffer, WholeUpTo, Buffer
    <2>2. after.capacity = size /\ after.num_bytes_used = more
          /\ after.kept = Append(output.kept, k)
        BY <2>1
    <2>3. CASE output.kept = [i \in 1..(k - 1) |-> i] /\ used = bytes
        <3>1. Append(output.kept, k) = [i \in 1..k |-> i]
            <4>1. Len(output.kept) = k - 1
                BY <1>1, <2>3
            <4> QED
                BY <1>1, <2>3, <4>1
        <3> HIDE DEF after
        <3> QED
            BY <1>3, <1>4, <2>2, <2>3, <3>1 DEF WholeUpTo
    <2>4. CASE Len(output.kept) < k - 1 /\ used < bytes /\ size < bytes
        <3>1. Len(Append(output.kept, k)) < k
            BY <1>1, <1>2, <2>4
        <3>2. more < bytes + chunks[k] /\ size < bytes + chunks[k]
            BY <1>1, <1>2, <2>4
        <3> HIDE DEF after
        <3> QED
            BY <1>3, <1>4, <2>2, <3>1, <3>2 DEF WholeUpTo
    <2> QED
        BY <2>3, <2>4 DEF WholeUpTo
<1>5. CASE ~(more <= size)
    <2>1. after = output
        BY <1>5 DEF append_to_buffer, WholeUpTo
    <2>2. used <= bytes /\ used <= size
        BY <1>2 DEF WholeUpTo
    <2>3. size < bytes + chunks[k] /\ used < bytes + chunks[k]
        BY <1>1, <1>2, <1>5, <2>2
    <2>4. Len(output.kept) < k
        <3>1. CASE output.kept = [i \in 1..(k - 1) |-> i]
            BY <1>1, <3>1
        <3>2. CASE Len(output.kept) < k - 1
            BY <1>1, <1>2, <3>2
        <3> QED
            BY <3>1, <3>2 DEF WholeUpTo
    <2> HIDE DEF after
    <2> QED
        BY <1>2, <2>1, <2>2, <2>3, <2>4, SMT DEF WholeUpTo
<1> QED
    BY <1>4, <1>5

(* What encoding into a buffer of any size yields. *)
LEMMA EncodeIsWhole ==
    ASSUME NEW chunks \in Seq(Positive), Len(chunks) <= MaxChunks, NEW size \in Nat
    PROVE  /\ RequiredSize(chunks) \in Nat
           /\ WholeUpTo(Encode(chunks, size), Len(chunks), RequiredSize(chunks), size)
<1>0. chunks \in Seq(Nat) /\ Len(chunks) \in Nat
    BY DEF Positive
<1>1. PICK total : CountsChunks(total, chunks) /\ RequiredSize(chunks) = total[Len(chunks)]
    BY <1>0, RequiredSizeCounts
<1>2. PICK results : /\ AppendsChunks(results, chunks, size)
                     /\ Encode(chunks, size) = results[Len(chunks)]
    BY <1>0, EncodeAppends
<1> DEFINE S == {k \in 0..Len(chunks) : WholeUpTo(results[k], k, total[k], size)}
<1>3. 0 \in S
    <2>1. total[0] = 0 /\ results[0] = NewBuffer(size)
        BY <1>1, <1>2 DEF CountsChunks, AppendsChunks
    <2>2. <<>> = [i \in 1..0 |-> i]
        OBVIOUS
    <2>3. NewBuffer(size) \in Buffer /\ NewBuffer(size).capacity = size
          /\ NewBuffer(size).num_bytes_used = 0 /\ NewBuffer(size).kept = <<>>
        BY DEF NewBuffer, Buffer
    <2>4. WholeUpTo(results[0], 0, total[0], size)
        BY <2>1, <2>2, <2>3 DEF WholeUpTo
    <2> QED
        BY <1>0, <2>4
<1>4. ASSUME NEW k \in 0..(Len(chunks) - 1), k \in S PROVE k + 1 \in S
    <2>1. k + 1 \in 1..Len(chunks) /\ (k + 1) - 1 = k /\ k \in 0..Len(chunks)
        BY <1>0
    <2>2. total[k + 1] = total[k] + chunks[k + 1] /\ total[k] \in Nat
        BY <1>1, <2>1 DEF CountsChunks
    <2>3. results[k + 1] = append_to_buffer(results[k], chunks, k + 1)
        BY <1>2, <2>1 DEF AppendsChunks
    <2>4. WholeUpTo(results[k], (k + 1) - 1, total[k], size)
        BY <1>4, <2>1
    <2>5. WholeUpTo(results[k + 1], k + 1, total[k + 1], size)
        BY <2>1, <2>2, <2>3, <2>4, WholeUpToNext
    <2> QED
        BY <1>0, <2>1, <2>5
<1>5. Len(chunks) \in S
    <2> HIDE DEF S
    <2>1. \A k \in 0..Len(chunks) : k \in S
        BY <1>0, <1>3, <1>4, BoundedInduction
    <2> QED
        BY <1>0, <2>1
<1>6. total[Len(chunks)] \in Nat
    BY <1>0, <1>1 DEF CountsChunks
<1> QED
    BY <1>1, <1>2, <1>5, <1>6

-----------------------------------------------------------------------------
(* Both properties are inductive, given the types. *)
StbiInv == StbiTypeOK /\ ImagesAreSound

(* Whatever the quality, there are a few chunks. *)
LEMMA JpgChunksType ==
    ASSUME NEW quality \in Int
    PROVE  JpgChunks(quality) \in Seq(Positive) /\ Len(JpgChunks(quality)) <= MaxChunks
<1> DEFINE nearest == IF quality < 0 THEN 0
                      ELSE IF quality > MaxQuality THEN MaxQuality ELSE quality
           ones == [i \in 1..nearest |-> 1]
<1>1. MaxChunkSize \in Positive /\ 1 \in Positive /\ nearest \in Nat /\ nearest + 1 <= MaxChunks
    BY EncoderAssumption DEF Positive
<1>2. JpgChunks(quality) = <<MaxChunkSize>> \o ones
    BY DEF JpgChunks
<1> HIDE DEF nearest
<1>3. ones \in Seq(Positive) /\ Len(ones) = nearest
    BY <1>1
<1>4. <<MaxChunkSize>> \in Seq(Positive) /\ Len(<<MaxChunkSize>>) = 1
    BY <1>1
<1> HIDE DEF ones
<1>5. <<MaxChunkSize>> \o ones \in Seq(Positive) /\ Len(<<MaxChunkSize>> \o ones) = 1 + nearest
    BY <1>3, <1>4
<1> QED
    BY <1>1, <1>2, <1>5

(* Encoding into a buffer of any size.  The chunks that were counted are those that
   are encoded, unless the quality is negative. *)
LEMMA StoreStep ==
    ASSUME NEW quality \in Int,
           NEW counted \in Seq(Positive), Len(counted) <= MaxChunks,
           NEW chunks \in Seq(Positive), Len(chunks) <= MaxChunks,
           quality >= 0 => counted = chunks,
           NEW size \in Nat,
           StbiInv, StoreEncoded(quality, counted, chunks, size)
    PROVE  StbiInv'
<1> DEFINE output == Encode(chunks, size)
           needed == RequiredSize(chunks)
           required == RequiredSize(counted)
<1>1. needed \in Nat /\ WholeUpTo(output, Len(chunks), needed, size)
    BY EncodeIsWhole
<1>2. Len(chunks) \in 0..MaxChunks
    BY EncoderAssumption
<1>3. encoded' = [kept |-> output.kept, of |-> Len(chunks),
                  num_bytes_used |-> output.num_bytes_used,
                  size |-> needed, required |-> required, capacity |-> size,
                  quality |-> quality]
      /\ image' = image /\ pixel' = pixel /\ gone' = gone
    BY DEF StoreEncoded
<1>4. required \in Nat
    BY EncodeIsWhole
<1>5. quality >= 0 => required = needed
    OBVIOUS
<1> HIDE DEF output, required, needed
<1>6. output \in Buffer /\ output.num_bytes_used \in Nat /\ output.kept \in Seq(1..MaxChunks)
    BY <1>1 DEF WholeUpTo, Buffer
<1>7. StbiTypeOK'
    BY <1>1, <1>2, <1>3, <1>4, <1>6 DEF StbiInv, StbiTypeOK
<1>8. EncodedFilesAreWhole'
    <2> DEFINE whole == output.kept = [i \in 1..Len(chunks) |-> i]
    <2>1. output.num_bytes_used <= size
        BY <1>1 DEF WholeUpTo
    <2>2. Len(output.kept) < Len(chunks) => ~whole
        BY <1>6
    <2>3. (whole /\ output.num_bytes_used = needed)
          \/ (~whole /\ output.num_bytes_used < needed /\ size < needed)
        BY <1>1, <2>2 DEF WholeUpTo
    <2>4. (size >= needed => whole) /\ whole = (output.num_bytes_used = needed)
        BY <1>1, <1>6, <2>3
    <2> QED
        BY <1>3, <1>5, <2>1, <2>4 DEF EncodedFilesAreWhole
<1> QED
    BY <1>3, <1>7, <1>8 DEF StbiInv, ImagesAreSound, ReplacedColorsAreGone

LEMMA EncodeStep ==
    ASSUME StbiInv, NEW chunks \in ChunkLists,
           \/ \E slack \in {0, 1} : EncodeReserved(chunks, slack)
           \/ \E size \in 0..(MaxChunks * MaxChunkSize) : EncodeInto(chunks, size)
    PROVE  StbiInv'
<1>1. PICK n \in 1..MaxChunks : chunks \in [1..n -> 1..MaxChunkSize]
    BY DEF ChunkLists
<1>2. chunks \in Seq(Positive) /\ Len(chunks) <= MaxChunks
    BY <1>1, EncoderAssumption DEF Positive
<1>3. RequiredSize(chunks) \in Nat
    BY <1>2, EncodeIsWhole
<1>4. ASSUME NEW slack \in {0, 1}, EncodeReserved(chunks, slack) PROVE StbiInv'
    <2>1. RequiredSize(chunks) + slack \in Nat /\ 0 \in Int
        BY <1>3
    <2> QED
        BY <1>2, <1>4, <2>1, StoreStep DEF EncodeReserved
<1>5. ASSUME NEW size \in 0..(MaxChunks * MaxChunkSize), EncodeInto(chunks, size) PROVE StbiInv'
    <2>1. size \in Nat /\ 0 \in Int
        BY EncoderAssumption
    <2> QED
        BY <1>2, <1>5, <2>1, StoreStep DEF EncodeInto
<1> QED
    BY <1>4, <1>5

(* The counting pass is given the quality as it is, and takes one beyond the range
   for the highest, as the encoding pass does; one below it for the lowest. *)
LEMMA EncodeJpgStep ==
    ASSUME StbiInv, NEW quality \in Int, EncodeReservedJpg(quality)
    PROVE  StbiInv'
<1> DEFINE counted == JpgChunks(stbi_get_required_jpg_size(quality))
           chunks == JpgChunks(stbi_encode_jpg(quality))
<1>1. stbi_get_required_jpg_size(quality) \in Int /\ stbi_encode_jpg(quality) \in Int
    BY EncoderAssumption DEF stbi_encode_jpg, stbi_get_required_jpg_size
<1>2. /\ counted \in Seq(Positive) /\ Len(counted) <= MaxChunks
      /\ chunks \in Seq(Positive) /\ Len(chunks) <= MaxChunks
    BY <1>1, JpgChunksType
<1>3. ASSUME quality >= 0 PROVE counted = chunks
    <2>1. CASE quality > MaxQuality
        <3>1. stbi_encode_jpg(quality) = MaxQuality /\ stbi_get_required_jpg_size(quality) = quality
            BY <2>1 DEF stbi_encode_jpg, stbi_get_required_jpg_size
        <3>2. ~(quality < 0) /\ ~(MaxQuality < 0) /\ ~(MaxQuality > MaxQuality)
            BY <1>3, EncoderAssumption
        <3> QED
            BY <2>1, <3>1, <3>2, Zenon DEF JpgChunks
    <2>2. CASE ~(quality > MaxQuality)
        <3>1. stbi_encode_jpg(quality) = stbi_get_required_jpg_size(quality)
            BY <1>3, <2>2 DEF stbi_encode_jpg, stbi_get_required_jpg_size
        <3> QED
            BY <3>1, Zenon
    <2> QED
        BY <2>1, <2>2
<1>4. StoreEncoded(quality, counted, chunks, RequiredSize(counted))
    BY Zenon DEF EncodeReservedJpg
<1> HIDE DEF chunks, counted
<1>5. RequiredSize(counted) \in Nat
    BY <1>2, EncodeIsWhole
<1> QED
    BY <1>2, <1>3, <1>4, <1>5, StoreStep

LEMMA LoadImageStep ==
    ASSUME StbiInv, NEW fileChannels \in 1..4, NEW n \in 0..4, Load(fileChannels, n)
    PROVE  StbiInv'
<1>1. image' \in stbi_image_t /\ pixel' \in Colors /\ gone' = {} /\ encoded' = encoded
    BY DEF Load, stbi_image_t
<1> QED
    BY <1>1 DEF StbiInv, StbiTypeOK, ImagesAreSound, EncodedFilesAreWhole,
       ReplacedColorsAreGone

(* The conversion of a pixel forgets nothing. *)
LEMMA ConversionIsInjective ==
    ASSUME NEW c \in Colors, NEW d \in Colors
    PROVE  abgr_to_rgba(c) \in Colors /\ (abgr_to_rgba(c) = abgr_to_rgba(d) => c = d)
<1>1. abgr_to_rgba(c) \in Colors
    BY ColorAssumption DEF abgr_to_rgba
<1>2. ASSUME abgr_to_rgba(c) = abgr_to_rgba(d) PROVE c = d
    <2>1. c[1] = d[1] /\ c[2] = d[2] /\ c[3] = d[3] /\ c[4] = d[4]
        BY <1>2 DEF abgr_to_rgba
    <2>2. \A i \in 1..4 : i = 1 \/ i = 2 \/ i = 3 \/ i = 4
        OBVIOUS
    <2>3. \A i \in 1..4 : c[i] = d[i]
        BY <2>1, <2>2
    <2>4. c \in [1..4 -> Nat] /\ d \in [1..4 -> Nat]
        BY ColorAssumption
    <2> QED
        BY <2>3, <2>4
<1> QED
    BY <1>1, <1>2

LEMMA AbgrStep == StbiInv /\ stbi_abgr_to_rgba => StbiInv'
<1> SUFFICES ASSUME StbiInv, stbi_abgr_to_rgba PROVE StbiInv'
    OBVIOUS
<1>1. pixel \in Colors /\ gone \subseteq Colors /\ pixel \notin gone
    BY DEF StbiInv, StbiTypeOK, ImagesAreSound, ReplacedColorsAreGone, stbi_abgr_to_rgba
<1>2. pixel' = abgr_to_rgba(pixel) /\ image' = image /\ encoded' = encoded
      /\ gone' = {abgr_to_rgba(c) : c \in gone}
    BY DEF stbi_abgr_to_rgba
<1>3. pixel' \in Colors /\ gone' \subseteq Colors /\ pixel' \notin gone'
    BY <1>1, <1>2, ConversionIsInjective
<1> QED
    BY <1>2, <1>3 DEF StbiInv, StbiTypeOK, ImagesAreSound, EncodedFilesAreWhole,
       ReplacedColorsAreGone

LEMMA ReplaceStep ==
    ASSUME StbiInv, NEW source \in Colors, NEW replacement \in Colors,
           stbi_replace_pixel_color_rgba(source, replacement)
    PROVE  StbiInv'
<1>1. pixel \in Colors /\ gone \subseteq Colors /\ pixel \notin gone
    BY DEF StbiInv, StbiTypeOK, ImagesAreSound, ReplacedColorsAreGone,
       stbi_replace_pixel_color_rgba
<1>2. /\ pixel' = IF pixel = source THEN replacement ELSE pixel
      /\ gone' = IF source = replacement THEN gone
                 ELSE (gone \cup {source}) \ {replacement}
      /\ image' = image /\ encoded' = encoded
    BY DEF stbi_replace_pixel_color_rgba
<1>3. pixel' \in Colors /\ gone' \subseteq Colors /\ pixel' \notin gone'
    BY <1>1, <1>2
<1> QED
    BY <1>2, <1>3 DEF StbiInv, StbiTypeOK, ImagesAreSound, EncodedFilesAreWhole,
       ReplacedColorsAreGone

(* Steps that leave the pixel and the file alone and no data to look at. *)
LEMMA ImageStep ==
    ASSUME StbiInv, image' \in stbi_image_t, image'.data # "live",
           pixel' = pixel, gone' = gone, encoded' = encoded
    PROVE  StbiInv'
BY DEF StbiInv, StbiTypeOK, ImagesAreSound, EncodedFilesAreWhole, ReplacedColorsAreGone

LEMMA StbiInitHolds == StbiInit => StbiInv
<1> SUFFICES ASSUME StbiInit PROVE StbiInv
    OBVIOUS
<1>1. image \in stbi_image_t /\ image.data = "null"
    BY DEF StbiInit, stbi_image_t
<1>2. (CHOOSE c \in Colors : TRUE) \in Colors
    BY ColorAssumption
<1>3. pixel \in Colors /\ gone = {}
    BY <1>2 DEF StbiInit
<1>4. encoded = [kept |-> <<>>, of |-> 0, num_bytes_used |-> 0, size |-> 0, required |-> 0,
                 capacity |-> 0, quality |-> 0]
    BY DEF StbiInit
<1>5. <<>> = [i \in 1..0 |-> i] /\ 0 \in 0..MaxChunks /\ <<>> \in Seq(1..MaxChunks)
    BY EncoderAssumption
<1>6. encoded.kept = [i \in 1..encoded.of |-> i]
    BY <1>4, <1>5
<1> QED
    BY <1>1, <1>3, <1>4, <1>5, <1>6 DEF StbiInv, StbiTypeOK, ImagesAreSound,
       EncodedFilesAreWhole, ReplacedColorsAreGone

LEMMA StbiStepHolds == StbiInv /\ [StbiNext]_imageVars => StbiInv'
<1> SUFFICES ASSUME StbiInv, [StbiNext]_imageVars PROVE StbiInv'
    OBVIOUS
<1>0. image \in stbi_image_t
    BY DEF StbiInv, StbiTypeOK
<1>1. ASSUME NEW n \in 1..4,
             \/ stbi_load_image(n) \/ stbi_load_rgb(n) \/ stbi_load_rgba(n)
             \/ stbi_load_monochrome(n) \/ stbi_load_monochrome_with_alpha(n)
      PROVE  StbiInv'
    <2>1. \E c \in 0..4 : Load(n, c)
        BY <1>1 DEF stbi_load_image, stbi_load_rgb, stbi_load_rgba, stbi_load_monochrome,
           stbi_load_monochrome_with_alpha
    <2> QED
        BY <2>1, LoadImageStep
<1>2. ASSUME NEW n \in 1..4, stbi_image_info(n) PROVE StbiInv'
    <2>1. image' \in stbi_image_t /\ image'.data # "live"
        BY <1>0, <1>2 DEF stbi_image_info, stbi_image_t
    <2> QED
        BY <1>2, <2>1, ImageStep DEF stbi_image_info
<1>3. CASE LoadFails
    <2>1. image' \in stbi_image_t /\ image'.data # "live"
        BY <1>0, <1>3 DEF LoadFails, stbi_image_t
    <2> QED
        BY <1>3, <2>1, ImageStep DEF LoadFails
<1>4. CASE stbi_image_free
    <2>1. image' \in stbi_image_t /\ image'.data # "live"
        BY <1>0, <1>4 DEF stbi_image_free, stbi_image_t
    <2> QED
        BY <1>4, <2>1, ImageStep DEF stbi_image_free
<1>5. CASE UNCHANGED imageVars
    BY <1>5 DEF imageVars, StbiInv, StbiTypeOK, ImagesAreSound, EncodedFilesAreWhole,
       ReplacedColorsAreGone
<1> QED
    BY <1>1, <1>2, <1>3, <1>4, <1>5, EncodeStep, EncodeJpgStep, AbgrStep, ReplaceStep
       DEF StbiNext

(* Whatever an encoder produces, into a buffer of whatever size: a file with a gap
   is shorter than what the encoder produced, one whose bytes all fit is whole,
   none overruns its buffer, and the size that is asked for is the one that is
   needed unless a JPG of a negative quality is wanted.  And no colour that was
   replaced is there again before another is replaced by it, whatever the script
   does with the pixels. *)
THEOREM ImagesAreAlwaysSound == StbiSpec => [](StbiTypeOK /\ ImagesAreSound)
<1>1. StbiInv => StbiTypeOK /\ ImagesAreSound
    BY DEF StbiInv
<1> QED
    BY <1>1, StbiInitHolds, StbiStepHolds, PTL DEF StbiSpec

-----------------------------------------------------------------------------
(* JSON: the calls of encodeTable that are in progress, against the depth of the
   tables and the text of the root.  First, concatenating the members of a sequence. *)

(* f is the concatenation of the members before every index. *)
Flattens(f, seqs) ==
    /\ f[0] = <<>>
    /\ \A k \in 1..Len(seqs) : f[k] = f[k - 1] \o seqs[k]

LEMMA FlattenPrefixes ==
    ASSUME NEW X, NEW seqs \in Seq(Seq(X))
    PROVE  \E f \in [0..Len(seqs) -> Seq(X)] :
              Flattens(f, seqs) /\ FlattenSeq(seqs) = f[Len(seqs)]
<1> DEFINE n == Len(seqs)
<1>0. n \in Nat /\ \A k \in 1..n : seqs[k] \in Seq(X)
    OBVIOUS
<1>1. CASE n = 0
    <2> DEFINE f == [k \in 0..n |-> <<>>]
    <2>1. FlattenSeq(seqs) = <<>>
        BY <1>1 DEF FlattenSeq
    <2>2. f \in [0..n -> Seq(X)] /\ Flattens(f, seqs) /\ f[n] = <<>>
        BY <1>1 DEF Flattens
    <2> HIDE DEF f
    <2> QED
        BY <2>1, <2>2
<1>2. CASE n # 0
    <2> DEFINE Is(g) == g = [i \in 1..n |-> IF i = 1 THEN seqs[i] ELSE g[i - 1] \o seqs[i]]
               flat == CHOOSE g : Is(g)
               step == [x \in (1..n) \X Seq(X) |-> x[2] \o seqs[x[1]]]
               f == [k \in 0..n |-> IF k = 0 THEN <<>> ELSE flat[k]]
    <2>1. FlattenSeq(seqs) = flat[n]
        BY <1>2, Zenon DEF FlattenSeq
    <2>2. step \in [(1..n) \X Seq(X) -> Seq(X)] /\ <<>> \in Seq(X)
        BY <1>0, ConcatProperties
    <2>3. PICK h \in [0..n -> Seq(X)] : Recurs(h, n, <<>>, step)
        <3> HIDE DEF n, step
        <3> QED
            BY <1>0, <2>2, RecursionExists
    <2>4. \A k \in 1..n : h[k] = h[k - 1] \o seqs[k]
        <3> TAKE k \in 1..n
        <3>1. k \in 0..n /\ k # 0 /\ k - 1 \in 0..n
            BY <1>0
        <3>2. h[k] = step[<<k, h[k - 1]>>] /\ h[k - 1] \in Seq(X)
            BY <2>3, <3>1 DEF Recurs
        <3> QED
            BY <3>2
    <2>5. Is([i \in 1..n |-> h[i]])
        <3>0. 0 \in 0..n /\ 1 \in 1..n /\ 1 - 1 = 0
            BY <1>0, <1>2
        <3>1. h[0] = <<>>
            BY <2>3, <3>0 DEF Recurs
        <3>a. h[1] = <<>> \o seqs[1] /\ seqs[1] \in Seq(X)
            BY <1>0, <2>4, <3>0, <3>1
        <3>2. h[1] = seqs[1]
            BY <3>a, ConcatEmptySeq, Zenon
        <3>3. \A i \in 1..n : i # 1 => i - 1 \in 1..n
            BY <1>0
        <3> HIDE DEF n
        <3> QED
            BY <2>4, <3>2, <3>3
    <2>6. Is(flat)
        <3> HIDE DEF Is
        <3> QED
            BY <2>5, Zenon
    <2> HIDE DEF flat
    <2>7. f[0] = <<>>
        BY <1>0
    <2>8. ASSUME NEW k \in 1..n, f[k - 1] \in Seq(X)
          PROVE  f[k] = f[k - 1] \o seqs[k] /\ f[k] \in Seq(X)
        <3>1. k \in 0..n /\ k - 1 \in 0..n /\ k # 0 /\ seqs[k] \in Seq(X)
            BY <1>0
        <3>2. CASE k = 1
            <4>1. flat[k] = seqs[k]
                BY <2>6, <3>2
            <4> QED
                BY <2>7, <3>1, <3>2, <4>1, ConcatEmptySeq
        <3>3. CASE k # 1
            <4>1. flat[k] = flat[k - 1] \o seqs[k]
                BY <2>6, <3>3
            <4>a. k - 1 # 0
                BY <3>3
            <4>b. f[k] = flat[k] /\ f[k - 1] = flat[k - 1]
                BY <3>1, <4>a
            <4>2. f[k] = f[k - 1] \o seqs[k]
                BY <4>1, <4>b, Zenon
            <4> HIDE DEF f
            <4> QED
                BY <2>8, <3>1, <4>2, ConcatProperties
        <3> QED
            BY <3>2, <3>3
    <2>9. \A k \in 0..n : f[k] \in Seq(X)
        <3> DEFINE S == {k \in 0..n : f[k] \in Seq(X)}
        <3> HIDE DEF f
        <3>0. 0 \in 0..n /\ <<>> \in Seq(X)
            BY <1>0
        <3>1. 0 \in S
            BY <2>7, <3>0
        <3>2. ASSUME NEW k \in 0..(n - 1), k \in S PROVE k + 1 \in S
            <4>1. k + 1 \in 1..n /\ (k + 1) - 1 = k /\ k + 1 \in 0..n
                BY <1>0
            <4> QED
                BY <2>8, <3>2, <4>1
        <3> HIDE DEF S, n
        <3>3. \A k \in 0..n : k \in S
            BY <1>0, <3>1, <3>2, BoundedInduction
        <3> QED
            BY <3>3 DEF S
    <2>10. f[n] = flat[n] /\ n \in 0..n
        BY <1>0, <1>2
    <2>11. f \in [0..n -> Seq(X)]
        BY <2>9
    <2> HIDE DEF f
    <2>12. Flattens(f, seqs)
        <3>1. \A k \in 1..n : k - 1 \in 0..n
            BY <1>0
        <3> QED
            BY <2>7, <2>8, <2>9, <3>1 DEF Flattens
    <2> QED
        BY <2>1, <2>10, <2>11, <2>12
<1> QED
    BY <1>1, <1>2

LEMMA FlattenEmpty == FlattenSeq(<<>>) = <<>>
BY DEF FlattenSeq

LEMMA FlattenType ==
    ASSUME NEW X, NEW seqs \in Seq(Seq(X))
    PROVE  FlattenSeq(seqs) \in Seq(X)
<1>1. PICK f \in [0..Len(seqs) -> Seq(X)] :
          Flattens(f, seqs) /\ FlattenSeq(seqs) = f[Len(seqs)]
    BY FlattenPrefixes
<1>2. Len(seqs) \in 0..Len(seqs)
    OBVIOUS
<1> QED
    BY <1>1, <1>2

(* Two ways to concatenate members: from the first, and after the first. *)
BothFlatten(f, g, seqs, n, X) ==
    /\ \A k \in 1..(n + 1) : seqs[k] \in Seq(X)
    /\ f[0] = <<>> /\ \A k \in 0..n : f[k + 1] = f[k] \o seqs[k + 1]
    /\ g[0] = <<>> /\ \A k \in 0..(n - 1) : g[k + 1] = g[k] \o seqs[k + 2]
    /\ \A k \in 0..n : g[k] \in Seq(X)

LEMMA FlattenAfterFirst ==
    \A X : \A n \in Nat : \A f, g, seqs :
       BothFlatten(f, g, seqs, n, X) => f[n + 1] = seqs[1] \o g[n]
<1> SUFFICES ASSUME NEW X, NEW n \in Nat, NEW f, NEW g, NEW seqs, BothFlatten(f, g, seqs, n, X)
             PROVE  f[n + 1] = seqs[1] \o g[n]
    OBVIOUS
<1> DEFINE S == {k \in 0..n : f[k + 1] = seqs[1] \o g[k]}
<1>1. 0 \in S
    <2>1. 0 \in 0..n /\ 1 \in 1..(n + 1) /\ 0 + 1 = 1
        OBVIOUS
    <2>2. f[1] = <<>> \o seqs[1] /\ seqs[1] \in Seq(X) /\ g[0] = <<>>
        BY <2>1, Zenon DEF BothFlatten
    <2>3. f[1] = seqs[1] \o g[0]
        BY <2>2, ConcatEmptySeq, Zenon
    <2> QED
        BY <2>1, <2>3
<1>2. ASSUME NEW k \in 0..(n - 1), k \in S PROVE k + 1 \in S
    <2>1. k + 1 \in 0..n /\ k \in 0..n /\ (k + 1) + 1 = k + 2 /\ k + 2 \in 1..(n + 1)
          /\ 1 \in 1..(n + 1)
        OBVIOUS
    <2>2. f[k + 2] = f[k + 1] \o seqs[k + 2]
        BY <2>1, Zenon DEF BothFlatten
    <2>3. seqs[1] \in Seq(X) /\ g[k] \in Seq(X) /\ seqs[k + 2] \in Seq(X)
        BY <2>1, Zenon DEF BothFlatten
    <2>4. f[k + 1] = seqs[1] \o g[k] /\ g[k + 1] = g[k] \o seqs[k + 2]
        BY <1>2, Zenon DEF BothFlatten
    <2>5. f[k + 2] = seqs[1] \o g[k + 1]
        <3>1. Associative(X)
            BY ConcatIsAssociative, Zenon
        <3>2. (seqs[1] \o g[k]) \o seqs[k + 2] = seqs[1] \o (g[k] \o seqs[k + 2])
            BY <2>3, <3>1, Zenon DEF Associative
        <3> QED
            BY <2>2, <2>4, <3>2, Zenon
    <2> QED
        BY <2>1, <2>5
<1> HIDE DEF S
<1>3. \A k \in 0..n : k \in S
    BY <1>1, <1>2, BoundedInduction
<1>4. n \in 0..n
    OBVIOUS
<1> QED
    BY <1>3, <1>4, Zenon DEF S

(* The first member comes first. *)
LEMMA FlattenFirst ==
    ASSUME NEW X, NEW seqs \in Seq(Seq(X)), seqs # <<>>
    PROVE  FlattenSeq(seqs) = Head(seqs) \o FlattenSeq(Tail(seqs))
<1> DEFINE n == Len(Tail(seqs))
<1>0. /\ Head(seqs) = seqs[1] /\ Tail(seqs) \in Seq(Seq(X)) /\ n \in Nat /\ Len(seqs) = n + 1
      /\ \A i \in 1..n : Tail(seqs)[i] = seqs[i + 1]
    OBVIOUS
<1>1. PICK f \in [0..Len(seqs) -> Seq(X)] :
          Flattens(f, seqs) /\ FlattenSeq(seqs) = f[Len(seqs)]
    BY FlattenPrefixes
<1>2. PICK g \in [0..n -> Seq(X)] :
          Flattens(g, Tail(seqs)) /\ FlattenSeq(Tail(seqs)) = g[n]
    BY <1>0, FlattenPrefixes
<1>3. f[0] = <<>> /\ g[0] = <<>>
    BY <1>1, <1>2 DEF Flattens
<1>4. ASSUME NEW k \in 0..n PROVE f[k + 1] = f[k] \o seqs[k + 1]
    <2>1. k + 1 \in 1..Len(seqs) /\ (k + 1) - 1 = k
        BY <1>0
    <2> QED
        BY <1>1, <2>1, Zenon DEF Flattens
<1>5. ASSUME NEW k \in 0..(n - 1) PROVE g[k + 1] = g[k] \o seqs[k + 2]
    <2>1. k + 1 \in 1..n /\ (k + 1) - 1 = k /\ (k + 1) + 1 = k + 2
        BY <1>0
    <2>2. g[k + 1] = g[k] \o Tail(seqs)[k + 1]
        BY <1>2, <2>1, Zenon DEF Flattens
    <2>3. Tail(seqs)[k + 1] = seqs[k + 2]
        BY <1>0, <2>1
    <2> QED
        BY <2>2, <2>3, Zenon
<1>6. \A k \in 0..n : g[k] \in Seq(X)
    BY <1>2, Zenon
<1>8. \A k \in 1..(n + 1) : seqs[k] \in Seq(X)
    BY <1>0
<1> HIDE DEF n
<1>7. f[n + 1] = seqs[1] \o g[n]
    <2>1. BothFlatten(f, g, seqs, n, X)
        BY <1>3, <1>4, <1>5, <1>6, <1>8, Zenon DEF BothFlatten
    <2>2. n \in Nat
        BY <1>0
    <2>3. \A h, k, s : BothFlatten(h, k, s, n, X) => h[n + 1] = s[1] \o k[n]
        BY <2>2, FlattenAfterFirst, Zenon
    <2> QED
        BY <2>1, <2>3, Zenon
<1> QED
    BY <1>0, <1>1, <1>2, <1>7, Zenon

-----------------------------------------------------------------------------
(* The orders of keys. *)

LEMMA KeysAreFinite == IsFiniteSet(Keys)
<1> DEFINE n == Len(StringKeys)
<1>1. StringKeys \in Seq(Keys) /\ n \in Nat /\ DOMAIN StringKeys = 1..n
    BY KeysAssumption
<1>2. StringKeys \in [1..n -> Keys]
    BY <1>1
<1>3. \A k \in Keys : \E i \in 1..n : StringKeys[i] = k
    BY <1>1 DEF Keys, Range
<1>4. StringKeys \in Surjection(1..n, Keys)
    BY <1>2, <1>3 DEF Surjection
<1>5. IsFiniteSet(1..n)
    BY <1>1, FS_Interval
<1> QED
    BY <1>4, <1>5, FS_Surjection

(* order lists the members of S, each once. *)
Enumerates(order, S) ==
    /\ order \in Seq(S) /\ Len(order) \in Nat
    /\ \A i, j \in 1..Len(order) : order[i] = order[j] => i = j
    /\ \A x \in S : \E i \in 1..Len(order) : order[i] = x

LEMMA SetToSeqsEnumerates ==
    ASSUME NEW S, IsFiniteSet(S), NEW order \in SetToSeqs(S)
    PROVE  Enumerates(order, S)
<1> DEFINE n == Cardinality(S)
<1>1. n \in Nat
    BY FS_CardinalityType
<1>2. order \in [1..n -> S] /\ \A i, j \in 1..n : i # j => order[i] # order[j]
    BY DEF SetToSeqs
<1>3. order \in Injection(1..n, S)
    BY <1>2 DEF Injection, IsInjective
<1>4. IsFiniteSet(1..n) /\ Cardinality(1..n) = n
    BY <1>1, FS_Interval
<1>5. order \in Surjection(1..n, S)
    BY <1>3, <1>4, FS_Injection
<1>6. \A x \in S : \E i \in 1..n : order[i] = x
    BY <1>5 DEF Surjection
<1>7. order \in Seq(S) /\ Len(order) = n
    BY <1>1, <1>2
<1> HIDE DEF n
<1> QED
    BY <1>1, <1>2, <1>6, <1>7, Zenon DEF Enumerates

(* The first q keys of the order are those among the first p string keys. *)
Covers(p, q, order) ==
    \A j \in 1..Len(order) : (j <= q) <=> (\E i \in 1..p : StringKeys[i] = order[j])

LEMMA NextKey ==
    ASSUME NEW D, NEW order, Enumerates(order, D \cap Keys), Sorted(order),
           NEW p \in 0..(Len(StringKeys) - 1), NEW q \in 0..Len(order), Covers(p, q, order)
    PROVE  /\ StringKeys[p + 1] \notin D => Covers(p + 1, q, order)
           /\ StringKeys[p + 1] \in D =>
                /\ q + 1 \in 1..Len(order) /\ order[q + 1] = StringKeys[p + 1]
                /\ Covers(p + 1, q + 1, order)
<1> DEFINE n == Len(StringKeys)
           m == Len(order)
           key == StringKeys[p + 1]
<1>1. /\ n \in Nat /\ DOMAIN StringKeys = 1..n /\ p + 1 \in 1..n
      /\ \A i, j \in 1..n : StringKeys[i] = StringKeys[j] => i = j
      /\ \A i \in 1..n : StringKeys[i] \in Keys
    BY KeysAssumption DEF IsInjective
<1>2. /\ m \in Nat /\ DOMAIN order = 1..m /\ \A j \in 1..m : order[j] \in D \cap Keys
      /\ \A i, j \in 1..m : order[i] = order[j] => i = j
      /\ \A x \in D \cap Keys : \E i \in 1..m : order[i] = x
    BY DEF Enumerates
<1>3. \A i, j \in 1..m : i < j =>
         \E a, b \in 1..n : a < b /\ StringKeys[a] = order[i] /\ StringKeys[b] = order[j]
    <2>1. \A i, j \in DOMAIN order : i < j =>
             \E a, b \in DOMAIN StringKeys :
                a < b /\ StringKeys[a] = order[i] /\ StringKeys[b] = order[j]
        BY Zenon DEF Sorted
    <2> QED
        BY <1>1, <1>2, <2>1
<1>4. \A i \in 1..(p + 1) : i \in 1..p \/ i = p + 1
    OBVIOUS
<1>5. p \in Nat /\ q \in Nat /\ p + 1 \in 1..(p + 1) /\ (\A i \in 1..p : i \in 1..(p + 1) /\ i \in 1..n)
      /\ p + 1 \notin 1..p
    BY <1>1, <1>2
<1> HIDE DEF n, m, key
<1>6. Covers(p, q, order) <=>
         \A j \in 1..m : (j <= q) <=> (\E i \in 1..p : StringKeys[i] = order[j])
    BY Zenon DEF Covers, m
<1>7. ASSUME key \notin D PROVE Covers(p + 1, q, order)
    <2>1. \A j \in 1..m : order[j] # key
        BY <1>2, <1>7, Zenon
    <2>2. ASSUME NEW j \in 1..m
          PROVE  (j <= q) <=> (\E i \in 1..(p + 1) : StringKeys[i] = order[j])
        BY <1>4, <1>5, <1>6, <2>1, Zenon DEF key
    <2> QED
        BY <2>2, Zenon DEF Covers, m
<1>8. ASSUME key \in D
      PROVE  q + 1 \in 1..m /\ order[q + 1] = key /\ Covers(p + 1, q + 1, order)
    <2>1. PICK j0 \in 1..m : order[j0] = key
        BY <1>1, <1>2, <1>8, Zenon DEF key
    <2>2. j0 > q
        <3>1. ~(j0 <= q)
            <4> SUFFICES ASSUME j0 <= q PROVE FALSE
                OBVIOUS
            <4>1. PICK i \in 1..p : StringKeys[i] = order[j0]
                BY <1>6, Zenon
            <4>2. i = p + 1
                BY <1>1, <1>5, <2>1, <4>1, Zenon DEF key
            <4> QED
                BY <1>5, <4>1, <4>2, Zenon
        <3> QED
            BY <1>2, <1>5, <2>1, <3>1
    <2>3. ~(j0 > q + 1)
        <3> SUFFICES ASSUME j0 > q + 1 PROVE FALSE
            OBVIOUS
        <3>1. q + 1 \in 1..m /\ q + 1 < j0 /\ ~(q + 1 <= q)
            BY <1>2, <1>5, <2>1
        <3>2. PICK a \in 1..n, b \in 1..n :
                 a < b /\ StringKeys[a] = order[q + 1] /\ StringKeys[b] = order[j0]
            BY <1>3, <2>1, <3>1, Zenon
        <3>3. b = p + 1
            BY <1>1, <2>1, <3>2, Zenon DEF key
        <3>4. a \in 1..p
            BY <1>1, <1>5, <3>2, <3>3
        <3> QED
            BY <1>6, <3>1, <3>2, <3>4, Zenon
    <2>4. j0 = q + 1
        BY <1>2, <1>5, <2>1, <2>2, <2>3
    <2>5. ASSUME NEW j \in 1..m
          PROVE  (j <= q + 1) <=> (\E i \in 1..(p + 1) : StringKeys[i] = order[j])
        <3>1. (j <= q + 1) <=> (j <= q \/ j = q + 1)
            BY <1>2, <1>5
        <3>2. (order[j] = key) <=> (j = q + 1)
            BY <1>2, <2>1, <2>4, Zenon
        <3>3. (\E i \in 1..(p + 1) : StringKeys[i] = order[j])
              <=> ((\E i \in 1..p : StringKeys[i] = order[j]) \/ order[j] = key)
            BY <1>4, <1>5, Zenon DEF key
        <3> QED
            BY <1>6, <3>1, <3>2, <3>3, Zenon
    <2> QED
        BY <2>1, <2>4, <2>5, Zenon DEF Covers, m
<1> QED
    BY <1>7, <1>8, Zenon DEF key, m

(* f concatenates the items of the string keys that are in D, h those of the keys in
   the order. *)
ItemPrefixes(f, h, order, D, item, X) ==
    /\ Enumerates(order, D \cap Keys) /\ Sorted(order)
    /\ f[0] = <<>> /\ h[0] = <<>>
    /\ \A p \in 0..(Len(StringKeys) - 1) :
         f[p + 1] = f[p] \o IF StringKeys[p + 1] \in D THEN item[StringKeys[p + 1]] ELSE <<>>
    /\ \A p \in 0..Len(StringKeys) : f[p] \in Seq(X)
    /\ \A j \in 0..(Len(order) - 1) : h[j + 1] = h[j] \o item[order[j + 1]]

LEMMA PrefixesMeet ==
    \A D, order, X, item, f, h :
       ItemPrefixes(f, h, order, D, item, X) => f[Len(StringKeys)] = h[Len(order)]
<1> TAKE D, order, X, item, f, h
<1> HAVE ItemPrefixes(f, h, order, D, item, X)
<1>a. Enumerates(order, D \cap Keys) /\ Sorted(order)
    BY Zenon DEF ItemPrefixes
<1> DEFINE n == Len(StringKeys)
           m == Len(order)
           S == {p \in 0..n : \E q \in 0..m : f[p] = h[q] /\ Covers(p, q, order)}
<1>0. n \in Nat /\ m \in Nat
    BY <1>a, KeysAssumption DEF Enumerates
<1>1. 0 \in S
    <2>1. 0 \in 0..n /\ 0 \in 0..m
        BY <1>0
    <2>2. Covers(0, 0, order)
        BY <1>0 DEF Covers
    <2>3. f[0] = h[0]
        BY Zenon DEF ItemPrefixes
    <2> QED
        BY <2>1, <2>2, <2>3, Zenon
<1>2. ASSUME NEW p \in 0..(n - 1), p \in S PROVE p + 1 \in S
    <2>1. PICK q \in 0..m : f[p] = h[q] /\ Covers(p, q, order)
        BY <1>2, Zenon
    <2>2. p + 1 \in 0..n /\ p \in 0..n
        BY <1>0
    <2>3. f[p + 1] = f[p] \o IF StringKeys[p + 1] \in D THEN item[StringKeys[p + 1]] ELSE <<>>
        BY Zenon DEF ItemPrefixes
    <2>4. CASE StringKeys[p + 1] \notin D
        <3>1. f[p] \in Seq(X)
            BY <2>2, Zenon DEF ItemPrefixes
        <3>2. f[p] \o <<>> = f[p]
            BY <3>1, ConcatEmptySeq
        <3>3. f[p + 1] = h[q]
            BY <2>1, <2>3, <2>4, <3>2, Zenon
        <3>4. Covers(p + 1, q, order)
            BY <1>a, <2>1, <2>4, NextKey
        <3> QED
            BY <2>2, <3>3, <3>4, Zenon
    <2>5. CASE StringKeys[p + 1] \in D
        <3>1. q + 1 \in 1..m /\ order[q + 1] = StringKeys[p + 1] /\ Covers(p + 1, q + 1, order)
            BY <1>a, <2>1, <2>5, NextKey
        <3>2. q \in 0..(m - 1) /\ q + 1 \in 0..m
            BY <1>0, <3>1
        <3>3. h[q + 1] = h[q] \o item[order[q + 1]]
            BY <3>2, Zenon DEF ItemPrefixes
        <3>4. f[p + 1] = h[q + 1]
            BY <2>1, <2>3, <2>5, <3>1, <3>3, Zenon
        <3> QED
            BY <2>2, <3>1, <3>2, <3>4, Zenon
    <2> QED
        BY <2>4, <2>5
<1>3. n \in S
    <2> HIDE DEF S, n
    <2>1. \A p \in 0..n : p \in S
        BY <1>0, <1>1, <1>2, BoundedInduction
    <2> QED
        BY <1>0, <2>1
<1>4. PICK q \in 0..m : f[n] = h[q] /\ Covers(n, q, order)
    BY <1>3, Zenon
<1>5. q = m
    <2>1. CASE m = 0
        BY <2>1, <1>4
    <2>2. CASE m # 0
        <3>1. m \in 1..m
            BY <1>0, <2>2
        <3>2. order[m] \in Keys
            BY <1>a, <3>1 DEF Enumerates
        <3>3. \E i \in 1..n : StringKeys[i] = order[m]
            BY <3>2, KeysAssumption DEF Keys, Range
        <3>4. m <= q
            BY <1>4, <3>1, <3>3, Zenon DEF Covers
        <3> QED
            BY <1>0, <3>4
    <2> QED
        BY <2>1, <2>2
<1> QED
    BY <1>4, <1>5, Zenon

(* What is in the tables. *)
JsonValues == Scalars \cup Tables

LEMMA EmptyTable == <<>> \in Contents
<1>1. <<>> \in [{} -> Scalars \cup Tables] /\ {} \in SUBSET Keys
    OBVIOUS
<1> QED
    BY <1>1, Zenon DEF Contents

LEMMA ContentsValues ==
    ASSUME NEW c \in Contents
    PROVE  /\ DOMAIN c \subseteq {1, 2} \cup Keys /\ IsFiniteSet(DOMAIN c)
           /\ \A k \in DOMAIN c : c[k] \in JsonValues
<1> DEFINE Goal == DOMAIN c \subseteq {1, 2} \cup Keys /\ \A k \in DOMAIN c : c[k] \in JsonValues
<1>1. ASSUME c \in [1..2 -> {"primitive"} \cup Tables] PROVE Goal
    BY <1>1 DEF JsonValues, Scalars
<1>2. ASSUME c \in UNION {[keys -> Scalars \cup Tables] : keys \in SUBSET Keys} PROVE Goal
    BY <1>2 DEF JsonValues
<1>3. ASSUME c \in [{2} \cup Keys -> {"primitive", "object"}] PROVE Goal
    BY <1>3 DEF JsonValues, Scalars
<1>4. Goal
    <2> HIDE DEF Goal
    <2> QED
        BY <1>1, <1>2, <1>3 DEF Contents
<1>5. IsFiniteSet({1, 2})
    <2>1. {1, 2} = 1..2 /\ 1 \in Int /\ 2 \in Int
        OBVIOUS
    <2>2. IsFiniteSet(1..2)
        BY <2>1, FS_Interval
    <2> QED
        BY <2>1, <2>2, Zenon
<1>6. IsFiniteSet({1, 2} \cup Keys)
    BY <1>5, KeysAreFinite, FS_Union
<1> QED
    BY <1>4, <1>6, FS_Subset

HeapOK == heap \in [Tables -> Contents]

LEMMA TableValues ==
    ASSUME HeapOK, NEW t \in Tables
    PROVE  /\ DOMAIN heap[t] \subseteq {1, 2} \cup Keys /\ IsFiniteSet(DOMAIN heap[t])
           /\ \A k \in DOMAIN heap[t] : heap[t][k] \in JsonValues
BY ContentsValues DEF HeapOK

(* An array has the keys 1 .. n. *)
LEMMA ArrayKeys ==
    ASSUME HeapOK, NEW t \in Tables, NEW b \in BOOLEAN, isarray(t, b)
    PROVE  \E n \in Nat : DOMAIN heap[t] = 1..n
<1>1. CASE DOMAIN heap[t] = {}
    <2>1. 1..0 = {}
        OBVIOUS
    <2> QED
        BY <1>1, <2>1
<1>2. CASE DOMAIN heap[t] # {}
    <2>1. Cardinality(DOMAIN heap[t]) \in Nat
        BY TableValues, FS_CardinalityType
    <2> QED
        BY <1>2, <2>1 DEF isarray
<1> QED
    BY <1>1, <1>2

LEMMA KeysWritten ==
    ASSUME NEW t \in Tables, NEW b \in BOOLEAN
    PROVE  /\ isarray(t, b) => WrittenKeys(t) = DOMAIN heap[t]
           /\ ~isarray(t, b) => WrittenKeys(t) = DOMAIN heap[t] \cap Keys
           /\ WrittenKeys(t) \subseteq DOMAIN heap[t]
<1>1. CASE DOMAIN heap[t] = {}
    BY <1>1 DEF WrittenKeys
<1>2. CASE DOMAIN heap[t] # {}
    BY <1>2, Zenon DEF WrittenKeys, isarray
<1> QED
    BY <1>1, <1>2

LEMMA WrittenValues ==
    ASSUME HeapOK, NEW t \in Tables, NEW k \in WrittenKeys(t)
    PROVE  heap[t][k] \in JsonValues /\ k \in {1, 2} \cup Keys /\ k \in DOMAIN heap[t]
<1>1. k \in DOMAIN heap[t]
    BY KeysWritten
<1> QED
    BY <1>1, TableValues

(* The orders in which a table can be written. *)
Orders(t, options) ==
    IF isarray(t, options.empty_table_as_array) THEN {[i \in DOMAIN heap[t] |-> i]}
    ELSE KeyOrders(t, options.sort_keys)

LEMMA OrdersEnumerate ==
    ASSUME HeapOK, NEW t \in Tables, NEW options \in CustomizedEncoder,
           NEW rest \in Orders(t, options)
    PROVE  Enumerates(rest, WrittenKeys(t))
<1> DEFINE b == options.empty_table_as_array
<1>0. b \in BOOLEAN
    BY DEF CustomizedEncoder
<1>1. CASE isarray(t, b)
    <2>1. PICK n \in Nat : DOMAIN heap[t] = 1..n
        BY <1>0, <1>1, ArrayKeys
    <2>2. WrittenKeys(t) = 1..n /\ rest = [i \in 1..n |-> i]
        BY <1>0, <1>1, <2>1, KeysWritten DEF Orders
    <2> QED
        BY <2>2 DEF Enumerates
<1>2. CASE ~isarray(t, b)
    <2>1. WrittenKeys(t) = DOMAIN heap[t] \cap Keys
        BY <1>0, <1>2, KeysWritten
    <2>2. rest \in SetToSeqs(DOMAIN heap[t] \cap Keys)
        BY <1>2, Zenon DEF Orders, KeyOrders
    <2>3. IsFiniteSet(DOMAIN heap[t] \cap Keys)
        BY TableValues, FS_Intersection
    <2> QED
        BY <2>1, <2>2, <2>3, SetToSeqsEnumerates
<1> QED
    BY <1>1, <1>2

-----------------------------------------------------------------------------
(* The recursive functions of the model, level by level. *)

Inside(values) == UNION {{heap[t][k] : k \in WrittenKeys(t)} : t \in values \cap Tables}

LEMMA InsideType ==
    ASSUME HeapOK, NEW values
    PROVE  Inside(values) \in SUBSET JsonValues
<1> SUFFICES ASSUME NEW t \in values \cap Tables, NEW k \in WrittenKeys(t)
             PROVE  heap[t][k] \in JsonValues
    BY DEF Inside
<1> QED
    BY WrittenValues

LEMMA NestedLevels ==
    ASSUME HeapOK
    PROVE  /\ Nested[0] = {Root}
           /\ \A n \in 1..MAX_DEPTH : Nested[n] = Inside(Nested[n - 1])
<1> DEFINE N == MAX_DEPTH
           Is(g) == g = [n \in 0..N |->
                           IF n = 0 THEN {Root}
                           ELSE UNION {{heap[t][k] : k \in WrittenKeys(t)} : t \in g[n - 1] \cap Tables}]
           St == SUBSET JsonValues
           base == {Root}
           step == [x \in (1..N) \X St |-> Inside(x[2])]
<1>0. N \in Nat /\ base \in St
    BY DepthAssumption, TablesAssumption DEF JsonValues
<1>1. step \in [(1..N) \X St -> St]
    BY InsideType
<1>2. PICK f \in [0..N -> St] : Recurs(f, N, base, step)
    <2> HIDE DEF N, St, base, step
    <2> QED
        BY <1>0, <1>1, RecursionExists
<1>3. \A n \in 0..N : f[n] = IF n = 0 THEN {Root} ELSE Inside(f[n - 1])
    <2> TAKE n \in 0..N
    <2>1. f[n] = IF n = 0 THEN base ELSE step[<<n, f[n - 1]>>]
        BY <1>2, Zenon DEF Recurs
    <2>2. n # 0 => n - 1 \in 0..N /\ n \in 1..N
        BY <1>0
    <2> QED
        BY <1>2, <2>1, <2>2
<1>4. Is(f)
    BY <1>2, <1>3 DEF Inside
<1>5. Nested = CHOOSE g : Is(g)
    BY Zenon DEF Nested
<1>6. Is(Nested)
    <2> HIDE DEF Is
    <2> QED
        BY <1>4, <1>5, Zenon
<1>7. \A n \in 0..N : Nested[n] = IF n = 0 THEN {Root} ELSE Inside(Nested[n - 1])
    BY <1>6 DEF Inside
<1>8. 0 \in 0..N /\ \A n \in 1..N : n \in 0..N /\ n # 0
    BY <1>0
<1> HIDE DEF N
<1> QED
    BY <1>7, <1>8, Zenon DEF N

(* The tables of which at most n are nested in each other, from the outside in. *)
FitsStep ==
    [x \in (1..MAX_DEPTH) \X SUBSET Tables |->
       {t \in Tables : \A k \in WrittenKeys(t) : heap[t][k] \in Tables => heap[t][k] \in x[2]}]

Fits == CHOOSE f \in [0..MAX_DEPTH -> SUBSET Tables] : Recurs(f, MAX_DEPTH, {}, FitsStep)

LEMMA FitsLevels ==
    /\ Fits[0] = {}
    /\ \A n \in 1..MAX_DEPTH : \A t \in Tables :
         t \in Fits[n] <=>
            \A k \in WrittenKeys(t) : heap[t][k] \in Tables => heap[t][k] \in Fits[n - 1]
<1> DEFINE N == MAX_DEPTH
           St == SUBSET Tables
           base == {}
<1>0. N \in Nat /\ base \in St /\ FitsStep \in [(1..N) \X St -> St]
    BY DepthAssumption DEF FitsStep
<1>1. \E f \in [0..N -> St] : Recurs(f, N, {}, FitsStep)
    <2>1. \E f \in [0..N -> St] : Recurs(f, N, base, FitsStep)
        <3> HIDE DEF N, St, base
        <3> QED
            BY <1>0, RecursionExists
    <2> QED
        BY <2>1, Zenon
<1>2. Fits \in [0..N -> St] /\ Recurs(Fits, N, {}, FitsStep)
    BY <1>1, Zenon DEF Fits
<1>3. Fits[0] = {}
    <2>1. 0 \in 0..N
        BY <1>0
    <2> QED
        BY <1>2, <2>1, Zenon DEF Recurs
<1>4. ASSUME NEW n \in 1..N
      PROVE  Fits[n] = {t \in Tables : \A k \in WrittenKeys(t) :
                           heap[t][k] \in Tables => heap[t][k] \in Fits[n - 1]}
    <2>1. n \in 0..N /\ n # 0 /\ n - 1 \in 0..N
        BY <1>0
    <2>2. Fits[n] = FitsStep[<<n, Fits[n - 1]>>]
        BY <1>2, <2>1, Zenon DEF Recurs
    <2>3. <<n, Fits[n - 1]>> \in (1..MAX_DEPTH) \X SUBSET Tables
        BY <1>2, <2>1
    <2> QED
        BY <2>2, <2>3 DEF FitsStep
<1> QED
    BY <1>3, <1>4

(* If Root fits, the tables n levels below it fit in what is left. *)
LEMMA FittingNests ==
    ASSUME HeapOK, Root \in Fits[MAX_DEPTH]
    PROVE  Nested[MAX_DEPTH] \cap Tables = {}
<1> DEFINE N == MAX_DEPTH
           S == {n \in 0..N : \A t \in Nested[n] \cap Tables : t \in Fits[N - n]}
<1>0. N \in Nat /\ 0 \in 0..N /\ N - 0 = N /\ N - N = 0
    BY DepthAssumption
<1>1. 0 \in S
    BY <1>0, NestedLevels
<1>2. ASSUME NEW n \in 0..(N - 1), n \in S PROVE n + 1 \in S
    <2>1. n + 1 \in 0..N /\ n + 1 \in 1..N /\ (n + 1) - 1 = n
          /\ N - n \in 1..N /\ (N - n) - 1 = N - (n + 1)
        BY <1>0
    <2>2. ASSUME NEW v \in Nested[n + 1] \cap Tables PROVE v \in Fits[N - (n + 1)]
        <3>1. v \in Inside(Nested[n])
            BY <2>1, NestedLevels
        <3>2. PICK t \in Nested[n] \cap Tables : \E k \in WrittenKeys(t) : v = heap[t][k]
            BY <3>1, Zenon DEF Inside
        <3>3. t \in Fits[N - n]
            BY <1>2, <3>2, Zenon
        <3>4. \A j \in WrittenKeys(t) : heap[t][j] \in Tables => heap[t][j] \in Fits[(N - n) - 1]
            BY <2>1, <3>2, <3>3, FitsLevels, Zenon
        <3> QED
            BY <2>1, <3>2, <3>4, Zenon
    <2> QED
        BY <2>1, <2>2, Zenon
<1>3. N \in S
    <2> HIDE DEF S, N
    <2>1. \A n \in 0..N : n \in S
        BY <1>0, <1>1, <1>2, BoundedInduction
    <2> QED
        BY <1>0, <2>1
<1>4. \A t \in Nested[N] \cap Tables : t \in Fits[0]
    BY <1>0, <1>3
<1> QED
    BY <1>4, FitsLevels

-----------------------------------------------------------------------------
(* The texts. *)
JsonText == Seq(Tokens \cup JsonValues)

LEMMA Letters ==
    /\ <<>> \in JsonText
    /\ \A x \in Tokens \cup JsonValues : <<x>> \in JsonText
    /\ {"{", "}", "[", "]"} \subseteq Tokens
    /\ \A a, b \in JsonText : a \o b \in JsonText
    /\ \A a, b, c \in JsonText : (a \o b) \o c = a \o (b \o c)
    /\ \A a \in JsonText : a \o <<>> = a /\ <<>> \o a = a
<1>1. <<>> \in JsonText /\ (\A x \in Tokens \cup JsonValues : <<x>> \in JsonText)
    BY DEF JsonText
<1>2. {"{", "}", "[", "]"} \subseteq Tokens
    BY DEF Tokens
<1>3. \A a, b \in JsonText : a \o b \in JsonText
    BY ConcatProperties DEF JsonText
<1>4. \A a, b, c \in JsonText : (a \o b) \o c = a \o (b \o c)
    <2>1. Associative(Tokens \cup JsonValues)
        BY ConcatIsAssociative, Zenon
    <2> QED
        BY <2>1, Zenon DEF Associative, JsonText
<1>5. \A a \in JsonText : a \o <<>> = a /\ <<>> \o a = a
    BY ConcatEmptySeq DEF JsonText
<1> QED
    BY <1>1, <1>2, <1>3, <1>4, <1>5

(* What is written for the key k of the table t. *)
KeyText(array, t, k, h, texts) ==
    IF array THEN texts[h[t][k]] ELSE <<k>> \o texts[h[t][k]]

(* What is still to be written of a table before it ends. *)
RestText(F, h, texts) ==
    FlattenSeq([j \in 1..Len(F.rest) |-> KeyText(F.isarray, F.table, F.rest[j], h, texts)])

AllTexts == [JsonValues -> JsonText]

(* A call writes only keys that are to be written. *)
FrameOK(F) ==
    /\ F \in Frame
    /\ \A j \in 1..Len(F.rest) :
         F.rest[j] \in WrittenKeys(F.table) /\ (F.isarray \/ F.rest[j] \in Keys)

LEMMA KeyTextType ==
    ASSUME HeapOK, NEW texts \in AllTexts, NEW t \in Tables, NEW k \in WrittenKeys(t),
           NEW array \in BOOLEAN, array \/ k \in Keys
    PROVE  KeyText(array, t, k, heap, texts) \in JsonText
<1>1. texts[heap[t][k]] \in JsonText
    BY WrittenValues DEF AllTexts
<1>2. k \in Keys => <<k>> \in JsonText
    BY Letters DEF Tokens
<1> QED
    BY <1>1, <1>2, Letters, Zenon DEF KeyText

(* The texts of the keys that are left. *)
KeyTexts(F, h, texts) ==
    [j \in 1..Len(F.rest) |-> KeyText(F.isarray, F.table, F.rest[j], h, texts)]

LEMMA KeyTextsType ==
    ASSUME HeapOK, NEW texts \in AllTexts, NEW F, FrameOK(F)
    PROVE  /\ KeyTexts(F, heap, texts) \in Seq(JsonText) /\ Len(KeyTexts(F, heap, texts)) = Len(F.rest)
           /\ Len(F.rest) \in Nat /\ RestText(F, heap, texts) = FlattenSeq(KeyTexts(F, heap, texts))
           /\ RestText(F, heap, texts) \in JsonText
<1>1. F.table \in Tables /\ F.isarray \in BOOLEAN /\ Len(F.rest) \in Nat
    BY DEF FrameOK, Frame
<1>2. ASSUME NEW j \in 1..Len(F.rest)
      PROVE  KeyText(F.isarray, F.table, F.rest[j], heap, texts) \in JsonText
    <2>1. F.rest[j] \in WrittenKeys(F.table) /\ (F.isarray \/ F.rest[j] \in Keys)
        BY DEF FrameOK
    <2> QED
        BY <1>1, <2>1, KeyTextType
<1>3. KeyTexts(F, heap, texts) \in Seq(JsonText) /\ Len(KeyTexts(F, heap, texts)) = Len(F.rest)
    BY <1>1, <1>2 DEF KeyTexts
<1>4. RestText(F, heap, texts) = FlattenSeq(KeyTexts(F, heap, texts))
    BY Zenon DEF RestText, KeyTexts
<1>5. FlattenSeq(KeyTexts(F, heap, texts)) \in JsonText
    BY <1>3, FlattenType DEF JsonText
<1> QED
    BY <1>1, <1>3, <1>4, <1>5, Zenon

LEMMA TailOfSequence ==
    \A X : \A s \in Seq(X) : Len(s) \in Nat /\ 1 \in 1..Len(s) =>
       /\ s # <<>> /\ Head(s) = s[1] /\ Tail(s) = [j \in 1..(Len(s) - 1) |-> s[j + 1]]
       /\ s[1] \in X
<1> SUFFICES ASSUME NEW X, NEW s \in Seq(X), 1 \in 1..Len(s)
             PROVE  /\ s # <<>> /\ Head(s) = s[1] /\ Tail(s) = [j \in 1..(Len(s) - 1) |-> s[j + 1]]
                    /\ s[1] \in X
    OBVIOUS
<1>1. s # <<>> /\ s[1] \in X
    OBVIOUS
<1>2. Head(s) = s[1]
    BY <1>1
<1>3. Tail(s) = [j \in 1..(Len(s) - 1) |-> s[j + 1]]
    <2>1. Tail(s) \in Seq(X) /\ Len(Tail(s)) = Len(s) - 1
        BY <1>1, HeadTailProperties
    <2>2. \A j \in 1..(Len(s) - 1) : Tail(s)[j] = s[j + 1]
        BY <1>1, <2>1, HeadTailProperties
    <2>a. \A t \in Seq(X) : t = [j \in 1..Len(t) |-> t[j]]
        OBVIOUS
    <2>3. Tail(s) = [j \in 1..Len(Tail(s)) |-> Tail(s)[j]]
        BY <2>1, <2>a, Zenon
    <2> HIDE <1>1
    <2> QED
        BY <2>1, <2>2, <2>3, Zenon
<1> QED
    BY <1>1, <1>2, <1>3

(* What a call writes next. *)
LEMMA RestTextStep ==
    ASSUME HeapOK, NEW texts \in AllTexts, NEW F, FrameOK(F), F.rest # <<>>
    PROVE  LET G == [F EXCEPT !.rest = Tail(@)] IN
           /\ FrameOK(G) /\ Head(F.rest) \in WrittenKeys(F.table)
           /\ KeyText(F.isarray, F.table, Head(F.rest), heap, texts) \in JsonText
           /\ RestText(F, heap, texts)
                = KeyText(F.isarray, F.table, Head(F.rest), heap, texts) \o RestText(G, heap, texts)
<1> DEFINE G == [F EXCEPT !.rest = Tail(@)]
           n == Len(F.rest)
           seqs == KeyTexts(F, heap, texts)
<1>1. /\ F \in Frame /\ F.rest \in Seq({1, 2} \cup Keys) /\ n \in Nat /\ 1 \in 1..n
      /\ Head(F.rest) = F.rest[1]
    BY DEF FrameOK, Frame
<1>2. /\ Tail(F.rest) \in Seq({1, 2} \cup Keys) /\ Len(Tail(F.rest)) = n - 1 /\ n - 1 \in Nat
      /\ \A j \in 1..(n - 1) : Tail(F.rest)[j] = F.rest[j + 1] /\ j + 1 \in 1..n
    BY <1>1
<1>3. /\ G \in Frame /\ G.rest = Tail(F.rest) /\ G.table = F.table /\ G.isarray = F.isarray
    BY <1>1, <1>2 DEF Frame
<1>4. FrameOK(G)
    BY <1>2, <1>3 DEF FrameOK
<1>5. /\ seqs \in Seq(JsonText) /\ Len(seqs) = n /\ RestText(F, heap, texts) = FlattenSeq(seqs)
      /\ RestText(G, heap, texts) = FlattenSeq(KeyTexts(G, heap, texts))
    BY <1>4, KeyTextsType
<1>6. \A j \in 1..n : seqs[j] = KeyText(F.isarray, F.table, F.rest[j], heap, texts)
    BY DEF KeyTexts
<1>7. KeyTexts(G, heap, texts) = [j \in 1..(n - 1) |-> seqs[j + 1]]
    <2>1. KeyTexts(G, heap, texts)
            = [j \in 1..(n - 1) |-> KeyText(F.isarray, F.table, Tail(F.rest)[j], heap, texts)]
        <3>1. Len(G.rest) = n - 1
            BY <1>2, <1>3
        <3> HIDE DEF G
        <3> QED
            BY <1>3, <3>1 DEF KeyTexts
    <2>2. \A j \in 1..(n - 1) :
             KeyText(F.isarray, F.table, Tail(F.rest)[j], heap, texts) = seqs[j + 1]
        BY <1>2, <1>6
    <2> QED
        BY <2>1, <2>2, Zenon
<1> HIDE DEF n, seqs, G
<1>8. /\ seqs # <<>> /\ Head(seqs) = seqs[1] /\ Tail(seqs) = [j \in 1..(n - 1) |-> seqs[j + 1]]
      /\ seqs[1] \in JsonText
    BY <1>1, <1>5, TailOfSequence
<1>9. FlattenSeq(seqs) = Head(seqs) \o FlattenSeq(Tail(seqs))
    BY <1>5, <1>8, FlattenFirst DEF JsonText
<1>10. FlattenSeq(seqs) = seqs[1] \o RestText(G, heap, texts)
    BY <1>5, <1>7, <1>8, <1>9, Zenon
<1>11. seqs[1] = KeyText(F.isarray, F.table, Head(F.rest), heap, texts)
    BY <1>1, <1>6, Zenon
<1>12. Head(F.rest) \in WrittenKeys(F.table)
    BY <1>1 DEF FrameOK, n
<1> QED
    BY <1>4, <1>5, <1>8, <1>10, <1>11, <1>12, Zenon DEF G

-----------------------------------------------------------------------------
(* The text of a table is what a call writes that begins with all of its keys. *)

(* The members of an object in the order of strcmp. *)
Members(t, h, inner) ==
    [i \in 1..Len(StringKeys) |-> IF StringKeys[i] \in DOMAIN h[t]
                                    THEN <<StringKeys[i]>> \o inner[h[t][StringKeys[i]]]
                                    ELSE <<>>]

LEMMA MembersType ==
    ASSUME HeapOK, NEW inner \in AllTexts, NEW t \in Tables
    PROVE  Members(t, heap, inner) \in Seq(JsonText) /\ Len(Members(t, heap, inner)) = Len(StringKeys)
<1> DEFINE n == Len(StringKeys)
<1>1. n \in Nat /\ \A i \in 1..n : StringKeys[i] \in Keys
    BY KeysAssumption
<1>2. ASSUME NEW i \in 1..n
      PROVE  (IF StringKeys[i] \in DOMAIN heap[t]
                THEN <<StringKeys[i]>> \o inner[heap[t][StringKeys[i]]] ELSE <<>>) \in JsonText
    <2>1. StringKeys[i] \in DOMAIN heap[t] => inner[heap[t][StringKeys[i]]] \in JsonText
        BY TableValues DEF AllTexts
    <2>2. <<StringKeys[i]>> \in JsonText
        BY <1>1, Letters DEF Tokens
    <2> QED
        BY <2>1, <2>2, Letters, Zenon
<1> QED
    BY <1>1, <1>2 DEF Members

LEMMA TextOfTable ==
    ASSUME NEW t \in Tables, NEW inner
    PROVE  Text(t, inner) =
             IF isarray(t, encoder.empty_table_as_array)
             THEN <<"[">> \o FlattenSeq([i \in DOMAIN heap[t] |-> inner[heap[t][i]]]) \o <<"]">>
             ELSE <<"{">> \o FlattenSeq(Members(t, heap, inner)) \o <<"}">>
BY Zenon DEF Text, Members

LEMMA ArrayTexts ==
    ASSUME HeapOK, NEW inner \in AllTexts, NEW t \in Tables, NEW b \in BOOLEAN, isarray(t, b)
    PROVE  [i \in DOMAIN heap[t] |-> inner[heap[t][i]]] \in Seq(JsonText)
<1>1. PICK n \in Nat : DOMAIN heap[t] = 1..n
    BY ArrayKeys
<1>2. \A i \in 1..n : inner[heap[t][i]] \in JsonText
    BY <1>1, TableValues DEF AllTexts
<1> QED
    BY <1>1, <1>2

LEMMA TextType ==
    ASSUME HeapOK, encoder \in CustomizedEncoder, NEW inner \in AllTexts, NEW v \in JsonValues
    PROVE  Text(v, inner) \in JsonText
<1> DEFINE b == encoder.empty_table_as_array
<1>0. b \in BOOLEAN
    BY DEF CustomizedEncoder
<1>1. CASE v \notin Tables
    <2>1. <<v>> \in JsonText
        BY Letters
    <2> QED
        BY <1>1, <2>1, Zenon DEF Text
<1>2. CASE v \in Tables
    <2> DEFINE items == [i \in DOMAIN heap[v] |-> inner[heap[v][i]]]
    <2>1. /\ <<"[">> \in JsonText /\ <<"]">> \in JsonText
          /\ <<"{">> \in JsonText /\ <<"}">> \in JsonText
        BY Letters
    <2>2. isarray(v, b) => FlattenSeq(items) \in JsonText
        <3>1. isarray(v, b) => items \in Seq(JsonText)
            BY <1>0, <1>2, ArrayTexts
        <3> HIDE DEF items
        <3> QED
            BY <3>1, FlattenType DEF JsonText
    <2>3. FlattenSeq(Members(v, heap, inner)) \in JsonText
        BY <1>2, MembersType, FlattenType DEF JsonText
    <2>4. Text(v, inner) = IF isarray(v, b) THEN <<"[">> \o FlattenSeq(items) \o <<"]">>
                           ELSE <<"{">> \o FlattenSeq(Members(v, heap, inner)) \o <<"}">>
        BY <1>2, TextOfTable, Zenon
    <2> HIDE DEF items, b
    <2> QED
        <3>1. \A x, y, z \in JsonText : (x \o y) \o z \in JsonText
            BY Letters, Zenon
        <3>2. CASE isarray(v, b)
            <4>1. Text(v, inner) = (<<"[">> \o FlattenSeq(items)) \o <<"]">>
                BY <2>4, <3>2
            <4> QED
                <5> DEFINE o == <<"[">>
                           c == <<"]">>
                           text == FlattenSeq(items)
                <5>1. o \in JsonText /\ c \in JsonText /\ text \in JsonText
                    BY <2>1, <2>2, <3>2, Zenon
                <5>2. Text(v, inner) = (o \o text) \o c
                    BY <4>1, Zenon
                <5> HIDE DEF o, c, text
                <5>3. (o \o text) \o c \in JsonText
                    BY <3>1, <5>1, Zenon
                <5> QED
                    BY <5>2, <5>3, Zenon
        <3>3. CASE ~isarray(v, b)
            <4>1. Text(v, inner) = (<<"{">> \o FlattenSeq(Members(v, heap, inner))) \o <<"}">>
                BY <2>4, <3>3
            <4> QED
                <5> DEFINE o == <<"{">>
                           c == <<"}">>
                           text == FlattenSeq(Members(v, heap, inner))
                <5>1. o \in JsonText /\ c \in JsonText /\ text \in JsonText
                    BY <2>1, <2>3, Zenon
                <5>2. Text(v, inner) = (o \o text) \o c
                    BY <4>1, Zenon
                <5> HIDE DEF o, c, text
                <5>3. (o \o text) \o c \in JsonText
                    BY <3>1, <5>1, Zenon
                <5> QED
                    BY <5>2, <5>3, Zenon
        <3> QED
            BY <3>2, <3>3
<1> QED
    BY <1>1, <1>2

LEMMA TextLevels ==
    ASSUME HeapOK, encoder \in CustomizedEncoder
    PROVE  /\ \A n \in 0..MAX_DEPTH : Texts[n] \in AllTexts
           /\ \A v \in JsonValues : Texts[0][v] = <<v>>
           /\ \A n \in 1..MAX_DEPTH : \A v \in JsonValues : Texts[n][v] = Text(v, Texts[n - 1])
<1> DEFINE N == MAX_DEPTH
           Is(g) == g = [n \in 0..N |-> [v \in Scalars \cup Tables |->
                                           IF n = 0 THEN <<v>> ELSE Text(v, g[n - 1])]]
           base == [v \in JsonValues |-> <<v>>]
           step == [x \in (1..N) \X AllTexts |-> [v \in JsonValues |-> Text(v, x[2])]]
<1>0. N \in Nat /\ base \in AllTexts
    BY DepthAssumption, Letters DEF AllTexts
<1>1. step \in [(1..N) \X AllTexts -> AllTexts]
    <2>1. ASSUME NEW x \in (1..N) \X AllTexts PROVE [v \in JsonValues |-> Text(v, x[2])] \in AllTexts
        <3>1. x[2] \in AllTexts
            OBVIOUS
        <3>2. \A v \in JsonValues : Text(v, x[2]) \in JsonText
            BY <3>1, TextType
        <3> QED
            BY <3>2 DEF AllTexts
    <2> QED
        BY <2>1
<1>2. PICK f \in [0..N -> AllTexts] : Recurs(f, N, base, step)
    <2> HIDE DEF N, base, step
    <2> QED
        BY <1>0, <1>1, RecursionExists
<1>3. \A n \in 0..N : f[n] = IF n = 0 THEN base ELSE [v \in JsonValues |-> Text(v, f[n - 1])]
    <2> TAKE n \in 0..N
    <2>1. f[n] = IF n = 0 THEN base ELSE step[<<n, f[n - 1]>>]
        BY <1>2, Zenon DEF Recurs
    <2>2. n # 0 => n - 1 \in 0..N /\ n \in 1..N
        BY <1>0
    <2>3. n # 0 => <<n, f[n - 1]>> \in (1..N) \X AllTexts
        BY <1>2, <2>2
    <2> HIDE DEF base
    <2> QED
        BY <2>1, <2>3
<1>4. Is(f)
    <2>1. \A n \in 0..N : f[n] = [v \in Scalars \cup Tables |->
                                    IF n = 0 THEN <<v>> ELSE Text(v, f[n - 1])]
        <3> TAKE n \in 0..N
        <3>1. CASE n = 0
            BY <1>3, <3>1 DEF JsonValues
        <3>2. CASE n # 0
            BY <1>3, <3>2 DEF JsonValues
        <3> QED
            BY <3>1, <3>2
    <2> QED
        BY <1>2, <2>1
<1>5. Texts = CHOOSE g : Is(g)
    BY Zenon DEF Texts
<1>6. Is(Texts)
    <2> HIDE DEF Is
    <2> QED
        BY <1>4, <1>5, Zenon
<1>7. \A n \in 0..N : Texts[n] = [v \in JsonValues |-> IF n = 0 THEN <<v>> ELSE Text(v, Texts[n - 1])]
    BY <1>6 DEF JsonValues
<1>8. \A n \in 0..N : Texts[n] \in AllTexts
    <2> DEFINE S == {n \in 0..N : Texts[n] \in AllTexts}
    <2>0. 0 \in 0..N
        BY <1>0
    <2>1. 0 \in S
        BY <1>0, <1>7, <2>0
    <2>2. ASSUME NEW n \in 0..(N - 1), n \in S PROVE n + 1 \in S
        <3>1. n + 1 \in 0..N /\ n + 1 # 0 /\ (n + 1) - 1 = n
            BY <1>0
        <3>2. Texts[n + 1] = [v \in JsonValues |-> Text(v, Texts[n])]
            BY <1>7, <3>1
        <3>3. \A v \in JsonValues : Text(v, Texts[n]) \in JsonText
            BY <2>2, TextType
        <3> QED
            BY <3>1, <3>2, <3>3 DEF AllTexts
    <2> HIDE DEF S, N
    <2>3. \A n \in 0..N : n \in S
        BY <1>0, <2>1, <2>2, BoundedInduction
    <2> QED
        BY <2>3 DEF S
<1>9. 0 \in 0..N /\ \A n \in 1..N : n \in 0..N /\ n # 0
    BY <1>0
<1> QED
    BY <1>7, <1>8, <1>9

(* The keys in the order of strcmp give the members in that order. *)
LEMMA SortedMembers ==
    ASSUME HeapOK, NEW inner \in AllTexts, NEW F, FrameOK(F), ~F.isarray,
           Enumerates(F.rest, DOMAIN heap[F.table] \cap Keys), Sorted(F.rest)
    PROVE  FlattenSeq(Members(F.table, heap, inner)) = RestText(F, heap, inner)
<1> DEFINE X == Tokens \cup JsonValues
           t == F.table
           order == F.rest
           D == DOMAIN heap[t]
           item == [k \in Keys |-> <<k>> \o inner[heap[t][k]]]
           n == Len(StringKeys)
           m == Len(order)
           all == Members(t, heap, inner)
           some == KeyTexts(F, heap, inner)
<1>1. t \in Tables /\ n \in Nat /\ m \in Nat
    BY KeysAssumption DEF FrameOK, Frame, Enumerates
<1>2. all \in Seq(Seq(X)) /\ Len(all) = n
    BY <1>1, MembersType DEF JsonText
<1>3. some \in Seq(Seq(X)) /\ Len(some) = m /\ RestText(F, heap, inner) = FlattenSeq(some)
    BY KeyTextsType DEF JsonText
<1>4. \A p \in 1..n : all[p] = IF StringKeys[p] \in D THEN item[StringKeys[p]] ELSE <<>>
    <2>1. \A p \in 1..n : StringKeys[p] \in Keys
        BY KeysAssumption
    <2> QED
        BY <2>1 DEF Members
<1>5. \A j \in 1..m : some[j] = item[order[j]]
    <2>1. \A j \in 1..m : order[j] \in Keys
        BY DEF Enumerates
    <2> QED
        BY <2>1 DEF KeyTexts, KeyText
<1> HIDE DEF X, t, order, D, item, n, m, all, some
<1>6. PICK f \in [0..n -> Seq(X)] : Flattens(f, all) /\ FlattenSeq(all) = f[n]
    BY <1>2, FlattenPrefixes
<1>7. PICK h \in [0..m -> Seq(X)] : Flattens(h, some) /\ FlattenSeq(some) = h[m]
    BY <1>3, FlattenPrefixes
<1>8. ASSUME NEW p \in 0..(n - 1)
      PROVE  f[p + 1] = f[p] \o IF StringKeys[p + 1] \in D THEN item[StringKeys[p + 1]] ELSE <<>>
    <2>1. p + 1 \in 1..n /\ (p + 1) - 1 = p
        BY <1>1
    <2>2. f[p + 1] = f[p] \o all[p + 1]
        BY <1>2, <1>6, <2>1, Zenon DEF Flattens
    <2> QED
        BY <1>4, <2>1, <2>2, Zenon
<1>9. ASSUME NEW j \in 0..(m - 1) PROVE h[j + 1] = h[j] \o item[order[j + 1]]
    <2>1. j + 1 \in 1..m /\ (j + 1) - 1 = j
        BY <1>1
    <2>2. h[j + 1] = h[j] \o some[j + 1]
        BY <1>3, <1>7, <2>1, Zenon DEF Flattens
    <2> QED
        BY <1>5, <2>1, <2>2, Zenon
<1>11. Enumerates(order, D \cap Keys) /\ Sorted(order)
    BY Zenon DEF order, D, t
<1>10. ItemPrefixes(f, h, order, D, item, X)
    <2>1. f[0] = <<>> /\ h[0] = <<>>
        BY <1>6, <1>7, Zenon DEF Flattens
    <2>2. \A p \in 0..n : f[p] \in Seq(X)
        BY <1>6, Zenon
    <2> QED
        BY <1>8, <1>9, <1>11, <2>1, <2>2, Zenon DEF ItemPrefixes, n, m
<1>12. f[n] = h[m]
    <2>a. \A g, k : ItemPrefixes(g, k, order, D, item, X) => g[Len(StringKeys)] = k[Len(order)]
        BY PrefixesMeet, SMT
    <2>1. f[Len(StringKeys)] = h[Len(order)]
        BY <1>10, <2>a, Zenon
    <2> QED
        BY <2>1, Zenon DEF n, m
<1> QED
    BY <1>3, <1>6, <1>7, <1>12, Zenon DEF all, t

(* The brackets around a table. *)
Opens(array) == <<IF array THEN "[" ELSE "{">>
Closes(array) == <<IF array THEN "]" ELSE "}">>

LEMMA Brackets == \A b \in BOOLEAN : Opens(b) \in JsonText /\ Closes(b) \in JsonText
<1> TAKE b \in BOOLEAN
<1>1. CASE b
    BY <1>1, Letters DEF Opens, Closes
<1>2. CASE ~b
    BY <1>2, Letters DEF Opens, Closes
<1> QED
    BY <1>1, <1>2

NewFrame(t, options, rest) ==
    [table |-> t, isarray |-> isarray(t, options.empty_table_as_array), rest |-> rest]

LEMMA NewFrameOK ==
    ASSUME HeapOK, NEW t \in Tables, NEW options \in CustomizedEncoder, NEW rest \in Orders(t, options)
    PROVE  /\ FrameOK(NewFrame(t, options, rest)) /\ Enumerates(rest, WrittenKeys(t))
           /\ NewFrame(t, options, rest).table = t /\ NewFrame(t, options, rest).rest = rest
           /\ NewFrame(t, options, rest).isarray = isarray(t, options.empty_table_as_array)
           /\ isarray(t, options.empty_table_as_array) \in BOOLEAN
<1> DEFINE b == options.empty_table_as_array
<1>0. b \in BOOLEAN /\ isarray(t, b) \in BOOLEAN
    BY DEF CustomizedEncoder, isarray
<1>1. Enumerates(rest, WrittenKeys(t))
    BY OrdersEnumerate
<1>2. rest \in Seq(WrittenKeys(t)) /\ \A j \in 1..Len(rest) : rest[j] \in WrittenKeys(t)
    BY <1>1 DEF Enumerates
<1>3. \A k \in WrittenKeys(t) : k \in {1, 2} \cup Keys /\ (isarray(t, b) \/ k \in Keys)
    BY <1>0, WrittenValues, KeysWritten
<1>4. rest \in Seq({1, 2} \cup Keys)
    BY <1>2, <1>3, SeqMonotonic
<1> QED
    BY <1>0, <1>1, <1>2, <1>3, <1>4 DEF NewFrame, FrameOK, Frame

(* What a call writes for a table, between its brackets, is the text of the table. *)
LEMMA TableText ==
    ASSUME HeapOK, encoder \in CustomizedEncoder, encoder.sort_keys,
           NEW inner \in AllTexts, NEW t \in Tables, NEW rest \in Orders(t, encoder)
    PROVE  LET F == NewFrame(t, encoder, rest) IN
           Text(t, inner) = (Opens(F.isarray) \o RestText(F, heap, inner)) \o Closes(F.isarray)
<1> DEFINE b == encoder.empty_table_as_array
           F == NewFrame(t, encoder, rest)
<1>1. /\ FrameOK(F) /\ F.table = t /\ F.rest = rest /\ F.isarray = isarray(t, b)
      /\ Enumerates(rest, WrittenKeys(t))
    BY NewFrameOK, Zenon
<1>2. b \in BOOLEAN
    BY DEF CustomizedEncoder
<1> HIDE DEF F
<1>3. CASE isarray(t, b)
    <2> DEFINE items == [i \in DOMAIN heap[t] |-> inner[heap[t][i]]]
    <2>1. rest = [i \in DOMAIN heap[t] |-> i]
        BY <1>3, Zenon DEF Orders
    <2>2. PICK n \in Nat : DOMAIN heap[t] = 1..n
        BY <1>2, <1>3, ArrayKeys
    <2>3. Len(rest) = n /\ \A j \in 1..n : rest[j] = j
        BY <2>1, <2>2
    <2>4. KeyTexts(F, heap, inner) = items
        <3>1. \A j \in 1..n : KeyText(F.isarray, F.table, F.rest[j], heap, inner) = inner[heap[t][j]]
            BY <1>1, <1>3, <2>3 DEF KeyText
        <3>2. KeyTexts(F, heap, inner)
                = [j \in 1..n |-> KeyText(F.isarray, F.table, F.rest[j], heap, inner)]
            BY <1>1, <2>3, Zenon DEF KeyTexts
        <3> QED
            BY <2>2, <3>1, <3>2, Zenon
    <2>5. RestText(F, heap, inner) = FlattenSeq(items)
        BY <1>1, <2>4, KeyTextsType
    <2>6. Text(t, inner) = (<<"[">> \o FlattenSeq(items)) \o <<"]">>
        BY <1>3, TextOfTable, Zenon
    <2>7. Opens(F.isarray) = <<"[">> /\ Closes(F.isarray) = <<"]">>
        BY <1>1, <1>3, Zenon DEF Opens, Closes
    <2> QED
        BY <2>5, <2>6, <2>7, Zenon DEF F
<1>4. CASE ~isarray(t, b)
    <2>1. rest \in KeyOrders(t, encoder.sort_keys)
        BY <1>4, Zenon DEF Orders
    <2>2. Sorted(rest)
        BY <2>1, Zenon DEF KeyOrders
    <2>3. WrittenKeys(t) = DOMAIN heap[t] \cap Keys
        BY <1>2, <1>4, KeysWritten
    <2>4. ~F.isarray /\ Sorted(F.rest) /\ Enumerates(F.rest, DOMAIN heap[F.table] \cap Keys)
        BY <1>1, <1>4, <2>2, <2>3, Zenon
    <2>5. FlattenSeq(Members(F.table, heap, inner)) = RestText(F, heap, inner)
        BY <1>1, <2>4, SortedMembers
    <2>6. Text(t, inner) = (<<"{">> \o FlattenSeq(Members(t, heap, inner))) \o <<"}">>
        BY <1>4, TextOfTable, Zenon
    <2>7. Opens(F.isarray) = <<"{">> /\ Closes(F.isarray) = <<"}">>
        BY <1>1, <1>4, Zenon DEF Opens, Closes
    <2>8. Text(t, inner) = (<<"{">> \o RestText(F, heap, inner)) \o <<"}">>
        BY <1>1, <2>5, <2>6
    <2> QED
        BY <2>7, <2>8, Zenon DEF F
<1> QED
    BY <1>3, <1>4

Regroups(o, x, c, r) == ((o \o x) \o c) \o r = o \o (x \o (c \o r))

LEMMA Regroup == \A o, x, c, r \in JsonText : Regroups(o, x, c, r)
<1> TAKE o, x, c, r \in JsonText
<1>1. o \o x \in JsonText /\ c \o r \in JsonText
    BY Letters, Zenon
<1>2. ((o \o x) \o c) \o r = (o \o x) \o (c \o r)
    BY <1>1, Letters, Zenon
<1>3. (o \o x) \o (c \o r) = o \o (x \o (c \o r))
    BY <1>1, Letters, Zenon
<1> QED
    BY <1>2, <1>3, Zenon DEF Regroups

(* Beginning a table does not change what is written in the end. *)
LEMMA BeginText ==
    (/\ HeapOK /\ encoder \in CustomizedEncoder /\ encoder.sort_keys) =>
    \A n \in 1..MAX_DEPTH : \A t \in Tables : \A rest \in Orders(t, encoder) : \A r \in JsonText :
       LET F == NewFrame(t, encoder, rest) IN
       Texts[n][t] \o r
         = Opens(F.isarray) \o (RestText(F, heap, Texts[n - 1]) \o (Closes(F.isarray) \o r))
<1> SUFFICES ASSUME HeapOK, encoder \in CustomizedEncoder, encoder.sort_keys,
                    NEW n \in 1..MAX_DEPTH, NEW t \in Tables, NEW rest \in Orders(t, encoder),
                    NEW r \in JsonText
             PROVE  LET F == NewFrame(t, encoder, rest) IN
                    Texts[n][t] \o r
                      = Opens(F.isarray) \o (RestText(F, heap, Texts[n - 1]) \o (Closes(F.isarray) \o r))
    BY Zenon
<1> DEFINE F == NewFrame(t, encoder, rest)
           inner == Texts[n - 1]
<1>1. n - 1 \in 0..MAX_DEPTH /\ t \in JsonValues
    BY DepthAssumption DEF JsonValues
<1>2. inner \in AllTexts /\ Texts[n][t] = Text(t, inner)
    BY <1>1, TextLevels, Zenon
<1> HIDE DEF inner
<1>3. FrameOK(F) /\ F.isarray \in BOOLEAN
    BY NewFrameOK
<1>4. Opens(F.isarray) \in JsonText /\ Closes(F.isarray) \in JsonText
    BY <1>3, Brackets, Zenon
<1>5. RestText(F, heap, inner) \in JsonText
    BY <1>2, <1>3, KeyTextsType
<1>6. Text(t, inner) = (Opens(F.isarray) \o RestText(F, heap, inner)) \o Closes(F.isarray)
    BY <1>2, TableText, Zenon
<1>7. ((Opens(F.isarray) \o RestText(F, heap, inner)) \o Closes(F.isarray)) \o r
         = Opens(F.isarray) \o (RestText(F, heap, inner) \o (Closes(F.isarray) \o r))
    <2>1. Regroups(Opens(F.isarray), RestText(F, heap, inner), Closes(F.isarray), r)
        BY <1>4, <1>5, Regroup, Zenon
    <2> QED
        BY <2>1, Zenon DEF Regroups
<1> QED
    BY <1>2, <1>6, <1>7, Zenon DEF inner

-----------------------------------------------------------------------------
(* The calls as a stack. *)
LEMMA StackProperties ==
    ASSUME NEW fs \in Seq(Frame), fs # <<>>, NEW G \in Frame
    PROVE  /\ Len(fs) \in Nat /\ Len(fs) \in 1..Len(fs) /\ Last(fs) = fs[Len(fs)] /\ Last(fs) \in Frame
           /\ Front(fs) \in Seq(Frame) /\ Len(Front(fs)) = Len(fs) - 1
           /\ \A i \in 1..(Len(fs) - 1) : Front(fs)[i] = fs[i]
           /\ Append(Front(fs), G) \in Seq(Frame) /\ Len(Append(Front(fs), G)) = Len(fs)
           /\ \A i \in 1..(Len(fs) - 1) : Append(Front(fs), G)[i] = fs[i]
           /\ Append(Front(fs), G)[Len(fs)] = G
<1>1. Len(fs) \in Nat /\ Len(fs) \in 1..Len(fs) /\ Last(fs) = fs[Len(fs)] /\ Last(fs) \in Frame
    BY DEF Last
<1>2. /\ Front(fs) \in Seq(Frame) /\ Len(Front(fs)) = Len(fs) - 1
      /\ \A i \in 1..(Len(fs) - 1) : Front(fs)[i] = fs[i]
    <2> DEFINE m == Len(fs) - 1
    <2>1. m \in Int /\ 1 \in Int /\ m - 1 + 1 = m /\ m >= 0 /\ \A i \in 1..m : fs[i] \in Frame
        BY <1>1
    <2>2. /\ SubSeq(fs, 1, m) \in Seq(Frame)
          /\ Len(SubSeq(fs, 1, m)) = IF 1 <= m THEN m - 1 + 1 ELSE 0
          /\ \A i \in 1..(m - 1 + 1) : SubSeq(fs, 1, m)[i] = fs[1 + i - 1]
        BY <2>1, SubSeqProperties
    <2>3. Len(SubSeq(fs, 1, m)) = m
        BY <2>1, <2>2
    <2>4. \A i \in 1..m : 1 + i - 1 = i
        BY <2>1
    <2>5. \A i \in 1..m : SubSeq(fs, 1, m)[i] = fs[i]
        BY <2>1, <2>2, <2>4, Zenon
    <2> QED
        BY <2>2, <2>3, <2>5, Zenon DEF Front
<1>3. /\ Append(Front(fs), G) \in Seq(Frame) /\ Len(Append(Front(fs), G)) = Len(fs)
      /\ \A i \in 1..(Len(fs) - 1) : Append(Front(fs), G)[i] = Front(fs)[i]
      /\ Append(Front(fs), G)[Len(fs)] = G
    <2>1. /\ Append(Front(fs), G) \in Seq(Frame)
          /\ Len(Append(Front(fs), G)) = Len(Front(fs)) + 1
          /\ \A i \in 1..Len(Front(fs)) : Append(Front(fs), G)[i] = Front(fs)[i]
          /\ Append(Front(fs), G)[Len(Front(fs)) + 1] = G
        BY <1>2, AppendProperties
    <2>2. Len(Front(fs)) + 1 = Len(fs)
        BY <1>1, <1>2
    <2> QED
        BY <1>2, <2>1, <2>2
<1> QED
    BY <1>1, <1>2, <1>3

LEMMA PushProperties ==
    ASSUME NEW fs \in Seq(Frame), NEW G \in Frame
    PROVE  /\ Append(fs, G) \in Seq(Frame) /\ Len(Append(fs, G)) = Len(fs) + 1 /\ Len(fs) \in Nat
           /\ \A i \in 1..Len(fs) : Append(fs, G)[i] = fs[i]
           /\ Append(fs, G)[Len(fs) + 1] = G /\ Append(fs, G) # <<>>
BY AppendProperties

-----------------------------------------------------------------------------
(* What is still to be written. *)

(* rem[i] is what the calls 1 .. i write before they return. *)
Remains(rem, fs, h, texts) ==
    /\ rem \in [0..Len(fs) -> JsonText] /\ rem[0] = <<>>
    /\ \A i \in 1..Len(fs) :
         rem[i] = RestText(fs[i], h, texts[MAX_DEPTH - i]) \o (Closes(fs[i].isarray) \o rem[i - 1])

(* What is written, and what the calls write from here, is the whole text. *)
EndsAs(fs, written, h, texts, whole) ==
    \E rem : Remains(rem, fs, h, texts) /\ written \o rem[Len(fs)] = whole

(* The calls, the outermost first. *)
CallsOK(fs) ==
    fs \in Seq(Frame) /\ Len(fs) <= MAX_DEPTH /\ \A i \in 1..Len(fs) : FrameOK(fs[i])

JsonStateOK == HeapOK /\ encoder \in CustomizedEncoder

LEMMA LevelBelow ==
    ASSUME JsonStateOK, NEW i \in 0..MAX_DEPTH
    PROVE  MAX_DEPTH - i \in 0..MAX_DEPTH /\ Texts[MAX_DEPTH - i] \in AllTexts
<1>1. MAX_DEPTH - i \in 0..MAX_DEPTH
    BY DepthAssumption
<1> QED
    BY <1>1, TextLevels DEF JsonStateOK

(* Begins a table. *)
LEMMA PushText ==
    JsonStateOK /\ encoder.sort_keys =>
    \A fs, written, whole : \A t \in Tables : \A rest \in Orders(t, encoder) :
       /\ CallsOK(fs) /\ Len(fs) + 1 <= MAX_DEPTH /\ written \in JsonText
       /\ EndsAs(fs, written \o Texts[MAX_DEPTH - Len(fs)][t], heap, Texts, whole)
       => EndsAs(Append(fs, NewFrame(t, encoder, rest)),
                 written \o Opens(NewFrame(t, encoder, rest).isarray), heap, Texts, whole)
<1> SUFFICES ASSUME JsonStateOK, encoder.sort_keys,
                    NEW fs, NEW written, NEW whole, NEW t \in Tables, NEW rest \in Orders(t, encoder),
                    CallsOK(fs), Len(fs) + 1 <= MAX_DEPTH, written \in JsonText,
                    EndsAs(fs, written \o Texts[MAX_DEPTH - Len(fs)][t], heap, Texts, whole)
             PROVE  EndsAs(Append(fs, NewFrame(t, encoder, rest)),
                           written \o Opens(NewFrame(t, encoder, rest).isarray), heap, Texts, whole)
    BY Zenon
<1> DEFINE F == NewFrame(t, encoder, rest)
           n == Len(fs)
           k == MAX_DEPTH - n
           gs == Append(fs, F)
<1>0. HeapOK /\ encoder \in CustomizedEncoder /\ fs \in Seq(Frame)
    BY Zenon DEF JsonStateOK, CallsOK
<1>1. FrameOK(F) /\ F \in Frame /\ F.isarray \in BOOLEAN
    BY <1>0, NewFrameOK DEF FrameOK
<1>2. /\ gs \in Seq(Frame) /\ Len(gs) = n + 1 /\ n \in Nat
      /\ \A i \in 1..n : gs[i] = fs[i]
      /\ gs[n + 1] = F
    BY <1>0, <1>1, PushProperties
<1>3. /\ k \in 1..MAX_DEPTH /\ n \in 0..MAX_DEPTH /\ n + 1 \in 0..MAX_DEPTH
      /\ k - 1 = MAX_DEPTH - (n + 1)
    BY <1>2, DepthAssumption
<1>4. PICK rem : Remains(rem, fs, heap, Texts) /\ (written \o Texts[k][t]) \o rem[n] = whole
    BY Zenon DEF EndsAs
<1> HIDE DEF F, n, k, gs
<1>5. rem \in [0..n -> JsonText] /\ rem[0] = <<>> /\ n \in 0..n /\ rem[n] \in JsonText
    <2>1. n \in 0..n
        BY <1>2
    <2> QED
        BY <1>4, <2>1 DEF Remains, n
<1>6. Texts[k][t] \in JsonText /\ Texts[k - 1] \in AllTexts
    <2>1. Texts[k] \in AllTexts /\ t \in JsonValues
        BY <1>3, LevelBelow DEF k, JsonValues
    <2>2. Texts[k - 1] \in AllTexts
        BY <1>3, LevelBelow
    <2> QED
        BY <2>1, <2>2 DEF AllTexts
<1>7. /\ Opens(F.isarray) \in JsonText /\ Closes(F.isarray) \in JsonText
      /\ RestText(F, heap, Texts[k - 1]) \in JsonText
    <2>1. RestText(F, heap, Texts[k - 1]) \in JsonText
        BY <1>0, <1>1, <1>6, KeyTextsType
    <2> QED
        BY <1>1, <2>1, Brackets, Zenon
<1> DEFINE last == RestText(F, heap, Texts[k - 1]) \o (Closes(F.isarray) \o rem[n])
           new == [i \in 0..(n + 1) |-> IF i = n + 1 THEN last ELSE rem[i]]
<1>8. last \in JsonText
    <2>1. Closes(F.isarray) \o rem[n] \in JsonText
        BY <1>5, <1>7, Letters, Zenon
    <2> QED
        BY <1>7, <2>1, Letters, Zenon
<1>9. Texts[k][t] \o rem[n] = Opens(F.isarray) \o last
    BY <1>0, <1>3, <1>5, BeginText, Zenon DEF F
<1> HIDE DEF last
<1>10. /\ new \in [0..(n + 1) -> JsonText] /\ new[0] = <<>> /\ new[n + 1] = last
       /\ \A i \in 0..n : new[i] = rem[i]
    BY <1>2, <1>5, <1>8
<1> HIDE DEF new
<1>11. Remains(new, gs, heap, Texts)
    <2>1. ASSUME NEW i \in 1..(n + 1)
          PROVE  new[i] = RestText(gs[i], heap, Texts[MAX_DEPTH - i]) \o (Closes(gs[i].isarray) \o new[i - 1])
        <3>1. i \in 1..n \/ i = n + 1
            BY <1>2
        <3>2. CASE i \in 1..n
            <4>1. i \in 0..n /\ i - 1 \in 0..n
                BY <1>2, <3>2
            <4>2. rem[i] = RestText(fs[i], heap, Texts[MAX_DEPTH - i])
                              \o (Closes(fs[i].isarray) \o rem[i - 1])
                BY <1>4, <3>2, Zenon DEF Remains, n
            <4>3. gs[i] = fs[i] /\ new[i] = rem[i] /\ new[i - 1] = rem[i - 1]
                BY <1>2, <1>10, <3>2, <4>1, Zenon
            <4> QED
                BY <4>2, <4>3, Zenon
        <3>3. CASE i = n + 1
            <4>1. i - 1 = n /\ MAX_DEPTH - i = k - 1
                BY <1>2, <1>3, <3>3
            <4>2. gs[i] = F /\ new[i] = last /\ new[i - 1] = rem[n]
                BY <1>2, <1>5, <1>10, <3>3, <4>1, Zenon
            <4> QED
                BY <4>1, <4>2, Zenon DEF last
        <3> QED
            BY <3>1, <3>2, <3>3
    <2> QED
        BY <1>2, <1>10, <2>1 DEF Remains
<1>12. (written \o Opens(F.isarray)) \o new[n + 1] = whole
    <2>1. (written \o Texts[k][t]) \o rem[n] = written \o (Texts[k][t] \o rem[n])
        BY <1>5, <1>6, Letters, Zenon
    <2>2. (written \o Opens(F.isarray)) \o last = written \o (Opens(F.isarray) \o last)
        BY <1>7, <1>8, Letters, Zenon
    <2> QED
        BY <1>4, <1>9, <1>10, <2>1, <2>2, Zenon
<1> QED
    BY <1>2, <1>11, <1>12, Zenon DEF EndsAs, F, gs

(* The value that the innermost call has reached is written. *)
LEMMA AdvanceText ==
    JsonStateOK =>
    \A fs, written, whole :
       /\ CallsOK(fs) /\ fs # <<>> /\ Last(fs).rest # <<>> /\ written \in JsonText
       /\ EndsAs(fs, written, heap, Texts, whole)
       => LET F == Last(fs) IN
          EndsAs(Append(Front(fs), [F EXCEPT !.rest = Tail(@)]),
                 written \o KeyText(F.isarray, F.table, Head(F.rest), heap, Texts[MAX_DEPTH - Len(fs)]),
                 heap, Texts, whole)
<1> SUFFICES ASSUME JsonStateOK, NEW fs, NEW written, NEW whole,
                    CallsOK(fs), fs # <<>>, Last(fs).rest # <<>>, written \in JsonText,
                    EndsAs(fs, written, heap, Texts, whole)
             PROVE  LET F == Last(fs) IN
                    EndsAs(Append(Front(fs), [F EXCEPT !.rest = Tail(@)]),
                           written \o KeyText(F.isarray, F.table, Head(F.rest), heap,
                                              Texts[MAX_DEPTH - Len(fs)]),
                           heap, Texts, whole)
    BY Zenon
<1> DEFINE F == Last(fs)
           G == [F EXCEPT !.rest = Tail(@)]
           n == Len(fs)
           k == MAX_DEPTH - n
           gs == Append(Front(fs), G)
           head == KeyText(F.isarray, F.table, Head(F.rest), heap, Texts[k])
<1>0. HeapOK /\ encoder \in CustomizedEncoder /\ fs \in Seq(Frame) /\ n <= MAX_DEPTH
    BY Zenon DEF JsonStateOK, CallsOK
<1>1. n \in Nat /\ n \in 1..n /\ F = fs[n] /\ F \in Frame
    BY <1>0 DEF Last
<1>2. FrameOK(F)
    BY <1>1, Zenon DEF CallsOK
<1>3. n \in 0..MAX_DEPTH
    BY <1>0, <1>1, DepthAssumption
<1>4. Texts[k] \in AllTexts
    BY <1>3, LevelBelow
<1>5. /\ FrameOK(G) /\ head \in JsonText
      /\ RestText(F, heap, Texts[k]) = head \o RestText(G, heap, Texts[k])
    BY <1>0, <1>2, <1>4, RestTextStep
<1>6. G \in Frame /\ G.isarray = F.isarray /\ F.isarray \in BOOLEAN
    BY <1>1, <1>5 DEF FrameOK, Frame
<1>7. /\ Len(gs) = n /\ gs[n] = G
      /\ \A i \in 1..(n - 1) : gs[i] = fs[i]
    BY <1>0, <1>6, StackProperties
<1>8. PICK rem : Remains(rem, fs, heap, Texts) /\ written \o rem[n] = whole
    BY Zenon DEF EndsAs
<1> HIDE DEF F, G, n, k, gs, head
<1>9. /\ rem \in [0..n -> JsonText] /\ rem[0] = <<>> /\ n \in 0..n /\ n - 1 \in 0..n
      /\ rem[n - 1] \in JsonText
    <2>1. n \in 0..n /\ n - 1 \in 0..n
        BY <1>1
    <2> QED
        BY <1>8, <2>1 DEF Remains, n
<1>10. /\ Closes(F.isarray) \in JsonText /\ RestText(G, heap, Texts[k]) \in JsonText
    <2>1. RestText(G, heap, Texts[k]) \in JsonText
        BY <1>0, <1>4, <1>5, KeyTextsType
    <2> QED
        BY <1>6, <2>1, Brackets, Zenon
<1> DEFINE close == Closes(F.isarray) \o rem[n - 1]
           last == RestText(G, heap, Texts[k]) \o close
           new == [i \in 0..n |-> IF i = n THEN last ELSE rem[i]]
<1>11. close \in JsonText
    BY <1>9, <1>10, Letters, Zenon
<1>12. rem[n] = RestText(F, heap, Texts[k]) \o close
    BY <1>1, <1>8, Zenon DEF Remains, n, k
<1> HIDE DEF close
<1>13. last \in JsonText
    BY <1>10, <1>11, Letters, Zenon
<1>14. rem[n] = head \o last
    <2>1. (head \o RestText(G, heap, Texts[k])) \o close = head \o (RestText(G, heap, Texts[k]) \o close)
        BY <1>5, <1>10, <1>11, Letters, Zenon
    <2> QED
        BY <1>5, <1>12, <2>1, Zenon
<1> HIDE DEF last
<1>15. /\ new \in [0..n -> JsonText] /\ new[0] = <<>> /\ new[n] = last
       /\ \A i \in 0..(n - 1) : new[i] = rem[i]
    BY <1>1, <1>9, <1>13
<1> HIDE DEF new
<1>16. Remains(new, gs, heap, Texts)
    <2>1. ASSUME NEW i \in 1..n
          PROVE  new[i] = RestText(gs[i], heap, Texts[MAX_DEPTH - i]) \o (Closes(gs[i].isarray) \o new[i - 1])
        <3>1. i \in 1..(n - 1) \/ i = n
            BY <1>1
        <3>2. CASE i \in 1..(n - 1)
            <4>1. i \in 0..(n - 1) /\ i - 1 \in 0..(n - 1)
                BY <1>1, <3>2
            <4>2. rem[i] = RestText(fs[i], heap, Texts[MAX_DEPTH - i])
                              \o (Closes(fs[i].isarray) \o rem[i - 1])
                BY <1>8, Zenon DEF Remains, n
            <4>3. gs[i] = fs[i] /\ new[i] = rem[i] /\ new[i - 1] = rem[i - 1]
                BY <1>7, <1>15, <3>2, <4>1, Zenon
            <4> QED
                BY <4>2, <4>3, Zenon
        <3>3. CASE i = n
            <4>1. i - 1 \in 0..(n - 1)
                BY <1>1, <3>3
            <4>2. gs[i] = G /\ new[i] = last /\ new[i - 1] = rem[n - 1] /\ MAX_DEPTH - i = k
                BY <1>7, <1>15, <3>3, <4>1, Zenon DEF k
            <4> QED
                BY <1>6, <4>2, Zenon DEF last, close
        <3> QED
            BY <3>1, <3>2, <3>3
    <2> QED
        BY <1>7, <1>15, <2>1 DEF Remains
<1>17. (written \o head) \o new[n] = whole
    <2>1. (written \o head) \o last = written \o (head \o last)
        BY <1>5, <1>13, Letters, Zenon
    <2> QED
        BY <1>8, <1>14, <1>15, <2>1, Zenon
<1>18. EndsAs(gs, written \o head, heap, Texts, whole)
    BY <1>7, <1>16, <1>17, Zenon DEF EndsAs
<1> QED
    BY <1>18, Zenon DEF gs, head, G, F, k, n

(* A table ends. *)
LEMMA PopText ==
    JsonStateOK =>
    \A fs, written, whole :
       /\ CallsOK(fs) /\ fs # <<>> /\ Last(fs).rest = <<>> /\ written \in JsonText
       /\ EndsAs(fs, written, heap, Texts, whole)
       => EndsAs(Front(fs), written \o Closes(Last(fs).isarray), heap, Texts, whole)
<1> SUFFICES ASSUME JsonStateOK, NEW fs, NEW written, NEW whole,
                    CallsOK(fs), fs # <<>>, Last(fs).rest = <<>>, written \in JsonText,
                    EndsAs(fs, written, heap, Texts, whole)
             PROVE  EndsAs(Front(fs), written \o Closes(Last(fs).isarray), heap, Texts, whole)
    BY Zenon
<1> DEFINE F == Last(fs)
           n == Len(fs)
           k == MAX_DEPTH - n
           gs == Front(fs)
<1>0. HeapOK /\ encoder \in CustomizedEncoder /\ fs \in Seq(Frame) /\ n <= MAX_DEPTH
    BY Zenon DEF JsonStateOK, CallsOK
<1>1. n \in Nat /\ n \in 1..n /\ F = fs[n] /\ F \in Frame /\ F.isarray \in BOOLEAN
    <2>1. n \in Nat /\ n \in 1..n /\ F = fs[n] /\ F \in Frame
        BY <1>0 DEF Last
    <2>2. F.isarray \in BOOLEAN
        <3> HIDE DEF F
        <3> QED
            BY <2>1 DEF Frame
    <2> QED
        BY <2>1, <2>2, Zenon
<1>2. Len(gs) = n - 1 /\ \A i \in 1..(n - 1) : gs[i] = fs[i]
    BY <1>0, <1>1, StackProperties
<1>3. PICK rem : Remains(rem, fs, heap, Texts) /\ written \o rem[n] = whole
    BY Zenon DEF EndsAs
<1>4. RestText(F, heap, Texts[k]) = <<>>
    <2>1. [j \in 1..Len(F.rest) |-> KeyText(F.isarray, F.table, F.rest[j], heap, Texts[k])] = <<>>
        OBVIOUS
    <2> QED
        BY <2>1, FlattenEmpty, Zenon DEF RestText
<1>5. Closes(F.isarray) \in JsonText
    BY <1>1, Brackets, Zenon
<1> HIDE DEF F, n, k, gs
<1>6. /\ rem \in [0..n -> JsonText] /\ rem[0] = <<>> /\ n - 1 \in 0..n /\ rem[n - 1] \in JsonText
    <2>1. n - 1 \in 0..n
        BY <1>1
    <2> QED
        BY <1>3, <2>1 DEF Remains, n
<1> DEFINE close == Closes(F.isarray) \o rem[n - 1]
           new == [i \in 0..(n - 1) |-> rem[i]]
<1>7. close \in JsonText
    BY <1>5, <1>6, Letters, Zenon
<1>8. rem[n] = <<>> \o close
    BY <1>1, <1>3, <1>4, Zenon DEF Remains, n, k
<1>9. rem[n] = close
    <2> HIDE DEF close
    <2> QED
        BY <1>7, <1>8, Letters, Zenon
<1>10. new \in [0..(n - 1) -> JsonText] /\ new[0] = <<>> /\ \A i \in 0..(n - 1) : new[i] = rem[i]
    BY <1>1, <1>6
<1> HIDE DEF new
<1>11. Remains(new, gs, heap, Texts)
    <2>1. ASSUME NEW i \in 1..(n - 1)
          PROVE  new[i] = RestText(gs[i], heap, Texts[MAX_DEPTH - i]) \o (Closes(gs[i].isarray) \o new[i - 1])
        <3>1. i \in 0..(n - 1) /\ i - 1 \in 0..(n - 1) /\ i \in 1..n
            BY <1>1
        <3>2. rem[i] = RestText(fs[i], heap, Texts[MAX_DEPTH - i])
                          \o (Closes(fs[i].isarray) \o rem[i - 1])
            BY <1>3, <3>1, Zenon DEF Remains, n
        <3>3. gs[i] = fs[i] /\ new[i] = rem[i] /\ new[i - 1] = rem[i - 1]
            BY <1>2, <1>10, <3>1, Zenon
        <3> QED
            BY <3>2, <3>3, Zenon
    <2> QED
        BY <1>2, <1>10, <2>1 DEF Remains
<1>12. (written \o Closes(F.isarray)) \o new[n - 1] = whole
    <2>1. (written \o Closes(F.isarray)) \o rem[n - 1] = written \o close
        BY <1>5, <1>6, Letters, Zenon
    <2>2. new[n - 1] = rem[n - 1]
        BY <1>1, <1>10
    <2> HIDE DEF close
    <2> QED
        BY <1>3, <1>9, <2>1, <2>2, Zenon
<1> QED
    BY <1>2, <1>11, <1>12, Zenon DEF EndsAs, F, gs

-----------------------------------------------------------------------------
(* The tables that are still to be begun. *)

RestFits(F, h, fits) ==
    \A j \in 1..Len(F.rest) : h[F.table][F.rest[j]] \in Tables => h[F.table][F.rest[j]] \in fits

(* They fit below the limit. *)
AllFit(fs, h, fits) == \A i \in 1..Len(fs) : RestFits(fs[i], h, fits[MAX_DEPTH - i])

LEMMA PushFits ==
    ASSUME HeapOK, NEW fs, CallsOK(fs), Len(fs) + 1 <= MAX_DEPTH,
           NEW t \in Tables, NEW options \in CustomizedEncoder, NEW rest \in Orders(t, options),
           AllFit(Append(fs, NewFrame(t, options, rest)), heap, Fits)
    PROVE  AllFit(fs, heap, Fits) /\ t \in Fits[MAX_DEPTH - Len(fs)]
<1> DEFINE F == NewFrame(t, options, rest)
           n == Len(fs)
           gs == Append(fs, F)
<1>1. F \in Frame /\ F.table = t /\ F.rest = rest /\ Enumerates(rest, WrittenKeys(t))
    BY NewFrameOK DEF FrameOK
<1>2. /\ Len(gs) = n + 1 /\ n \in Nat /\ gs[n + 1] = F
      /\ \A i \in 1..n : gs[i] = fs[i]
    BY <1>1, PushProperties DEF CallsOK
<1>3. /\ MAX_DEPTH - n \in 1..MAX_DEPTH /\ (MAX_DEPTH - n) - 1 = MAX_DEPTH - (n + 1)
      /\ n + 1 \in 1..(n + 1) /\ \A i \in 1..n : i \in 1..(n + 1)
    BY <1>2, DepthAssumption
<1> HIDE DEF F, n, gs
<1>4. \A i \in 1..(n + 1) : RestFits(gs[i], heap, Fits[MAX_DEPTH - i])
    BY <1>2, Zenon DEF AllFit, gs, F
<1>5. AllFit(fs, heap, Fits)
    BY <1>2, <1>3, <1>4, Zenon DEF AllFit, n
<1>6. RestFits(F, heap, Fits[MAX_DEPTH - (n + 1)])
    BY <1>2, <1>3, <1>4, Zenon
<1>7. ASSUME NEW k \in WrittenKeys(t), heap[t][k] \in Tables
      PROVE  heap[t][k] \in Fits[(MAX_DEPTH - n) - 1]
    <2>1. PICK j \in 1..Len(rest) : rest[j] = k
        BY <1>1, Zenon DEF Enumerates
    <2> QED
        BY <1>1, <1>3, <1>6, <1>7, <2>1, Zenon DEF RestFits
<1>8. t \in Fits[MAX_DEPTH - n]
    BY <1>3, <1>7, FitsLevels, Zenon
<1> QED
    BY <1>5, <1>8, Zenon DEF n

LEMMA AdvanceFits ==
    ASSUME NEW fs, CallsOK(fs), fs # <<>>, Last(fs).rest # <<>>,
           AllFit(Append(Front(fs), [Last(fs) EXCEPT !.rest = Tail(@)]), heap, Fits),
           LET v == heap[Last(fs).table][Head(Last(fs).rest)]
           IN  v \in Tables => v \in Fits[MAX_DEPTH - Len(fs)]
    PROVE  AllFit(fs, heap, Fits)
<1> DEFINE F == Last(fs)
           G == [F EXCEPT !.rest = Tail(@)]
           n == Len(fs)
           gs == Append(Front(fs), G)
<1>0. fs \in Seq(Frame)
    BY Zenon DEF CallsOK
<1>1. n \in Nat /\ n \in 1..n /\ F = fs[n] /\ F \in Frame
    BY <1>0 DEF Last
<1>2. F.rest \in Seq({1, 2} \cup Keys) /\ F.rest # <<>>
    <2>1. F.rest # <<>>
        OBVIOUS
    <2> HIDE DEF F
    <2> QED
        BY <1>1, <2>1 DEF Frame
<1> DEFINE m == Len(F.rest)
<1>3. /\ Tail(F.rest) \in Seq({1, 2} \cup Keys) /\ Len(Tail(F.rest)) = m - 1 /\ m \in Nat /\ m >= 1
      /\ Head(F.rest) = F.rest[1]
      /\ \A j \in 1..(m - 1) : Tail(F.rest)[j] = F.rest[j + 1]
    <2> HIDE DEF F
    <2> QED
        BY <1>2
<1>4. G \in Frame /\ G.table = F.table /\ G.rest = Tail(F.rest)
    <2> HIDE DEF F
    <2> QED
        BY <1>1, <1>3 DEF Frame
<1>5. Len(gs) = n /\ gs[n] = G /\ \A i \in 1..(n - 1) : gs[i] = fs[i]
    BY <1>0, <1>4, StackProperties
<1>6. heap[F.table][F.rest[1]] \in Tables => heap[F.table][F.rest[1]] \in Fits[MAX_DEPTH - n]
    <2>1. heap[F.table][Head(F.rest)] \in Tables =>
             heap[F.table][Head(F.rest)] \in Fits[MAX_DEPTH - n]
        BY Zenon
    <2> QED
        BY <1>3, <2>1, Zenon
<1> HIDE DEF F, G, n, gs, m
<1>7. \A i \in 1..n : RestFits(gs[i], heap, Fits[MAX_DEPTH - i])
    BY <1>5, Zenon DEF AllFit, gs, G, F
<1>8. \A i \in 1..n : i \in 1..(n - 1) \/ i = n
    BY <1>1
<1>9. RestFits(F, heap, Fits[MAX_DEPTH - n])
    <2>1. RestFits(G, heap, Fits[MAX_DEPTH - n])
        BY <1>1, <1>5, <1>7, Zenon
    <2>2. ASSUME NEW j \in 1..m, heap[F.table][F.rest[j]] \in Tables
          PROVE  heap[F.table][F.rest[j]] \in Fits[MAX_DEPTH - n]
        <3>1. CASE j = 1
            BY <1>6, <2>2, <3>1, Zenon
        <3>2. CASE j # 1
            <4>1. j - 1 \in 1..(m - 1) /\ (j - 1) + 1 = j
                BY <1>3, <3>2
            <4>2. G.rest[j - 1] = F.rest[j] /\ j - 1 \in 1..Len(G.rest) /\ G.table = F.table
                BY <1>3, <1>4, <4>1
            <4> QED
                BY <2>1, <2>2, <4>2, Zenon DEF RestFits
        <3> QED
            BY <3>1, <3>2
    <2> QED
        BY <2>2, Zenon DEF RestFits, m
<1>10. \A i \in 1..n : RestFits(fs[i], heap, Fits[MAX_DEPTH - i])
    BY <1>1, <1>5, <1>7, <1>8, <1>9, Zenon
<1> QED
    BY <1>10, Zenon DEF AllFit, n

LEMMA PopFits ==
    ASSUME NEW fs, CallsOK(fs), fs # <<>>, Last(fs).rest = <<>>, AllFit(Front(fs), heap, Fits)
    PROVE  AllFit(fs, heap, Fits)
<1> DEFINE n == Len(fs)
<1>0. fs \in Seq(Frame)
    BY Zenon DEF CallsOK
<1>1. n \in Nat /\ n \in 1..n /\ Last(fs) = fs[n] /\ Last(fs) \in Frame
    BY <1>0 DEF Last
<1>2. Len(Front(fs)) = n - 1 /\ \A i \in 1..(n - 1) : Front(fs)[i] = fs[i]
    BY <1>0, <1>1, StackProperties
<1>3. RestFits(fs[n], heap, Fits[MAX_DEPTH - n])
    BY <1>1 DEF RestFits
<1>4. \A i \in 1..(n - 1) : RestFits(fs[i], heap, Fits[MAX_DEPTH - i])
    BY <1>2, Zenon DEF AllFit
<1>5. \A i \in 1..n : i \in 1..(n - 1) \/ i = n
    BY <1>1
<1> QED
    BY <1>3, <1>4, <1>5, Zenon DEF AllFit

-----------------------------------------------------------------------------
(* The invariant of the JSON encoder. *)

(* The call i encodes a table that is i - 1 levels below Root. *)
CallsNested == \A i \in 1..Len(frames) : frames[i].table \in Nested[i - 1]

(* Root fits below the limit if the tables do that are still to be begun. *)
PendingFits ==
    jsonStatus \in {"running", "done"} => (AllFit(frames, heap, Fits) => Root \in Fits[MAX_DEPTH])

(* With sort_keys the calls will have written the canonical text. *)
TextIsDue ==
    (jsonStatus \in {"running", "done"} /\ encoder.sort_keys) =>
       EndsAs(frames, json, heap, Texts, Canonical)

JsonInv ==
    /\ JsonTypeOK
    /\ (jsonStatus = "running") <=> (frames # <<>>)
    /\ CallsOK(frames) /\ CallsNested
    /\ PendingFits /\ TextIsDue
    /\ (jsonStatus = "nested too depth") => (Nested[MAX_DEPTH] \cap Tables # {})

LEMMA SameTables ==
    ASSUME heap' = heap
    PROVE  /\ Nested' = Nested /\ Fits' = Fits /\ HeapOK' = HeapOK
           /\ CallsOK(frames') => CallsOK(frames)'
<1>1. \A t : WrittenKeys(t)' = WrittenKeys(t)
    BY DEF WrittenKeys, isarray
<1>2. Nested' = Nested
    BY DEF Nested, WrittenKeys, isarray
<1>3. FitsStep' = FitsStep
    BY DEF FitsStep, WrittenKeys, isarray
<1>4. Fits' = Fits
    BY <1>3 DEF Fits
<1>5. HeapOK' = HeapOK
    BY DEF HeapOK
<1>6. CallsOK(frames') => CallsOK(frames)'
    BY DEF CallsOK, FrameOK, WrittenKeys, isarray
<1> QED
    BY <1>2, <1>4, <1>5, <1>6

LEMMA SameTexts ==
    ASSUME heap' = heap, encoder' = encoder
    PROVE  Texts' = Texts /\ Canonical' = Canonical
<1>1. Texts' = Texts
    BY DEF Texts, Text, isarray
<1> QED
    BY <1>1 DEF Canonical

LEMMA TokensAreText == \A s \in Seq(Tokens) : s \in JsonText
<1> TAKE s \in Seq(Tokens)
<1>1. Tokens \subseteq Tokens \cup JsonValues
    OBVIOUS
<1> QED
    BY <1>1, SeqMonotonic DEF JsonText

LEMMA JsonInitially == JsonInit => JsonInv
<1> SUFFICES ASSUME JsonInit PROVE JsonInv
    OBVIOUS
<1>1. frames = <<>> /\ json = <<>> /\ jsonStatus = "idle" /\ encoder \in CustomizedEncoder
    BY DEF JsonInit, CustomizedEncoder
<1>2. heap \in [Tables -> Contents]
    BY EmptyTable DEF JsonInit
<1>3. JsonTypeOK
    BY <1>1, <1>2, DepthAssumption DEF JsonTypeOK
<1>4. CallsOK(frames) /\ CallsNested
    BY <1>1, DepthAssumption DEF CallsOK, CallsNested
<1>5. PendingFits /\ TextIsDue
    BY <1>1 DEF PendingFits, TextIsDue
<1> QED
    BY <1>1, <1>3, <1>4, <1>5 DEF JsonInv

LEMMA SetTableStep ==
    ASSUME JsonInv, NEW t \in Tables, NEW contents \in Contents, SetTable(t, contents)
    PROVE  JsonInv'
<1>1. /\ jsonStatus = "idle" /\ frames = <<>> /\ JsonTypeOK
      /\ frames' = <<>> /\ jsonStatus' = "idle" /\ encoder' = encoder /\ json' = json
      /\ heap' = [heap EXCEPT ![t] = contents]
    BY DEF JsonInv, SetTable
<1>2. JsonTypeOK'
    BY <1>1, DepthAssumption DEF JsonTypeOK
<1>3. CallsOK(frames)' /\ CallsNested'
    BY <1>1, DepthAssumption DEF CallsOK, CallsNested
<1>4. PendingFits' /\ TextIsDue'
    BY <1>1 DEF PendingFits, TextIsDue
<1> QED
    BY <1>1, <1>2, <1>3, <1>4 DEF JsonInv

(* What beginning a table does. *)
Begins(t, caller, written, options, rest) ==
    /\ rest \in Orders(t, options) /\ Len(caller) + 1 <= MAX_DEPTH
    /\ frames' = Append(caller, NewFrame(t, options, rest)) /\ frames' # <<>>
    /\ json' = written \o Opens(NewFrame(t, options, rest).isarray)
    /\ encoder' = options /\ heap' = heap /\ jsonStatus' = "running"
    /\ CallsOK(frames')

LEMMA BeginsTable ==
    ASSUME HeapOK, NEW t \in Tables, NEW caller, CallsOK(caller), NEW written \in Seq(Tokens),
           NEW options \in CustomizedEncoder, encodeTable(t, caller, written, options)
    PROVE  JsonTypeOK' /\ \E rest : Begins(t, caller, written, options, rest)
<1> DEFINE array == isarray(t, options.empty_table_as_array)
<1>1. /\ ~TooDeep(Len(caller) + 1)
      /\ \E rest \in Orders(t, options) : frames' = Append(caller, NewFrame(t, options, rest))
      /\ json' = Append(written, IF array THEN "[" ELSE "{")
      /\ encoder' = options /\ jsonStatus' = "running" /\ heap' = heap
    BY Zenon DEF encodeTable, Orders, NewFrame
<1>2. PICK rest \in Orders(t, options) : frames' = Append(caller, NewFrame(t, options, rest))
    BY <1>1
<1> DEFINE F == NewFrame(t, options, rest)
<1>3. FrameOK(F) /\ F.isarray = array /\ array \in BOOLEAN /\ F \in Frame
    BY NewFrameOK DEF FrameOK
<1> HIDE DEF F, array
<1>4. /\ frames' \in Seq(Frame) /\ Len(frames') = Len(caller) + 1 /\ Len(caller) \in Nat
      /\ \A i \in 1..Len(caller) : frames'[i] = caller[i]
      /\ frames'[Len(caller) + 1] = F /\ frames' # <<>>
    <2>1. caller \in Seq(Frame) /\ frames' = Append(caller, F)
        BY <1>2, Zenon DEF CallsOK, F
    <2> QED
        BY <1>3, <2>1, PushProperties
<1>5. Len(caller) + 1 <= MAX_DEPTH
    <2>1. ~(Len(caller) + 1 > MAX_DEPTH)
        BY <1>1, Zenon DEF TooDeep
    <2> QED
        BY <1>4, <2>1, DepthAssumption
<1>6. CallsOK(frames')
    <2>1. \A i \in 1..(Len(caller) + 1) : i \in 1..Len(caller) \/ i = Len(caller) + 1
        BY <1>4
    <2>2. \A i \in 1..Len(caller) : FrameOK(caller[i])
        BY Zenon DEF CallsOK
    <2>3. \A i \in 1..Len(frames') : FrameOK(frames'[i])
        BY <1>3, <1>4, <2>1, <2>2, Zenon
    <2>4. Len(frames') <= MAX_DEPTH
        BY <1>4, <1>5
    <2> QED
        BY <1>4, <2>3, <2>4, Zenon DEF CallsOK
<1>7. json' \in Seq(Tokens) /\ json' = written \o Opens(F.isarray)
    <2> DEFINE x == IF array THEN "[" ELSE "{"
    <2>1. x \in Tokens
        BY DEF Tokens
    <2>2. Opens(F.isarray) = <<x>> /\ json' = Append(written, x)
        BY <1>1, <1>3, Zenon DEF Opens
    <2> HIDE DEF x
    <2> QED
        BY <2>1, <2>2, AppendIsConcat, AppendProperties
<1>8. JsonTypeOK'
    BY <1>1, <1>4, <1>6, <1>7 DEF JsonTypeOK, HeapOK, CallsOK
<1>9. Begins(t, caller, written, options, rest)
    BY <1>1, <1>2, <1>4, <1>5, <1>6, <1>7, Zenon DEF Begins, F
<1> QED
    BY <1>8, <1>9, Zenon

LEMMA NoCalls == CallsOK(<<>>) /\ <<>> \in Seq(Tokens) /\ \A i \in 1..Len(<<>>) : FALSE
<1>1. <<>> \in Seq(Frame) /\ Len(<<>>) = 0 /\ <<>> \in Seq(Tokens)
    OBVIOUS
<1>2. 0 <= MAX_DEPTH /\ \A i \in 1..0 : FALSE
    BY DepthAssumption
<1> QED
    BY <1>1, <1>2, Zenon DEF CallsOK

(* The first table. *)
LEMMA FirstText ==
    JsonStateOK /\ encoder.sort_keys =>
    \A rest \in Orders(Root, encoder) :
       EndsAs(Append(<<>>, NewFrame(Root, encoder, rest)),
              <<>> \o Opens(NewFrame(Root, encoder, rest).isarray), heap, Texts, Canonical)
<1> SUFFICES ASSUME JsonStateOK, encoder.sort_keys, NEW rest \in Orders(Root, encoder)
             PROVE  EndsAs(Append(<<>>, NewFrame(Root, encoder, rest)),
                           <<>> \o Opens(NewFrame(Root, encoder, rest).isarray), heap, Texts, Canonical)
    OBVIOUS
<1> DEFINE rem == [i \in 0..0 |-> <<>>]
<1>1. MAX_DEPTH - Len(<<>>) = MAX_DEPTH /\ MAX_DEPTH \in 0..MAX_DEPTH /\ Len(<<>>) + 1 <= MAX_DEPTH
      /\ Root \in Tables /\ Root \in JsonValues
    BY DepthAssumption, TablesAssumption DEF JsonValues
<1>2. Canonical \in JsonText
    BY <1>1, TextLevels DEF Canonical, AllTexts, JsonStateOK
<1>3. Remains(rem, <<>>, heap, Texts) /\ rem[0] = <<>>
    <2>1. Len(<<>>) = 0 /\ 1..0 = {} /\ 0 \in 0..0
        OBVIOUS
    <2>2. rem \in [0..0 -> JsonText] /\ rem[0] = <<>>
        BY <2>1, Letters
    <2> HIDE DEF rem
    <2> QED
        BY <2>1, <2>2 DEF Remains
<1> HIDE DEF rem
<1>4. (<<>> \o Canonical) \o rem[Len(<<>>)] = Canonical
    <2>1. (<<>> \o Canonical) \o <<>> = Canonical
        BY <1>2, Letters, Zenon
    <2>2. Len(<<>>) = 0
        OBVIOUS
    <2> QED
        BY <1>3, <2>1, <2>2, Zenon
<1>5. EndsAs(<<>>, <<>> \o Texts[MAX_DEPTH - Len(<<>>)][Root], heap, Texts, Canonical)
    BY <1>1, <1>3, <1>4, Zenon DEF EndsAs, Canonical
<1>6. CallsOK(<<>>) /\ <<>> \in JsonText
    BY NoCalls, Letters, Zenon
<1> QED
    BY <1>1, <1>5, <1>6, PushText, Zenon

LEMMA FirstTextNext ==
    (JsonStateOK /\ encoder.sort_keys =>
     \A rest \in Orders(Root, encoder) :
        EndsAs(Append(<<>>, NewFrame(Root, encoder, rest)),
               <<>> \o Opens(NewFrame(Root, encoder, rest).isarray), heap, Texts, Canonical))'
BY FirstText, PTL

LEMMA BeginStep ==
    ASSUME JsonInv, NEW options \in CustomizedEncoder, json_encode_custom(options)
    PROVE  JsonInv'
<1>1. HeapOK /\ CallsOK(<<>>) /\ <<>> \in Seq(Tokens) /\ Root \in Tables
    BY NoCalls, TablesAssumption, Zenon DEF JsonInv, JsonTypeOK, HeapOK
<1>2. encodeTable(Root, <<>>, <<>>, options)
    BY Zenon DEF json_encode_custom
<1>3. PICK rest : Begins(Root, <<>>, <<>>, options, rest)
    BY <1>1, <1>2, BeginsTable
<1>4. JsonTypeOK'
    BY <1>1, <1>2, BeginsTable
<1> DEFINE F == NewFrame(Root, options, rest)
<1>5. /\ rest \in Orders(Root, options) /\ frames' = Append(<<>>, F) /\ frames' # <<>>
      /\ json' = <<>> \o Opens(F.isarray) /\ encoder' = options /\ heap' = heap
      /\ jsonStatus' = "running" /\ CallsOK(frames') /\ Len(<<>>) + 1 <= MAX_DEPTH
    BY <1>3, Zenon DEF Begins
<1>6. CallsOK(frames)' /\ Nested' = Nested /\ Fits' = Fits /\ HeapOK'
    BY <1>1, <1>5, SameTables
<1>7. CallsNested'
    <2>1. F.table = Root /\ F \in Frame
        BY <1>1, <1>5, NewFrameOK DEF FrameOK
    <2>2. Len(frames') = 1 /\ frames'[1] = F
        <3> HIDE DEF F
        <3> QED
            BY <1>5, <2>1, PushProperties
    <2>3. Root \in Nested[0]
        BY <1>1, NestedLevels
    <2>4. \A i \in 1..1 : i = 1 /\ i - 1 = 0
        OBVIOUS
    <2>5. \A i \in 1..Len(frames') : frames'[i].table \in Nested[i - 1]
        BY <2>1, <2>2, <2>3, <2>4, Zenon
    <2> QED
        BY <1>6, <2>5 DEF CallsNested
<1>8. PendingFits'
    <2>1. ASSUME AllFit(Append(<<>>, F), heap, Fits) PROVE Root \in Fits[MAX_DEPTH]
        <3>1. Root \in Fits[MAX_DEPTH - Len(<<>>)]
            BY <1>1, <1>5, <2>1, PushFits
        <3>2. MAX_DEPTH - Len(<<>>) = MAX_DEPTH
            BY DepthAssumption
        <3> QED
            BY <3>1, <3>2, Zenon
    <2> QED
        BY <1>5, <1>6, <2>1, Zenon DEF PendingFits
<1>9. TextIsDue'
    <2>1. JsonStateOK'
        BY <1>5, <1>6 DEF JsonStateOK
    <2>2. Orders(Root, encoder)' = Orders(Root, options)
          /\ NewFrame(Root, encoder, rest)' = NewFrame(Root, options, rest)
        BY <1>5 DEF Orders, NewFrame, KeyOrders, isarray
    <2>3. ASSUME encoder'.sort_keys
          PROVE  EndsAs(frames', json', heap', Texts', Canonical')
        <3>1. EndsAs(Append(<<>>, NewFrame(Root, encoder, rest)'),
                     <<>> \o Opens(NewFrame(Root, encoder, rest)'.isarray), heap', Texts', Canonical')
            BY <1>5, <2>1, <2>2, <2>3, FirstTextNext
        <3> QED
            BY <1>5, <2>2, <3>1, Zenon
    <2> QED
        BY <1>5, <2>3 DEF TextIsDue
<1> QED
    BY <1>4, <1>5, <1>6, <1>7, <1>8, <1>9 DEF JsonInv

(* The value that the innermost call has reached. *)
ValueReached ==
    LET n == Len(frames) IN
    /\ JsonStateOK /\ jsonStatus = "running" /\ n \in 1..MAX_DEPTH
    /\ CallsOK(Caller) /\ Len(Caller) = n /\ Caller # <<>>
    /\ Written \in Seq(Tokens) /\ Value \in JsonValues
    /\ \A i \in 1..n : Caller[i].table \in Nested[i - 1]
    /\ Value \in Nested[n]
    /\ (AllFit(Caller, heap, Fits) /\ (Value \in Tables => Value \in Fits[MAX_DEPTH - n]))
          => Root \in Fits[MAX_DEPTH]
    /\ encoder.sort_keys =>
         EndsAs(Caller, Written \o Texts[MAX_DEPTH - n][Value], heap, Texts, Canonical)

LEMMA ReachesValue ==
    ASSUME JsonInv, frames # <<>>, Last(frames).rest # <<>>
    PROVE  ValueReached
<1> DEFINE n == Len(frames)
           F == Last(frames)
           G == [F EXCEPT !.rest = Tail(@)]
           key == Head(F.rest)
<1>1. JsonStateOK /\ HeapOK /\ jsonStatus = "running" /\ CallsOK(frames) /\ json \in Seq(Tokens)
    BY Zenon DEF JsonInv, JsonTypeOK, JsonStateOK, HeapOK
<1>2. frames \in Seq(Frame) /\ n <= MAX_DEPTH /\ \A i \in 1..n : FrameOK(frames[i])
    BY <1>1, Zenon DEF CallsOK
<1>3. n \in Nat /\ n \in 1..n /\ F = frames[n]
    BY <1>2 DEF Last
<1>4. n \in 1..MAX_DEPTH /\ n \in 0..MAX_DEPTH
    BY <1>2, <1>3, DepthAssumption
<1>5. FrameOK(F) /\ F.rest # <<>>
    BY <1>2, <1>3, Zenon
<1>6. Texts[MAX_DEPTH - n] \in AllTexts
    BY <1>1, <1>4, LevelBelow
<1>7. /\ FrameOK(G) /\ key \in WrittenKeys(F.table)
      /\ KeyText(F.isarray, F.table, key, heap, Texts[MAX_DEPTH - n]) \in JsonText
    BY <1>1, <1>5, <1>6, RestTextStep
<1>8. Caller = Append(Front(frames), G) /\ Value = heap[F.table][key]
    BY Zenon DEF Caller, Value
<1>9. F \in Frame /\ G \in Frame /\ F.table \in Tables /\ G.table = F.table /\ F.isarray \in BOOLEAN
    <2>1. F \in Frame
        BY <1>5, Zenon DEF FrameOK
    <2>2. G \in Frame
        BY <1>7, Zenon DEF FrameOK
    <2> QED
        BY <2>1, <2>2 DEF Frame
<1>10. Value \in JsonValues
    BY <1>1, <1>7, <1>8, <1>9, WrittenValues
<1>11. F.isarray \/ key \in Keys
    <2>1. F.rest \in Seq({1, 2} \cup Keys)
        BY <1>9 DEF Frame
    <2>2. 1 \in 1..Len(F.rest) /\ key = F.rest[1]
        <3> HIDE DEF F
        <3> QED
            BY <1>5, <2>1
    <2> QED
        BY <1>5, <2>2, Zenon DEF FrameOK
<1> HIDE DEF n, F, G, key
<1>12. /\ Caller \in Seq(Frame) /\ Len(Caller) = n /\ Caller[n] = G
       /\ \A i \in 1..(n - 1) : Caller[i] = frames[i]
    BY <1>2, <1>8, <1>9, StackProperties DEF n
<1>13. \A i \in 1..n : i \in 1..(n - 1) \/ i = n
    BY <1>3
<1>14. CallsOK(Caller)
    <2>1. \A i \in 1..n : FrameOK(Caller[i])
        BY <1>2, <1>7, <1>12, <1>13, Zenon
    <2> QED
        BY <1>2, <1>12, <2>1, Zenon DEF CallsOK
<1>15. Caller # <<>>
    BY <1>3, <1>12
<1>16. \A i \in 1..n : Caller[i].table \in Nested[i - 1]
    <2>1. \A i \in 1..n : frames[i].table \in Nested[i - 1]
        BY Zenon DEF JsonInv, CallsNested, n
    <2> QED
        BY <1>3, <1>9, <1>12, <1>13, <2>1, Zenon
<1>17. Value \in Nested[n]
    <2>1. F.table \in Nested[n - 1] \cap Tables
        BY <1>3, <1>9, Zenon DEF JsonInv, CallsNested, n
    <2>2. Value \in Inside(Nested[n - 1])
        BY <1>7, <1>8, <2>1 DEF Inside
    <2> QED
        BY <1>1, <1>4, <2>2, NestedLevels
<1>18. ASSUME AllFit(Caller, heap, Fits), Value \in Tables => Value \in Fits[MAX_DEPTH - n]
       PROVE  Root \in Fits[MAX_DEPTH]
    <2>1. AllFit(frames, heap, Fits)
        BY <1>1, <1>8, <1>18, AdvanceFits DEF F, G, n, key
    <2> QED
        BY <1>1, <2>1, Zenon DEF JsonInv, PendingFits
<1>19. Written \in Seq(Tokens)
    <2>1. CASE F.isarray
        BY <1>1, <2>1, Zenon DEF Written, F
    <2>2. CASE ~F.isarray
        <3>1. key \in Tokens
            BY <1>11, <2>2 DEF Tokens
        <3>2. Written = Append(json, key)
            BY <2>2, Zenon DEF Written, F, key
        <3> QED
            BY <1>1, <3>1, <3>2, AppendProperties
    <2> QED
        BY <2>1, <2>2
<1>20. json \o KeyText(F.isarray, F.table, key, heap, Texts[MAX_DEPTH - n])
         = Written \o Texts[MAX_DEPTH - n][Value]
    <2> DEFINE text == Texts[MAX_DEPTH - n][Value]
    <2>1. text \in JsonText
        BY <1>6, <1>10 DEF AllTexts
    <2>2. CASE F.isarray
        <3>1. KeyText(F.isarray, F.table, key, heap, Texts[MAX_DEPTH - n]) = text
            BY <1>8, <2>2, Zenon DEF KeyText
        <3>2. Written = json
            BY <2>2, Zenon DEF Written, F
        <3> QED
            BY <3>1, <3>2, Zenon
    <2>3. CASE ~F.isarray
        <3>1. KeyText(F.isarray, F.table, key, heap, Texts[MAX_DEPTH - n]) = <<key>> \o text
            BY <1>8, <2>3, Zenon DEF KeyText
        <3>2. key \in Tokens
            BY <1>11, <2>3 DEF Tokens
        <3>3. Written = Append(json, key)
            BY <2>3, Zenon DEF Written, F, key
        <3>4. Written = json \o <<key>>
            BY <1>1, <3>2, <3>3, AppendIsConcat
        <3>5. json \in JsonText /\ <<key>> \in JsonText
            BY <1>1, <3>2, TokensAreText, Letters
        <3> HIDE DEF text
        <3>6. (json \o <<key>>) \o text = json \o (<<key>> \o text)
            BY <2>1, <3>5, Letters, Zenon
        <3> QED
            BY <3>1, <3>4, <3>6, Zenon DEF text
    <2> QED
        BY <2>2, <2>3
<1>21. ASSUME encoder.sort_keys
       PROVE  EndsAs(Caller, Written \o Texts[MAX_DEPTH - n][Value], heap, Texts, Canonical)
    <2>1. EndsAs(frames, json, heap, Texts, Canonical) /\ json \in JsonText
        BY <1>1, <1>21, TokensAreText, Zenon DEF JsonInv, TextIsDue
    <2>2. EndsAs(Append(Front(frames), G),
                 json \o KeyText(F.isarray, F.table, key, heap, Texts[MAX_DEPTH - n]),
                 heap, Texts, Canonical)
        BY <1>1, <2>1, AdvanceText, Zenon DEF F, G, key, n
    <2> QED
        BY <1>8, <1>20, <2>2, Zenon
<1> QED
    BY <1>1, <1>4, <1>10, <1>12, <1>14, <1>15, <1>16, <1>17, <1>18, <1>19, <1>21, Zenon DEF ValueReached, n

LEMMA TableReachedStep ==
    ASSUME JsonInv, ValueReached, Value \in Tables,
           encodeTable(Value, Caller, Written, encoder)
    PROVE  JsonInv'
<1> DEFINE n == Len(frames)
           v == Value
           c == Caller
           w == Written
<1>1. /\ JsonStateOK /\ HeapOK /\ encoder \in CustomizedEncoder
      /\ jsonStatus = "running" /\ n \in 1..MAX_DEPTH
      /\ CallsOK(c) /\ Len(c) = n /\ w \in Seq(Tokens)
      /\ \A i \in 1..n : c[i].table \in Nested[i - 1]
      /\ v \in Nested[n]
      /\ (AllFit(c, heap, Fits) /\ v \in Fits[MAX_DEPTH - n]) => Root \in Fits[MAX_DEPTH]
      /\ encoder.sort_keys =>
           EndsAs(c, w \o Texts[MAX_DEPTH - n][v], heap, Texts, Canonical)
    BY Zenon DEF ValueReached, JsonStateOK
<1>2. v \in Tables /\ encodeTable(v, c, w, encoder)
    OBVIOUS
<1> HIDE DEF n, v, c, w
<1>3. JsonTypeOK' /\ \E rest : Begins(v, c, w, encoder, rest)
    BY <1>1, <1>2, BeginsTable
<1>4. PICK rest : Begins(v, c, w, encoder, rest)
    BY <1>3, Zenon
<1> DEFINE F == NewFrame(v, encoder, rest)
<1>5. /\ rest \in Orders(v, encoder) /\ Len(c) + 1 <= MAX_DEPTH
      /\ frames' = Append(c, F) /\ frames' # <<>> /\ json' = w \o Opens(F.isarray)
      /\ encoder' = encoder /\ heap' = heap /\ jsonStatus' = "running" /\ CallsOK(frames')
    BY <1>4, Zenon DEF Begins
<1>6. /\ CallsOK(frames)' /\ Nested' = Nested /\ Fits' = Fits
      /\ Texts' = Texts /\ Canonical' = Canonical
    BY <1>5, SameTables, SameTexts
<1>7. CallsNested'
    <2>1. F.table = v /\ F \in Frame
        BY <1>1, <1>2, <1>5, NewFrameOK DEF FrameOK
    <2>2. /\ Len(frames') = n + 1 /\ n \in Nat /\ frames'[n + 1] = F
          /\ \A i \in 1..n : frames'[i] = c[i]
        <3>1. c \in Seq(Frame)
            BY <1>1, Zenon DEF CallsOK
        <3> HIDE DEF F
        <3> QED
            BY <1>1, <1>5, <2>1, <3>1, PushProperties
    <2>3. (n + 1) - 1 = n /\ \A i \in 1..(n + 1) : i \in 1..n \/ i = n + 1
        BY <2>2
    <2>4. \A i \in 1..(n + 1) : frames'[i].table \in Nested[i - 1]
        BY <1>1, <2>1, <2>2, <2>3, Zenon
    <2> QED
        BY <1>6, <2>2, <2>4 DEF CallsNested
<1>8. PendingFits'
    <2>1. ASSUME AllFit(Append(c, F), heap, Fits) PROVE Root \in Fits[MAX_DEPTH]
        <3>1. AllFit(c, heap, Fits) /\ v \in Fits[MAX_DEPTH - Len(c)]
            BY <1>1, <1>2, <1>5, <2>1, PushFits
        <3> QED
            BY <1>1, <3>1, Zenon
    <2> QED
        BY <1>5, <1>6, <2>1, Zenon DEF PendingFits
<1>9. TextIsDue'
    <2>1. ASSUME encoder.sort_keys PROVE EndsAs(frames', json', heap, Texts, Canonical)
        <3>1. w \in JsonText
            BY <1>1, TokensAreText, Zenon
        <3>2. EndsAs(c, w \o Texts[MAX_DEPTH - Len(c)][v], heap, Texts, Canonical)
            BY <1>1, <2>1, Zenon
        <3>3. EndsAs(Append(c, F), w \o Opens(F.isarray), heap, Texts, Canonical)
            BY <1>1, <1>2, <1>5, <2>1, <3>1, <3>2, PushText, Zenon
        <3> QED
            BY <1>5, <3>3, Zenon
    <2> QED
        BY <1>5, <1>6, <2>1, Zenon DEF TextIsDue
<1> QED
    BY <1>3, <1>5, <1>6, <1>7, <1>8, <1>9 DEF JsonInv

(* A value that is no table is written as it is. *)
LEMMA ScalarText ==
    ASSUME JsonStateOK, NEW n \in 0..MAX_DEPTH, NEW v \in JsonValues, v \notin Tables
    PROVE  Texts[n][v] = <<v>>
<1>1. CASE n = 0
    BY <1>1, TextLevels DEF JsonStateOK
<1>2. CASE n # 0
    <2>1. n \in 1..MAX_DEPTH
        BY <1>2
    <2>2. Texts[n][v] = Text(v, Texts[n - 1])
        BY <2>1, TextLevels, Zenon DEF JsonStateOK
    <2> QED
        BY <2>2, Zenon DEF Text
<1> QED
    BY <1>1, <1>2

LEMMA ScalarStep ==
    ASSUME JsonInv, ValueReached, Value \in Supported, json' = Append(Written, Value),
           frames' = Caller, UNCHANGED <<heap, encoder, jsonStatus>>
    PROVE  JsonInv'
<1> DEFINE n == Len(frames)
           v == Value
           c == Caller
           w == Written
<1>1. /\ JsonStateOK /\ jsonStatus = "running" /\ n \in 1..MAX_DEPTH
      /\ CallsOK(c) /\ Len(c) = n /\ c # <<>> /\ w \in Seq(Tokens) /\ v \in JsonValues
      /\ \A i \in 1..n : c[i].table \in Nested[i - 1]
      /\ (AllFit(c, heap, Fits) /\ (v \in Tables => v \in Fits[MAX_DEPTH - n]))
            => Root \in Fits[MAX_DEPTH]
      /\ encoder.sort_keys =>
           EndsAs(c, w \o Texts[MAX_DEPTH - n][v], heap, Texts, Canonical)
    BY Zenon DEF ValueReached
<1>2. v \in Supported /\ json' = Append(w, v) /\ frames' = c
    OBVIOUS
<1> HIDE DEF n, v, c, w
<1>3. heap' = heap /\ encoder' = encoder /\ jsonStatus' = jsonStatus
    OBVIOUS
<1>4. v \notin Tables /\ v \in Tokens
    BY <1>2, TablesAssumption DEF Supported, Scalars, Tokens
<1>5. /\ CallsOK(frames)' /\ Nested' = Nested /\ Fits' = Fits
      /\ Texts' = Texts /\ Canonical' = Canonical
    BY <1>1, <1>2, <1>3, SameTables, SameTexts
<1>6. json' \in Seq(Tokens) /\ json' = w \o <<v>>
    BY <1>1, <1>2, <1>4, AppendProperties, AppendIsConcat
<1>7. JsonTypeOK'
    BY <1>1, <1>2, <1>3, <1>6 DEF JsonInv, JsonTypeOK, CallsOK
<1>8. CallsNested'
    BY <1>1, <1>2, <1>5 DEF CallsNested
<1>9. PendingFits'
    BY <1>1, <1>2, <1>3, <1>4, <1>5, Zenon DEF PendingFits
<1>10. TextIsDue'
    <2>1. MAX_DEPTH - n \in 0..MAX_DEPTH
        BY <1>1, DepthAssumption
    <2>2. Texts[MAX_DEPTH - n][v] = <<v>>
        BY <1>1, <1>4, <2>1, ScalarText
    <2>3. encoder.sort_keys => EndsAs(c, w \o <<v>>, heap, Texts, Canonical)
        BY <1>1, <2>2, Zenon
    <2>4. encoder.sort_keys => EndsAs(frames', json', heap, Texts, Canonical)
        BY <1>2, <1>6, <2>3, Zenon
    <2> QED
        BY <1>3, <1>5, <2>4, Zenon DEF TextIsDue
<1> QED
    BY <1>1, <1>2, <1>3, <1>5, <1>7, <1>8, <1>9, <1>10 DEF JsonInv

(* An error ends all calls. *)
LEMMA ErrorStep ==
    ASSUME JsonInv, ValueReached, NEW message \in {"unsupported", "nested too depth"},
           luaL_error(message),
           message = "nested too depth" => Nested[MAX_DEPTH] \cap Tables # {}
    PROVE  JsonInv'
<1>1. /\ jsonStatus' = message /\ frames' = <<>> /\ heap' = heap
      /\ encoder' = encoder /\ json' = json
    BY DEF luaL_error
<1>5. message \notin {"running", "done"}
      /\ message \in {"idle", "running", "done", "unsupported", "nested too depth"}
    OBVIOUS
<1>2. JsonTypeOK'
    <2>1. JsonTypeOK
        BY Zenon DEF JsonInv
    <2>2. frames' \in Seq(Frame) /\ Len(frames') <= MAX_DEPTH
        BY <1>1, NoCalls DEF CallsOK
    <2> QED
        BY <1>1, <1>5, <2>1, <2>2, Zenon DEF JsonTypeOK
<1>3. CallsOK(frames)' /\ Nested' = Nested
    BY <1>1, NoCalls, SameTables
<1>4. CallsNested' /\ PendingFits' /\ TextIsDue'
    <2>1. CallsNested'
        <3>1. \A i \in 1..Len(frames') : FALSE
            BY <1>1, NoCalls, Zenon
        <3> QED
            BY <3>1, Zenon DEF CallsNested
    <2>2. jsonStatus' \notin {"running", "done"}
        BY <1>1, <1>5
    <2> QED
        BY <2>1, <2>2, Zenon DEF PendingFits, TextIsDue
<1> QED
    BY <1>1, <1>2, <1>3, <1>4, <1>5 DEF JsonInv

LEMMA ValueStep == JsonInv /\ encodeValue => JsonInv'
<1> SUFFICES ASSUME JsonInv, encodeValue PROVE JsonInv'
    OBVIOUS
<1>1. ValueReached
    BY ReachesValue, Zenon DEF encodeValue
<1>2. CASE Value \in Tables /\ encodeTable(Value, Caller, Written, encoder)
    BY <1>1, <1>2, TableReachedStep
<1>3. CASE Value \in Tables /\ TooDeep(Len(Caller) + 1) /\ luaL_error("nested too depth")
    <2>1. Len(Caller) = Len(frames) /\ Len(frames) \in 1..MAX_DEPTH /\ Value \in Nested[Len(frames)]
        BY <1>1, Zenon DEF ValueReached
    <2>2. Len(Caller) + 1 > MAX_DEPTH
        BY <1>3, Zenon DEF TooDeep
    <2>3. Len(frames) = MAX_DEPTH
        BY <2>1, <2>2, DepthAssumption
    <2>4. Nested[MAX_DEPTH] \cap Tables # {}
        BY <1>3, <2>1, <2>3
    <2> QED
        BY <1>1, <1>3, <2>4, ErrorStep
<1>4. CASE Value = "unsupported" /\ luaL_error("unsupported")
    BY <1>1, <1>4, ErrorStep
<1>5. CASE /\ Value \in Supported /\ json' = Append(Written, Value)
           /\ frames' = Caller /\ UNCHANGED <<heap, encoder, jsonStatus>>
    BY <1>1, <1>5, ScalarStep
<1> QED
    BY <1>2, <1>3, <1>4, <1>5, Zenon DEF encodeValue

LEMMA EndTableStep == JsonInv /\ EndTable => JsonInv'
<1> SUFFICES ASSUME JsonInv, EndTable PROVE JsonInv'
    OBVIOUS
<1> DEFINE n == Len(frames)
           F == Last(frames)
<1>1. /\ JsonStateOK /\ HeapOK /\ jsonStatus = "running" /\ frames # <<>> /\ F.rest = <<>>
      /\ CallsOK(frames) /\ json \in Seq(Tokens)
    BY Zenon DEF JsonInv, JsonTypeOK, JsonStateOK, HeapOK, EndTable
<1>2. /\ frames' = Front(frames) /\ heap' = heap /\ encoder' = encoder
      /\ json' = Append(json, IF F.isarray THEN "]" ELSE "}")
      /\ jsonStatus' = IF n = 1 THEN "done" ELSE "running"
    BY Zenon DEF EndTable
<1>3. frames \in Seq(Frame) /\ n <= MAX_DEPTH /\ \A i \in 1..n : FrameOK(frames[i])
    BY <1>1, Zenon DEF CallsOK
<1>4. n \in Nat /\ n \in 1..n /\ F = frames[n] /\ F \in Frame
    BY <1>1, <1>3 DEF Last
<1> HIDE DEF n, F
<1>5. F.isarray \in BOOLEAN
    BY <1>4 DEF Frame
<1>6. /\ frames' \in Seq(Frame) /\ Len(frames') = n - 1
      /\ \A i \in 1..(n - 1) : frames'[i] = frames[i] /\ i \in 1..n
    <2>1. \A i \in 1..(n - 1) : i \in 1..n
        BY <1>4
    <2> QED
        BY <1>1, <1>2, <1>3, <1>4, <2>1, StackProperties DEF n
<1>7. CallsOK(frames')
    <2>1. \A i \in 1..(n - 1) : FrameOK(frames'[i])
        BY <1>3, <1>6, Zenon
    <2>2. n - 1 <= MAX_DEPTH
        BY <1>3, <1>4, DepthAssumption
    <2> QED
        BY <1>6, <2>1, <2>2, Zenon DEF CallsOK
<1>8. /\ CallsOK(frames)' /\ Nested' = Nested /\ Fits' = Fits
      /\ Texts' = Texts /\ Canonical' = Canonical
    BY <1>2, <1>7, SameTables, SameTexts
<1>9. json' \in Seq(Tokens) /\ json' = json \o Closes(F.isarray)
    <2> DEFINE x == IF F.isarray THEN "]" ELSE "}"
    <2>1. x \in Tokens
        BY DEF Tokens
    <2>2. Closes(F.isarray) = <<x>> /\ json' = Append(json, x)
        BY <1>2, Zenon DEF Closes
    <2> HIDE DEF x
    <2> QED
        BY <1>1, <2>1, <2>2, AppendIsConcat, AppendProperties
<1>10. jsonStatus' \in {"running", "done"} /\ ((jsonStatus' = "running") <=> (frames' # <<>>))
    <2>1. (n = 1) <=> (Len(frames') = 0)
        BY <1>4, <1>6
    <2>2. (frames' = <<>>) <=> (Len(frames') = 0)
        BY <1>6, EmptySeq
    <2> QED
        BY <1>2, <2>1, <2>2
<1>11. JsonTypeOK'
    BY <1>2, <1>7, <1>9, <1>10 DEF JsonInv, JsonTypeOK, CallsOK
<1>12. CallsNested'
    <2>1. \A i \in 1..n : frames[i].table \in Nested[i - 1]
        BY Zenon DEF JsonInv, CallsNested, n
    <2>2. \A i \in 1..(n - 1) : frames'[i].table \in Nested[i - 1]
        BY <1>6, <2>1, Zenon
    <2> QED
        BY <1>6, <1>8, <2>2 DEF CallsNested
<1>13. PendingFits'
    <2>1. ASSUME AllFit(frames', heap, Fits) PROVE Root \in Fits[MAX_DEPTH]
        <3>1. AllFit(frames, heap, Fits)
            BY <1>1, <1>2, <2>1, PopFits DEF F
        <3> QED
            BY <1>1, <3>1, Zenon DEF JsonInv, PendingFits
    <2> QED
        BY <1>2, <1>8, <2>1, Zenon DEF PendingFits
<1>14. TextIsDue'
    <2>1. ASSUME encoder.sort_keys PROVE EndsAs(frames', json', heap, Texts, Canonical)
        <3>1. EndsAs(frames, json, heap, Texts, Canonical) /\ json \in JsonText
            BY <1>1, <2>1, TokensAreText, Zenon DEF JsonInv, TextIsDue
        <3>2. EndsAs(Front(frames), json \o Closes(F.isarray), heap, Texts, Canonical)
            BY <1>1, <3>1, PopText, Zenon DEF F
        <3> QED
            BY <1>2, <1>9, <3>2, Zenon
    <2> QED
        BY <1>2, <1>8, <2>1, Zenon DEF TextIsDue
<1> QED
    BY <1>8, <1>10, <1>11, <1>12, <1>13, <1>14 DEF JsonInv

LEMMA JsonUnchanged == JsonInv /\ UNCHANGED jsonVars => JsonInv'
<1> SUFFICES ASSUME JsonInv, UNCHANGED jsonVars PROVE JsonInv'
    OBVIOUS
<1>1. heap' = heap /\ encoder' = encoder /\ frames' = frames /\ json' = json /\ jsonStatus' = jsonStatus
    BY DEF jsonVars
<1>2. /\ CallsOK(frames') => CallsOK(frames)'
      /\ Nested' = Nested /\ Fits' = Fits /\ Texts' = Texts /\ Canonical' = Canonical
    BY <1>1, SameTables, SameTexts
<1>3. CallsOK(frames)'
    BY <1>1, <1>2, Zenon DEF JsonInv
<1>4. JsonTypeOK'
    BY <1>1 DEF JsonInv, JsonTypeOK
<1>5. CallsNested' /\ PendingFits' /\ TextIsDue'
    BY <1>1, <1>2, Zenon DEF JsonInv, CallsNested, PendingFits, TextIsDue
<1> QED
    BY <1>1, <1>2, <1>3, <1>4, <1>5 DEF JsonInv

LEMMA JsonStepHolds == JsonInv /\ [JsonNext]_jsonVars => JsonInv'
<1> SUFFICES ASSUME JsonInv, [JsonNext]_jsonVars PROVE JsonInv'
    OBVIOUS
<1>1. ASSUME NEW t \in Tables, NEW contents \in Contents, SetTable(t, contents) PROVE JsonInv'
    BY <1>1, SetTableStep
<1>2. ASSUME NEW options \in CustomizedEncoder, json_encode_custom(options) PROVE JsonInv'
    BY <1>2, BeginStep
<1>3. CASE encodeValue
    BY <1>3, ValueStep
<1>4. CASE EndTable
    BY <1>4, EndTableStep
<1>5. CASE UNCHANGED jsonVars
    BY <1>5, JsonUnchanged
<1> QED
    BY <1>1, <1>2, <1>3, <1>4, <1>5, Zenon DEF JsonNext

LEMMA FinishedEncoding == JsonInv => EncodingIsExact
<1> SUFFICES ASSUME JsonInv PROVE EncodingIsExact
    OBVIOUS
<1>1. JsonStateOK /\ HeapOK /\ json \in Seq(Tokens) /\ json \in JsonText
    BY TokensAreText, Zenon DEF JsonInv, JsonTypeOK, JsonStateOK, HeapOK
<1>2. ASSUME jsonStatus = "done" PROVE frames = <<>> /\ Len(frames) = 0
    BY <1>2 DEF JsonInv
<1>3. ASSUME jsonStatus = "done" PROVE Nested[MAX_DEPTH] \cap Tables = {}
    <2>1. AllFit(frames, heap, Fits)
        BY <1>2, <1>3 DEF AllFit
    <2>2. Root \in Fits[MAX_DEPTH]
        BY <1>3, <2>1 DEF JsonInv, PendingFits
    <2> QED
        BY <1>1, <2>2, FittingNests
<1>4. ASSUME jsonStatus = "done", encoder.sort_keys PROVE json = Canonical
    <2>1. EndsAs(frames, json, heap, Texts, Canonical)
        BY <1>4 DEF JsonInv, TextIsDue
    <2>2. PICK rem : Remains(rem, frames, heap, Texts) /\ json \o rem[Len(frames)] = Canonical
        BY <2>1, Zenon DEF EndsAs
    <2>3. rem[Len(frames)] = <<>>
        BY <1>2, <1>4, <2>2, Zenon DEF Remains
    <2>4. json \o <<>> = json
        BY <1>1, Letters, Zenon
    <2> QED
        BY <2>2, <2>3, <2>4, Zenon
<1> QED
    BY <1>3, <1>4 DEF EncodingIsExact, DepthLimitIsExact, SortedTextIsCanonical, JsonInv

(* Whatever the script has put into its tables, cycles included, and at any depth:
   encodeValue fails for its depth only what is nested too deeply and finishes
   nothing that is; and with sort_keys the text of a table depends on the contents
   of the tables alone, not on the order in which lua_next visits them. *)
THEOREM EncodingIsAlwaysExact == JsonSpec => [](JsonTypeOK /\ EncodingIsExact)
<1>1. JsonInv => JsonTypeOK /\ EncodingIsExact
    BY FinishedEncoding DEF JsonInv
<1> QED
    BY <1>1, JsonInitially, JsonStepHolds, PTL DEF JsonSpec

-----------------------------------------------------------------------------
(* Base64: every character and every byte that the loops of the codec write is a
   function of the neighbours it was made of, and these functions are inverse to
   each other.  The widths are those of the code. *)
CodeWidths == BYTE_BITS = 8 /\ CHAR_BITS = 6

Octets == 0..255
Digits == 0..63

LEMMA Widths ==
    ASSUME CodeWidths
    PROVE  /\ 2^BYTE_BITS = 256 /\ 2^CHAR_BITS = 64 /\ 2^(4 * BYTE_BITS) = 65536 * 65536
           /\ INVALID = 64 /\ BYTE_BITS = 8 /\ CHAR_BITS = 6
<1>1. BYTE_BITS = 8 /\ CHAR_BITS = 6
    BY SMT DEF CodeWidths
<1>2. 2^8 = 256 /\ 2^6 = 64 /\ 2^(4 * 8) = 65536 * 65536
    BY SMT
<1> QED
    BY <1>1, <1>2, SMT DEF INVALID

(* The word w keeps the bytes that were shifted into it last: b behind those of acc. *)
Keeps(w, acc, b) ==
    /\ w \in Nat /\ w % 256 = b
    /\ w % 65536 = (acc % 256) * 256 + b
    /\ w % 16777216 = (acc % 65536) * 256 + b

LEMMA ShiftKeeps ==
    CodeWidths => \A acc \in Nat : \A b \in Octets : Keeps(Shift(acc, b), acc, b)
<1> SUFFICES ASSUME CodeWidths, NEW acc \in Nat, NEW b \in Octets
             PROVE  Keeps(Shift(acc, b), acc, b)
    BY Zenon
<1>1. Shift(acc, b) = (acc * 256 + b) % (65536 * 65536)
    BY Widths, SMT DEF Shift
<1>2. b \in 0..255
    BY SMT DEF Octets
<1> DEFINE w == Shift(acc, b)
           q == (acc * 256 + b) \div (65536 * 65536)
<1>3. w \in Nat /\ q \in Nat /\ acc * 256 + b = 65536 * 65536 * q + w
    BY <1>1, <1>2, SMT
<1> HIDE DEF w, q
<1>4. w % 256 = b
    BY <1>2, <1>3, SMT
<1>5. w % 65536 = (acc % 256) * 256 + b
    BY <1>2, <1>3, SMT
<1>6. w % 16777216 = (acc % 65536) * 256 + b
    BY <1>2, <1>3, SMT
<1> QED
    BY <1>3, <1>4, <1>5, <1>6, SMT DEF w, Keeps

(* The word holds a block in its lowest three bytes. *)
HoldsBlock(w, x, y, z) == w \in Nat /\ w % 16777216 = x * 65536 + y * 256 + z

LEMMA BlockWord ==
    ASSUME CodeWidths, NEW acc \in Nat, NEW x \in Octets, NEW y \in Octets, NEW z \in Octets
    PROVE  HoldsBlock(Shift(Shift(Shift(acc, x), y), z), x, y, z)
<1> DEFINE u == Shift(acc, x)
           v == Shift(u, y)
           w == Shift(v, z)
<1>1. Keeps(u, acc, x)
    BY ShiftKeeps, Zenon
<1>2. u \in Nat
    BY <1>1, SMT DEF Keeps
<1>3. Keeps(v, u, y)
    BY <1>2, ShiftKeeps, Zenon
<1>4. v \in Nat
    BY <1>3, SMT DEF Keeps
<1>5. Keeps(w, v, z)
    BY <1>4, ShiftKeeps, Zenon
<1> HIDE DEF u, v, w
<1>6. HoldsBlock(w, x, y, z)
    BY <1>1, <1>3, <1>5, SMT DEF Keeps, HoldsBlock, Octets
<1> QED
    BY <1>6, Zenon DEF u, v, w

(* The digits of a block. *)
LEMMA BlockDigits ==
    ASSUME NEW w \in Nat, NEW x \in Octets, NEW y \in Octets, NEW z \in Octets,
           HoldsBlock(w, x, y, z)
    PROVE  /\ (w \div 262144) % 64 = x \div 4
           /\ (w \div 4096) % 64 = (x % 4) * 16 + y \div 16
           /\ (w \div 64) % 64 = (y % 16) * 4 + z \div 64
           /\ w % 64 = z % 64
<1>1. x \in 0..255 /\ y \in 0..255 /\ z \in 0..255
    BY SMT DEF Octets
<1> DEFINE q == w \div 16777216
           v == x * 65536 + y * 256 + z
<1>2. q \in Nat /\ v \in Nat /\ w = 16777216 * q + v
    BY <1>1, SMT DEF HoldsBlock
<1> DEFINE x1 == x \div 4
           x2 == x % 4
           y1 == y \div 16
           y2 == y % 16
           z1 == z \div 64
           z2 == z % 64
<1>3. /\ x = 4 * x1 + x2 /\ x1 \in 0..63 /\ x2 \in 0..3
      /\ y = 16 * y1 + y2 /\ y1 \in 0..15 /\ y2 \in 0..15
      /\ z = 64 * z1 + z2 /\ z1 \in 0..3 /\ z2 \in 0..63
    BY <1>1, SMT
<1> HIDE DEF q, x1, x2, y1, y2, z1, z2
<1>4. w = 64 * (64 * (64 * (64 * q + x1) + (x2 * 16 + y1)) + (y2 * 4 + z1)) + z2
    BY <1>2, <1>3, SMT
<1> DEFINE a1 == 64 * q + x1
           a2 == 64 * a1 + (x2 * 16 + y1)
           a3 == 64 * a2 + (y2 * 4 + z1)
<1>5. a1 \in Nat /\ a1 % 64 = x1
    BY <1>2, <1>3, SMT
<1>6. a2 \in Nat /\ a2 % 64 = x2 * 16 + y1 /\ a2 \div 64 = a1
    <2> HIDE DEF a1
    <2> QED
        BY <1>3, <1>5, SMT
<1>7. a3 \in Nat /\ a3 % 64 = y2 * 4 + z1 /\ a3 \div 64 = a2
    <2> HIDE DEF a2
    <2> QED
        BY <1>3, <1>6, SMT
<1>8. w = 64 * a3 + z2
    BY <1>4, SMT
<1> HIDE DEF a1, a2, a3
<1>9. w % 64 = z2 /\ w \div 64 = a3 /\ w \div 4096 = a2 /\ w \div 262144 = a1
    BY <1>3, <1>5, <1>6, <1>7, <1>8, SMT
<1> QED
    BY <1>5, <1>6, <1>7, <1>9, SMT DEF x1, x2, y1, y2, z1, z2

-----------------------------------------------------------------------------
(* The digits of three bytes, and the bytes of four digits. *)
D1(x) == x \div 4
D2(x, y) == (x % 4) * 16 + y \div 16
D3(y, z) == (y % 16) * 4 + z \div 64
D4(z) == z % 64

O1(d, e) == d * 4 + e \div 16
O2(e, f) == (e % 16) * 16 + f \div 4
O3(f, g) == (f % 4) * 64 + g

LEMMA DigitTypes ==
    \A x, y, z \in Octets : D1(x) \in Digits /\ D2(x, y) \in Digits /\ D3(y, z) \in Digits /\ D4(z) \in Digits
BY SMT DEF D1, D2, D3, D4, Octets, Digits

LEMMA OctetTypes ==
    \A d, e, f, g \in Digits : O1(d, e) \in Octets /\ O2(e, f) \in Octets /\ O3(f, g) \in Octets
BY SMT DEF O1, O2, O3, Octets, Digits

(* Encoding and decoding are inverse, with and without bits that are left over. *)
LEMMA OctetsOfDigits ==
    \A x, y, z \in Octets :
       O1(D1(x), D2(x, y)) = x /\ O2(D2(x, y), D3(y, z)) = y /\ O3(D3(y, z), D4(z)) = z
BY SMT DEF D1, D2, D3, D4, O1, O2, O3, Octets

LEMMA DigitsOfOctets ==
    \A d, e, f, g \in Digits :
       /\ D1(O1(d, e)) = d /\ D2(O1(d, e), O2(e, f)) = e
       /\ D3(O2(e, f), O3(f, g)) = f /\ D4(O3(f, g)) = g
       /\ e % 16 = 0 => D2(O1(d, e), 0) = e
       /\ f % 4 = 0 => D3(O2(e, f), 0) = f
BY SMT DEF D1, D2, D3, D4, O1, O2, O3, Digits

LEMMA FunctionIsSequence ==
    ASSUME NEW X, NEW n \in Nat, NEW f \in [1..n -> X]
    PROVE  f \in Seq(X) /\ Len(f) = n
OBVIOUS

(* The character of a word that has k characters from the highest of len bits. *)
WordCharacter(w, len, k) == (w \div 2^(len - k * 6)) % 64

(* The characters of the lowest three bytes of a word. *)
LEMMA WordCharacters ==
    ASSUME NEW w \in Nat
    PROVE  /\ WordCharacter(w, 24, 1) = (w \div 262144) % 64
           /\ WordCharacter(w, 24, 2) = (w \div 4096) % 64
           /\ WordCharacter(w, 24, 3) = (w \div 64) % 64
           /\ WordCharacter(w, 24, 4) = w % 64
<1>1. 24 - 1 * 6 = 18 /\ 24 - 2 * 6 = 12 /\ 24 - 3 * 6 = 6 /\ 24 - 4 * 6 = 0
    BY SMT
<1>2. 2^18 = 262144 /\ 2^12 = 4096 /\ 2^6 = 64 /\ 2^0 = 1
    BY SMT
<1>3. w \div 1 = w
    BY SMT
<1> QED
    BY <1>1, <1>2, <1>3, SMT DEF WordCharacter

(* What a block becomes. *)
BlockIsEncoded(cs, x, y, z) == cs = <<D1(x), D2(x, y), D3(y, z), D4(z)>>

LEMMA BlockCharacters ==
    ASSUME CodeWidths, NEW w, NEW x \in Octets, NEW y \in Octets, NEW z \in Octets,
           HoldsBlock(w, x, y, z)
    PROVE  BlockIsEncoded(Characters(w, 3 * BYTE_BITS), x, y, z)
<1>1. BYTE_BITS = 8 /\ CHAR_BITS = 6 /\ 2^CHAR_BITS = 64
    BY Widths, SMT
<1>2. w \in Nat
    BY SMT DEF HoldsBlock
<1>3. Characters(w, 3 * BYTE_BITS) = [k \in 1..4 |-> WordCharacter(w, 24, k)]
    <2>1. 3 * BYTE_BITS = 24 /\ 24 \div CHAR_BITS = 4
        BY <1>1, SMT
    <2> QED
        BY <1>1, <2>1, SMT DEF Characters, WordCharacter
<1>4. /\ WordCharacter(w, 24, 1) = D1(x) /\ WordCharacter(w, 24, 2) = D2(x, y)
      /\ WordCharacter(w, 24, 3) = D3(y, z) /\ WordCharacter(w, 24, 4) = D4(z)
    <2>1. /\ (w \div 262144) % 64 = x \div 4
          /\ (w \div 4096) % 64 = (x % 4) * 16 + y \div 16
          /\ (w \div 64) % 64 = (y % 16) * 4 + z \div 64
          /\ w % 64 = z % 64
        BY <1>2, BlockDigits, SMT
    <2>2. /\ D1(x) = x \div 4 /\ D2(x, y) = (x % 4) * 16 + y \div 16
          /\ D3(y, z) = (y % 16) * 4 + z \div 64 /\ D4(z) = z % 64
        BY SMT DEF D1, D2, D3, D4
    <2>3. /\ WordCharacter(w, 24, 1) = (w \div 262144) % 64
          /\ WordCharacter(w, 24, 2) = (w \div 4096) % 64
          /\ WordCharacter(w, 24, 3) = (w \div 64) % 64
          /\ WordCharacter(w, 24, 4) = w % 64
        BY <1>2, WordCharacters, SMT
    <2> QED
        BY <2>1, <2>2, <2>3, SMT
<1>5. [k \in 1..4 |-> WordCharacter(w, 24, k)]
        = <<WordCharacter(w, 24, 1), WordCharacter(w, 24, 2), WordCharacter(w, 24, 3), WordCharacter(w, 24, 4)>>
    BY SMT
<1>6. [k \in 1..4 |-> WordCharacter(w, 24, k)] = <<D1(x), D2(x, y), D3(y, z), D4(z)>>
    BY <1>4, <1>5, Zenon
<1> QED
    BY <1>3, <1>6, Zenon DEF BlockIsEncoded

(* The last one or two bytes. *)
LEMMA FirstByteCharacters ==
    ASSUME CodeWidths, NEW w, NEW acc, NEW x \in Octets, Keeps(w, acc, x)
    PROVE  /\ Characters(w, 8) = <<D1(x)>>
           /\ (w * 2^(CHAR_BITS - 2)) % 2^CHAR_BITS = D2(x, 0)
<1>1. CHAR_BITS = 6 /\ 2^CHAR_BITS = 64
    BY Widths, SMT
<1>2. w \in Nat /\ w % 256 = x
    BY SMT DEF Keeps
<1>3. Characters(w, 8) = [k \in 1..1 |-> (w \div 2^(8 - k * 6)) % 64]
    <2>1. 8 \div CHAR_BITS = 1
        BY <1>1, SMT
    <2> QED
        BY <1>1, <2>1, SMT DEF Characters
<1>4. 8 - 1 * 6 = 2 /\ 2^2 = 4 /\ 6 - 2 = 4 /\ 2^4 = 16
    BY SMT
<1>5. (w \div 4) % 64 = D1(x) /\ (w * 16) % 64 = D2(x, 0)
    BY <1>2, SMT DEF D1, D2, Octets
<1>6. Characters(w, 8) = <<D1(x)>>
    BY <1>3, <1>4, <1>5, SMT
<1> QED
    BY <1>1, <1>4, <1>5, <1>6, SMT

LEMMA SecondByteCharacters ==
    ASSUME CodeWidths, NEW w, NEW v, NEW acc, NEW x \in Octets, NEW y \in Octets,
           Keeps(v, acc, x), Keeps(w, v, y)
    PROVE  /\ Characters(w, 10) = <<D2(x, y)>>
           /\ (w * 2^(CHAR_BITS - 4)) % 2^CHAR_BITS = D3(y, 0)
<1>1. CHAR_BITS = 6 /\ 2^CHAR_BITS = 64
    BY Widths, SMT
<1>2. w \in Nat /\ w % 65536 = x * 256 + y
    BY SMT DEF Keeps
<1>3. Characters(w, 10) = [k \in 1..1 |-> (w \div 2^(10 - k * 6)) % 64]
    <2>1. 10 \div CHAR_BITS = 1
        BY <1>1, SMT
    <2> QED
        BY <1>1, <2>1, SMT DEF Characters
<1>4. 10 - 1 * 6 = 4 /\ 2^4 = 16 /\ 6 - 4 = 2 /\ 2^2 = 4
    BY SMT
<1>5. (w \div 16) % 64 = D2(x, y) /\ (w * 4) % 64 = D3(y, 0)
    BY <1>2, SMT DEF D2, D3, Octets
<1>6. Characters(w, 10) = <<D2(x, y)>>
    BY <1>3, <1>4, <1>5, SMT
<1> QED
    BY <1>1, <1>4, <1>5, <1>6, SMT

(* The states that a fold of EncodeBlock goes through. *)
EncodeBlockRuns(r, base, seq, St) ==
    /\ r \in [0..Len(seq) -> St] /\ r[0] = base
    /\ \A k \in 1..Len(seq) : r[k] = EncodeBlock(r[k - 1], seq[k])

LEMMA EncodeBlockFold ==
    ASSUME NEW E, NEW seq \in Seq(E), NEW St, NEW base \in St,
           \A state \in St : \A e \in E : EncodeBlock(state, e) \in St
    PROVE  \E r : /\ EncodeBlockRuns(r, base, seq, St)
                 /\ r[Len(seq)] = FoldLeft(EncodeBlock, base, seq)
<1> DEFINE n == Len(seq)
           Is(g) == g = [s \in SUBSET (DOMAIN seq) |-> IF s = {} THEN base
                           ELSE EncodeBlock(g[s \ {Max(s)}], seq[Max(s)])]
           iter == CHOOSE g : Is(g)
           step == [x \in (1..n) \X St |-> EncodeBlock(x[2], seq[x[1]])]
           r == [k \in 0..n |-> iter[1..k]]
<1>0. n \in Nat /\ DOMAIN seq = 1..n /\ \A i \in 1..n : seq[i] \in E
    BY SMT
<1>1. FoldLeft(EncodeBlock, base, seq) = iter[DOMAIN seq]
    BY Zenon DEF FoldLeft, MapThenFoldSet
<1>2. step \in [(1..n) \X St -> St]
    <2>1. \A x \in (1..n) \X St : EncodeBlock(x[2], seq[x[1]]) \in St
        <3> HIDE DEF n
        <3>1. \A x \in (1..n) \X St : x[2] \in St /\ seq[x[1]] \in E
            BY <1>0, SMT
        <3> QED
            BY <3>1, Zenon
    <2> QED
        BY <2>1, Zenon
<1>3. PICK g \in [SUBSET (1..n) -> St] : IteratesFold(g, n, base, step)
    <2> HIDE DEF n, step
    <2> QED
        BY <1>0, <1>2, FoldExists, Zenon
<1>4. Is(g)
    <2>1. ASSUME NEW s \in SUBSET (1..n), s # {}
          PROVE  g[s] = EncodeBlock(g[s \ {Max(s)}], seq[Max(s)])
        <3>1. Max(s) \in 1..n
            <4> HIDE DEF n
            <4>1. Max(s) \in s
                BY <1>0, <2>1, MaxOfIndices, Zenon
            <4> QED
                BY <4>1, Zenon
        <3>2. g[s \ {Max(s)}] \in St
            <4>1. s \ {Max(s)} \in SUBSET (1..n)
                BY Zenon
            <4> QED
                BY <4>1, Zenon
        <3>3. g[s] = step[<<Max(s), g[s \ {Max(s)}]>>]
            BY <1>3, <2>1, Zenon DEF IteratesFold
        <3> HIDE DEF n
        <3>4. <<Max(s), g[s \ {Max(s)}]>> \in (1..n) \X St
            BY <3>1, <3>2, SMT
        <3> QED
            BY <3>3, <3>4, SMT
    <2>2. g[{}] = base
        <3>1. {} \in SUBSET (1..n)
            BY Zenon
        <3> QED
            BY <1>3, <3>1, Zenon DEF IteratesFold
    <2>3. g = [s \in SUBSET (1..n) |-> g[s]]
        BY Zenon
    <2> HIDE DEF n
    <2> QED
        BY <1>0, <2>1, <2>2, <2>3, Zenon
<1>5. Is(iter)
    <2> HIDE DEF Is
    <2> QED
        BY <1>4, Zenon
<1> HIDE DEF iter, n
<1>6. /\ iter[{}] = base
      /\ \A s \in SUBSET (1..n) : s # {} => iter[s] = EncodeBlock(iter[s \ {Max(s)}], seq[Max(s)])
    <2>1. \A s \in SUBSET (1..n) :
             iter[s] = IF s = {} THEN base ELSE EncodeBlock(iter[s \ {Max(s)}], seq[Max(s)])
        BY <1>0, <1>5, Zenon
    <2>2. {} \in SUBSET (1..n)
        BY Zenon
    <2> QED
        BY <2>1, <2>2, Zenon
<1> HIDE DEF Is
<1>7. ASSUME NEW k \in 1..n PROVE r[k] = EncodeBlock(r[k - 1], seq[k])
    <2>1. /\ Max(1..k) = k /\ (1..k) \ {k} = 1..(k - 1)
          /\ 1..k \in SUBSET (1..n) /\ 1..k # {}
        BY <1>0, Intervals
    <2>2. iter[1..k] = EncodeBlock(iter[1..(k - 1)], seq[k])
        BY <1>6, <2>1, Zenon
    <2>3. k \in 0..n /\ k - 1 \in 0..n
        BY <1>0, SMT
    <2>4. r[k] = iter[1..k] /\ r[k - 1] = iter[1..(k - 1)]
        BY <2>3, Zenon
    <2> QED
        BY <2>2, <2>4, Zenon
<1>8. r[0] = base
    <2>1. 1..0 = {} /\ 0 \in 0..n
        BY <1>0, SMT
    <2>2. r[0] = iter[1..0]
        BY <2>1, Zenon
    <2> QED
        BY <1>6, <2>1, <2>2, Zenon
<1>9. r[n] = iter[DOMAIN seq]
    <2>1. n \in 0..n
        BY <1>0, SMT
    <2> QED
        BY <1>0, <2>1, Zenon
<1>10. r \in [0..n -> St]
    <2> DEFINE S == {k \in 0..n : r[k] \in St}
    <2>1. 0 \in S
        BY <1>0, <1>8, SMT
    <2>2. ASSUME NEW k \in 0..(n - 1), k \in S PROVE k + 1 \in S
        <3>1. k + 1 \in 1..n /\ k + 1 \in 0..n /\ (k + 1) - 1 = k
            BY <1>0, SMT
        <3>2. r[k + 1] = EncodeBlock(r[k], seq[k + 1])
            BY <1>7, <3>1, Zenon
        <3>3. r[k] \in St /\ seq[k + 1] \in E
            BY <1>0, <2>2, <3>1, Zenon
        <3> HIDE DEF r
        <3>4. r[k + 1] \in St
            BY <3>2, <3>3, Zenon
        <3> QED
            BY <3>1, <3>4, Zenon
    <2> HIDE DEF S
    <2>3. \A k \in 0..n : k \in S
        BY <1>0, <2>1, <2>2, BoundedInduction, Zenon
    <2>4. \A k \in 0..n : r[k] \in St
        BY <2>3, Zenon DEF S
    <2> QED
        BY <2>4, Zenon
<1> HIDE DEF r
<1> QED
    BY <1>1, <1>7, <1>8, <1>9, <1>10, Zenon DEF EncodeBlockRuns, n

(* The states that a fold of EncodeByte goes through. *)
EncodeByteRuns(r, base, seq, St) ==
    /\ r \in [0..Len(seq) -> St] /\ r[0] = base
    /\ \A k \in 1..Len(seq) : r[k] = EncodeByte(r[k - 1], seq[k])

LEMMA EncodeByteFold ==
    ASSUME NEW E, NEW seq \in Seq(E), NEW St, NEW base \in St,
           \A state \in St : \A e \in E : EncodeByte(state, e) \in St
    PROVE  \E r : /\ EncodeByteRuns(r, base, seq, St)
                 /\ r[Len(seq)] = FoldLeft(EncodeByte, base, seq)
<1> DEFINE n == Len(seq)
           Is(g) == g = [s \in SUBSET (DOMAIN seq) |-> IF s = {} THEN base
                           ELSE EncodeByte(g[s \ {Max(s)}], seq[Max(s)])]
           iter == CHOOSE g : Is(g)
           step == [x \in (1..n) \X St |-> EncodeByte(x[2], seq[x[1]])]
           r == [k \in 0..n |-> iter[1..k]]
<1>0. n \in Nat /\ DOMAIN seq = 1..n /\ \A i \in 1..n : seq[i] \in E
    BY SMT
<1>1. FoldLeft(EncodeByte, base, seq) = iter[DOMAIN seq]
    BY Zenon DEF FoldLeft, MapThenFoldSet
<1>2. step \in [(1..n) \X St -> St]
    <2>1. \A x \in (1..n) \X St : EncodeByte(x[2], seq[x[1]]) \in St
        <3> HIDE DEF n
        <3>1. \A x \in (1..n) \X St : x[2] \in St /\ seq[x[1]] \in E
            BY <1>0, SMT
        <3> QED
            BY <3>1, Zenon
    <2> QED
        BY <2>1, Zenon
<1>3. PICK g \in [SUBSET (1..n) -> St] : IteratesFold(g, n, base, step)
    <2> HIDE DEF n, step
    <2> QED
        BY <1>0, <1>2, FoldExists, Zenon
<1>4. Is(g)
    <2>1. ASSUME NEW s \in SUBSET (1..n), s # {}
          PROVE  g[s] = EncodeByte(g[s \ {Max(s)}], seq[Max(s)])
        <3>1. Max(s) \in 1..n
            <4> HIDE DEF n
            <4>1. Max(s) \in s
                BY <1>0, <2>1, MaxOfIndices, Zenon
            <4> QED
                BY <4>1, Zenon
        <3>2. g[s \ {Max(s)}] \in St
            <4>1. s \ {Max(s)} \in SUBSET (1..n)
                BY Zenon
            <4> QED
                BY <4>1, Zenon
        <3>3. g[s] = step[<<Max(s), g[s \ {Max(s)}]>>]
            BY <1>3, <2>1, Zenon DEF IteratesFold
        <3> HIDE DEF n
        <3>4. <<Max(s), g[s \ {Max(s)}]>> \in (1..n) \X St
            BY <3>1, <3>2, SMT
        <3> QED
            BY <3>3, <3>4, SMT
    <2>2. g[{}] = base
        <3>1. {} \in SUBSET (1..n)
            BY Zenon
        <3> QED
            BY <1>3, <3>1, Zenon DEF IteratesFold
    <2>3. g = [s \in SUBSET (1..n) |-> g[s]]
        BY Zenon
    <2> HIDE DEF n
    <2> QED
        BY <1>0, <2>1, <2>2, <2>3, Zenon
<1>5. Is(iter)
    <2> HIDE DEF Is
    <2> QED
        BY <1>4, Zenon
<1> HIDE DEF iter, n
<1>6. /\ iter[{}] = base
      /\ \A s \in SUBSET (1..n) : s # {} => iter[s] = EncodeByte(iter[s \ {Max(s)}], seq[Max(s)])
    <2>1. \A s \in SUBSET (1..n) :
             iter[s] = IF s = {} THEN base ELSE EncodeByte(iter[s \ {Max(s)}], seq[Max(s)])
        BY <1>0, <1>5, Zenon
    <2>2. {} \in SUBSET (1..n)
        BY Zenon
    <2> QED
        BY <2>1, <2>2, Zenon
<1> HIDE DEF Is
<1>7. ASSUME NEW k \in 1..n PROVE r[k] = EncodeByte(r[k - 1], seq[k])
    <2>1. /\ Max(1..k) = k /\ (1..k) \ {k} = 1..(k - 1)
          /\ 1..k \in SUBSET (1..n) /\ 1..k # {}
        BY <1>0, Intervals
    <2>2. iter[1..k] = EncodeByte(iter[1..(k - 1)], seq[k])
        BY <1>6, <2>1, Zenon
    <2>3. k \in 0..n /\ k - 1 \in 0..n
        BY <1>0, SMT
    <2>4. r[k] = iter[1..k] /\ r[k - 1] = iter[1..(k - 1)]
        BY <2>3, Zenon
    <2> QED
        BY <2>2, <2>4, Zenon
<1>8. r[0] = base
    <2>1. 1..0 = {} /\ 0 \in 0..n
        BY <1>0, SMT
    <2>2. r[0] = iter[1..0]
        BY <2>1, Zenon
    <2> QED
        BY <1>6, <2>1, <2>2, Zenon
<1>9. r[n] = iter[DOMAIN seq]
    <2>1. n \in 0..n
        BY <1>0, SMT
    <2> QED
        BY <1>0, <2>1, Zenon
<1>10. r \in [0..n -> St]
    <2> DEFINE S == {k \in 0..n : r[k] \in St}
    <2>1. 0 \in S
        BY <1>0, <1>8, SMT
    <2>2. ASSUME NEW k \in 0..(n - 1), k \in S PROVE k + 1 \in S
        <3>1. k + 1 \in 1..n /\ k + 1 \in 0..n /\ (k + 1) - 1 = k
            BY <1>0, SMT
        <3>2. r[k + 1] = EncodeByte(r[k], seq[k + 1])
            BY <1>7, <3>1, Zenon
        <3>3. r[k] \in St /\ seq[k + 1] \in E
            BY <1>0, <2>2, <3>1, Zenon
        <3> HIDE DEF r
        <3>4. r[k + 1] \in St
            BY <3>2, <3>3, Zenon
        <3> QED
            BY <3>1, <3>4, Zenon
    <2> HIDE DEF S
    <2>3. \A k \in 0..n : k \in S
        BY <1>0, <2>1, <2>2, BoundedInduction, Zenon
    <2>4. \A k \in 0..n : r[k] \in St
        BY <2>3, Zenon DEF S
    <2> QED
        BY <2>4, Zenon
<1> HIDE DEF r
<1> QED
    BY <1>1, <1>7, <1>8, <1>9, <1>10, Zenon DEF EncodeByteRuns, n

(* The fold in the decoder. *)
FoldDecode(dst_len, base, seq) ==
    LET Step(state, d) == DecodeCharacter(dst_len, state, d) IN FoldLeft(Step, base, seq)

(* The states that a fold of DecodeCharacter goes through. *)
DecodeCharacterRuns(r, dst_len, base, seq, St) ==
    /\ r \in [0..Len(seq) -> St] /\ r[0] = base
    /\ \A k \in 1..Len(seq) : r[k] = DecodeCharacter(dst_len, r[k - 1], seq[k])

LEMMA DecodeCharacterFold ==
    ASSUME NEW dst_len, NEW E, NEW seq \in Seq(E), NEW St, NEW base \in St,
           \A state \in St : \A e \in E : DecodeCharacter(dst_len, state, e) \in St
    PROVE  \E r : /\ DecodeCharacterRuns(r, dst_len, base, seq, St)
                 /\ r[Len(seq)] = FoldDecode(dst_len, base, seq)
<1> DEFINE n == Len(seq)
           Is(g) == g = [s \in SUBSET (DOMAIN seq) |-> IF s = {} THEN base
                           ELSE DecodeCharacter(dst_len, g[s \ {Max(s)}], seq[Max(s)])]
           iter == CHOOSE g : Is(g)
           step == [x \in (1..n) \X St |-> DecodeCharacter(dst_len, x[2], seq[x[1]])]
           r == [k \in 0..n |-> iter[1..k]]
<1>0. n \in Nat /\ DOMAIN seq = 1..n /\ \A i \in 1..n : seq[i] \in E
    BY SMT
<1>1. FoldDecode(dst_len, base, seq) = iter[DOMAIN seq]
    BY Zenon DEF FoldDecode, FoldLeft, MapThenFoldSet
<1>2. step \in [(1..n) \X St -> St]
    <2>1. \A x \in (1..n) \X St : DecodeCharacter(dst_len, x[2], seq[x[1]]) \in St
        <3> HIDE DEF n
        <3>1. \A x \in (1..n) \X St : x[2] \in St /\ seq[x[1]] \in E
            BY <1>0, SMT
        <3> QED
            BY <3>1, Zenon
    <2> QED
        BY <2>1, Zenon
<1>3. PICK g \in [SUBSET (1..n) -> St] : IteratesFold(g, n, base, step)
    <2> HIDE DEF n, step
    <2> QED
        BY <1>0, <1>2, FoldExists, Zenon
<1>4. Is(g)
    <2>1. ASSUME NEW s \in SUBSET (1..n), s # {}
          PROVE  g[s] = DecodeCharacter(dst_len, g[s \ {Max(s)}], seq[Max(s)])
        <3>1. Max(s) \in 1..n
            <4> HIDE DEF n
            <4>1. Max(s) \in s
                BY <1>0, <2>1, MaxOfIndices, Zenon
            <4> QED
                BY <4>1, Zenon
        <3>2. g[s \ {Max(s)}] \in St
            <4>1. s \ {Max(s)} \in SUBSET (1..n)
                BY Zenon
            <4> QED
                BY <4>1, Zenon
        <3>3. g[s] = step[<<Max(s), g[s \ {Max(s)}]>>]
            BY <1>3, <2>1, Zenon DEF IteratesFold
        <3> HIDE DEF n
        <3>4. <<Max(s), g[s \ {Max(s)}]>> \in (1..n) \X St
            BY <3>1, <3>2, SMT
        <3> QED
            BY <3>3, <3>4, SMT
    <2>2. g[{}] = base
        <3>1. {} \in SUBSET (1..n)
            BY Zenon
        <3> QED
            BY <1>3, <3>1, Zenon DEF IteratesFold
    <2>3. g = [s \in SUBSET (1..n) |-> g[s]]
        BY Zenon
    <2> HIDE DEF n
    <2> QED
        BY <1>0, <2>1, <2>2, <2>3, Zenon
<1>5. Is(iter)
    <2> HIDE DEF Is
    <2> QED
        BY <1>4, Zenon
<1> HIDE DEF iter, n
<1>6. /\ iter[{}] = base
      /\ \A s \in SUBSET (1..n) : s # {} => iter[s] = DecodeCharacter(dst_len, iter[s \ {Max(s)}], seq[Max(s)])
    <2>1. \A s \in SUBSET (1..n) :
             iter[s] = IF s = {} THEN base ELSE DecodeCharacter(dst_len, iter[s \ {Max(s)}], seq[Max(s)])
        BY <1>0, <1>5, Zenon
    <2>2. {} \in SUBSET (1..n)
        BY Zenon
    <2> QED
        BY <2>1, <2>2, Zenon
<1> HIDE DEF Is
<1>7. ASSUME NEW k \in 1..n PROVE r[k] = DecodeCharacter(dst_len, r[k - 1], seq[k])
    <2>1. /\ Max(1..k) = k /\ (1..k) \ {k} = 1..(k - 1)
          /\ 1..k \in SUBSET (1..n) /\ 1..k # {}
        BY <1>0, Intervals
    <2>2. iter[1..k] = DecodeCharacter(dst_len, iter[1..(k - 1)], seq[k])
        BY <1>6, <2>1, Zenon
    <2>3. k \in 0..n /\ k - 1 \in 0..n
        BY <1>0, SMT
    <2>4. r[k] = iter[1..k] /\ r[k - 1] = iter[1..(k - 1)]
        BY <2>3, Zenon
    <2> QED
        BY <2>2, <2>4, Zenon
<1>8. r[0] = base
    <2>1. 1..0 = {} /\ 0 \in 0..n
        BY <1>0, SMT
    <2>2. r[0] = iter[1..0]
        BY <2>1, Zenon
    <2> QED
        BY <1>6, <2>1, <2>2, Zenon
<1>9. r[n] = iter[DOMAIN seq]
    <2>1. n \in 0..n
        BY <1>0, SMT
    <2> QED
        BY <1>0, <2>1, Zenon
<1>10. r \in [0..n -> St]
    <2> DEFINE S == {k \in 0..n : r[k] \in St}
    <2>1. 0 \in S
        BY <1>0, <1>8, SMT
    <2>2. ASSUME NEW k \in 0..(n - 1), k \in S PROVE k + 1 \in S
        <3>1. k + 1 \in 1..n /\ k + 1 \in 0..n /\ (k + 1) - 1 = k
            BY <1>0, SMT
        <3>2. r[k + 1] = DecodeCharacter(dst_len, r[k], seq[k + 1])
            BY <1>7, <3>1, Zenon
        <3>3. r[k] \in St /\ seq[k + 1] \in E
            BY <1>0, <2>2, <3>1, Zenon
        <3> HIDE DEF r
        <3>4. r[k + 1] \in St
            BY <3>2, <3>3, Zenon
        <3> QED
            BY <3>1, <3>4, Zenon
    <2> HIDE DEF S
    <2>3. \A k \in 0..n : k \in S
        BY <1>0, <2>1, <2>2, BoundedInduction, Zenon
    <2>4. \A k \in 0..n : r[k] \in St
        BY <2>3, Zenon DEF S
    <2> QED
        BY <2>4, Zenon
<1> HIDE DEF r
<1> QED
    BY <1>1, <1>7, <1>8, <1>9, <1>10, Zenon DEF DecodeCharacterRuns, n

-----------------------------------------------------------------------------
(* Encoding, character by character. *)
Triples == {t \in Seq(Octets) : Len(t) = 3}
BlockStates == [acc : Nat, acc_len : {0}, out : Seq(Digits)]
Encoder == [acc |-> 0, acc_len |-> 0, out |-> <<>>]
BlockDigitsOf(t) == <<D1(t[1]), D2(t[1], t[2]), D3(t[2], t[3]), D4(t[3])>>

LEMMA TripleIsOctets == \A t \in Triples : t[1] \in Octets /\ t[2] \in Octets /\ t[3] \in Octets
<1> SUFFICES ASSUME NEW t \in Triples PROVE t[1] \in Octets /\ t[2] \in Octets /\ t[3] \in Octets
    BY Zenon
<1>1. t \in Seq(Octets) /\ Len(t) = 3
    BY Zenon DEF Triples
<1>2. 1 \in 1..Len(t) /\ 2 \in 1..Len(t) /\ 3 \in 1..Len(t)
    BY <1>1, SMT
<1> QED
    BY <1>1, <1>2, ElementOfSeq, Zenon

LEMMA BlockDigitsType == \A t \in Triples : BlockDigitsOf(t) \in Seq(Digits) /\ Len(BlockDigitsOf(t)) = 4
<1> SUFFICES ASSUME NEW t \in Triples PROVE BlockDigitsOf(t) \in Seq(Digits) /\ Len(BlockDigitsOf(t)) = 4
    BY Zenon
<1>1. t[1] \in Octets /\ t[2] \in Octets /\ t[3] \in Octets
    BY TripleIsOctets, Zenon
<1>2. /\ D1(t[1]) \in Digits /\ D2(t[1], t[2]) \in Digits
      /\ D3(t[2], t[3]) \in Digits /\ D4(t[3]) \in Digits
    BY <1>1, DigitTypes, Zenon
<1> QED
    BY <1>2, SMT DEF BlockDigitsOf

LEMMA EncodeBlockStep ==
    CodeWidths => \A state \in BlockStates : \A t \in Triples :
       /\ EncodeBlock(state, t) \in BlockStates
       /\ EncodeBlock(state, t).out = state.out \o BlockDigitsOf(t)
<1> SUFFICES ASSUME CodeWidths, NEW state \in BlockStates, NEW t \in Triples
             PROVE  /\ EncodeBlock(state, t) \in BlockStates
                    /\ EncodeBlock(state, t).out = state.out \o BlockDigitsOf(t)
    BY Zenon
<1> DEFINE w == Shift(Shift(Shift(state.acc, t[1]), t[2]), t[3])
<1>1. state.acc \in Nat /\ state.out \in Seq(Digits)
    BY Zenon DEF BlockStates
<1>2. HoldsBlock(w, t[1], t[2], t[3])
    BY <1>1, TripleIsOctets, BlockWord, Zenon
<1>3. EncodeBlock(state, t) = [acc |-> w, acc_len |-> 0, out |-> state.out \o Characters(w, 3 * BYTE_BITS)]
    BY Zenon DEF EncodeBlock
<1> HIDE DEF w
<1>4. Characters(w, 3 * BYTE_BITS) = BlockDigitsOf(t)
    BY <1>2, TripleIsOctets, BlockCharacters, Zenon DEF BlockIsEncoded, BlockDigitsOf
<1>5. w \in Nat
    BY <1>2, SMT DEF HoldsBlock
<1>6. state.out \o BlockDigitsOf(t) \in Seq(Digits)
    BY <1>1, BlockDigitsType, ConcatProperties, Zenon
<1>7. EncodeBlock(state, t) = [acc |-> w, acc_len |-> 0, out |-> state.out \o BlockDigitsOf(t)]
    BY <1>3, <1>4, Zenon
<1> QED
    BY <1>5, <1>6, <1>7, SMT DEF BlockStates

(* The four digits of block q of s. *)
BlockAt(out, s, q) ==
    /\ out[4 * q + 1] = D1(s[3 * q + 1])
    /\ out[4 * q + 2] = D2(s[3 * q + 1], s[3 * q + 2])
    /\ out[4 * q + 3] = D3(s[3 * q + 2], s[3 * q + 3])
    /\ out[4 * q + 4] = D4(s[3 * q + 3])

BlocksUpTo(out, s, k) ==
    /\ out \in Seq(Digits) /\ Len(out) = 4 * k
    /\ \A q \in 0..(k - 1) : BlockAt(out, s, q)

BlocksOf(s) == [i \in 1..(Len(s) \div 3) |-> SubSeq(s, 3 * i - 2, 3 * i)]

LEMMA BlocksAreTriples ==
    ASSUME NEW s \in Seq(Octets)
    PROVE  /\ Len(s) \div 3 \in Nat /\ BlocksOf(s) \in Seq(Triples) /\ Len(BlocksOf(s)) = Len(s) \div 3
           /\ \A i \in 1..(Len(s) \div 3) :
                /\ BlocksOf(s)[i][1] = s[3 * (i - 1) + 1] /\ BlocksOf(s)[i][2] = s[3 * (i - 1) + 2]
                /\ BlocksOf(s)[i][3] = s[3 * (i - 1) + 3]
<1> DEFINE n == Len(s) \div 3
<1>1. Len(s) \in Nat /\ n \in Nat /\ 3 * n <= Len(s)
    BY SMT
<1>2. ASSUME NEW i \in 1..n
      PROVE  /\ SubSeq(s, 3 * i - 2, 3 * i) \in Triples
             /\ SubSeq(s, 3 * i - 2, 3 * i)[1] = s[3 * (i - 1) + 1]
             /\ SubSeq(s, 3 * i - 2, 3 * i)[2] = s[3 * (i - 1) + 2]
             /\ SubSeq(s, 3 * i - 2, 3 * i)[3] = s[3 * (i - 1) + 3]
    <2> DEFINE a == 3 * i - 2
               b == 3 * i
    <2>1. a \in Int /\ b \in Int /\ a >= 1 /\ b <= Len(s) /\ b - a + 1 = 3 /\ a <= b
        BY <1>1, SMT
    <2>2. a + 1 - 1 = 3 * (i - 1) + 1 /\ a + 2 - 1 = 3 * (i - 1) + 2 /\ a + 3 - 1 = 3 * (i - 1) + 3
        BY <1>1, SMT
    <2> HIDE DEF a, b, n
    <2>3. \A j \in a..b : s[j] \in Octets
        <3>1. \A j \in a..b : j \in 1..Len(s)
            BY <1>1, <2>1, SMT
        <3> QED
            BY <3>1, ElementOfSeq, Zenon
    <2>4. /\ SubSeq(s, a, b) \in Seq(Octets)
          /\ Len(SubSeq(s, a, b)) = IF a <= b THEN b - a + 1 ELSE 0
          /\ \A j \in 1..(b - a + 1) : SubSeq(s, a, b)[j] = s[a + j - 1]
        BY <2>1, <2>3, SubSeqProperties, SMT
    <2>5. Len(SubSeq(s, a, b)) = 3
        BY <2>1, <2>4, SMT
    <2>6. \A j \in 1..3 : SubSeq(s, a, b)[j] = s[a + j - 1]
        BY <2>1, <2>4, Zenon
    <2>7. 1 \in 1..3 /\ 2 \in 1..3 /\ 3 \in 1..3
        BY SMT
    <2>8. /\ SubSeq(s, a, b)[1] = s[a + 1 - 1] /\ SubSeq(s, a, b)[2] = s[a + 2 - 1]
          /\ SubSeq(s, a, b)[3] = s[a + 3 - 1]
        BY <2>6, <2>7, Zenon
    <2>9. SubSeq(s, a, b) \in Triples
        BY <2>4, <2>5, Zenon DEF Triples
    <2> QED
        BY <2>2, <2>8, <2>9, Zenon DEF a, b
<1>3. BlocksOf(s) = [i \in 1..n |-> SubSeq(s, 3 * i - 2, 3 * i)]
    BY Zenon DEF BlocksOf
<1> HIDE DEF n
<1>4. BlocksOf(s) \in [1..n -> Triples]
    BY <1>2, <1>3, Zenon
<1>5. BlocksOf(s) \in Seq(Triples) /\ Len(BlocksOf(s)) = n
    BY <1>1, <1>4, FunctionIsSequence, Zenon
<1>6. \A i \in 1..n : BlocksOf(s)[i] = SubSeq(s, 3 * i - 2, 3 * i)
    BY <1>3, Zenon
<1>7. \A i \in 1..n :
         /\ BlocksOf(s)[i][1] = s[3 * (i - 1) + 1] /\ BlocksOf(s)[i][2] = s[3 * (i - 1) + 2]
         /\ BlocksOf(s)[i][3] = s[3 * (i - 1) + 3]
    BY <1>2, <1>6, Zenon
<1> QED
    BY <1>1, <1>5, <1>7, Zenon DEF n

(* One more block. *)
LEMMA OneMoreBlock ==
    ASSUME NEW out, NEW s, NEW k \in Nat, BlocksUpTo(out, s, k), NEW t \in Triples,
           t[1] = s[3 * k + 1], t[2] = s[3 * k + 2], t[3] = s[3 * k + 3]
    PROVE  BlocksUpTo(out \o BlockDigitsOf(t), s, k + 1)
<1> DEFINE e == BlockDigitsOf(t)
           r == out \o e
<1>1. /\ out \in Seq(Digits) /\ Len(out) = 4 * k
      /\ \A q \in 0..(k - 1) : BlockAt(out, s, q)
    BY Zenon DEF BlocksUpTo
<1>2. e \in Seq(Digits) /\ Len(e) = 4
    BY BlockDigitsType, Zenon
<1>3. /\ e[1] = D1(t[1]) /\ e[2] = D2(t[1], t[2])
      /\ e[3] = D3(t[2], t[3]) /\ e[4] = D4(t[3])
    BY SMT DEF BlockDigitsOf
<1> HIDE DEF e
<1>4. /\ r \in Seq(Digits) /\ Len(r) = Len(out) + Len(e)
      /\ \A i \in 1..(Len(out) + Len(e)) : r[i] = IF i <= Len(out) THEN out[i] ELSE e[i - Len(out)]
    BY <1>1, <1>2, ConcatProperties, Zenon
<1> HIDE DEF r
<1>5. Len(r) = 4 * (k + 1)
    BY <1>1, <1>2, <1>4, SMT
<1>6. \A i \in 1..(4 * k) : r[i] = out[i]
    BY <1>1, <1>2, <1>4, SMT
<1>7. r[4 * k + 1] = e[1] /\ r[4 * k + 2] = e[2] /\ r[4 * k + 3] = e[3] /\ r[4 * k + 4] = e[4]
    BY <1>1, <1>2, <1>4, SMT
<1>8. ASSUME NEW q \in 0..(k - 1) PROVE BlockAt(r, s, q)
    <2>1. /\ 4 * q + 1 \in 1..(4 * k) /\ 4 * q + 2 \in 1..(4 * k)
          /\ 4 * q + 3 \in 1..(4 * k) /\ 4 * q + 4 \in 1..(4 * k)
        BY SMT
    <2>2. /\ r[4 * q + 1] = out[4 * q + 1] /\ r[4 * q + 2] = out[4 * q + 2]
          /\ r[4 * q + 3] = out[4 * q + 3] /\ r[4 * q + 4] = out[4 * q + 4]
        BY <1>6, <2>1, Zenon
    <2>3. BlockAt(out, s, q)
        BY <1>1, Zenon
    <2> QED
        BY <2>2, <2>3, Zenon DEF BlockAt
<1>9. BlockAt(r, s, k)
    BY <1>3, <1>7, Zenon DEF BlockAt
<1>10. \A q \in 0..((k + 1) - 1) : q = k \/ q \in 0..(k - 1)
    BY SMT
<1>11. \A q \in 0..((k + 1) - 1) : BlockAt(r, s, q)
    BY <1>8, <1>9, <1>10, Zenon
<1> QED
    BY <1>4, <1>5, <1>11, Zenon DEF BlocksUpTo, r, e

(* The unrolled loop encodes all whole blocks. *)
LEMMA BlocksAreEncoded ==
    ASSUME CodeWidths, NEW s \in Seq(Octets)
    PROVE  /\ FoldLeft(EncodeBlock, Encoder, BlocksOf(s)) \in BlockStates
           /\ BlocksUpTo(FoldLeft(EncodeBlock, Encoder, BlocksOf(s)).out, s, Len(s) \div 3)
<1> DEFINE n == Len(s) \div 3
           b == BlocksOf(s)
<1>1. /\ n \in Nat /\ b \in Seq(Triples) /\ Len(b) = n
      /\ \A i \in 1..n : /\ b[i][1] = s[3 * (i - 1) + 1] /\ b[i][2] = s[3 * (i - 1) + 2]
                         /\ b[i][3] = s[3 * (i - 1) + 3]
    BY BlocksAreTriples, Zenon
<1>2. Encoder \in BlockStates
    BY SMT DEF Encoder, BlockStates
<1> HIDE DEF n, b
<1>3. \A state \in BlockStates : \A t \in Triples : EncodeBlock(state, t) \in BlockStates
    BY EncodeBlockStep, Zenon
<1>4. PICK r : /\ EncodeBlockRuns(r, Encoder, b, BlockStates)
               /\ r[Len(b)] = FoldLeft(EncodeBlock, Encoder, b)
    BY <1>1, <1>2, <1>3, EncodeBlockFold, Zenon
<1>5. /\ r \in [0..n -> BlockStates] /\ r[0] = Encoder
      /\ \A k \in 1..n : r[k] = EncodeBlock(r[k - 1], b[k])
    BY <1>1, <1>4, Zenon DEF EncodeBlockRuns
<1> DEFINE S == {k \in 0..n : BlocksUpTo(r[k].out, s, k)}
<1>6. 0 \in S
    <2>1. 0 \in 0..n /\ 0..(0 - 1) = {} /\ 4 * 0 = 0
        BY <1>1, SMT
    <2>2. Encoder.out = <<>> /\ <<>> \in Seq(Digits) /\ Len(<<>>) = 0
        BY SMT DEF Encoder
    <2> QED
        BY <1>5, <2>1, <2>2, Zenon DEF BlocksUpTo
<1>7. ASSUME NEW k \in 0..(n - 1), k \in S PROVE k + 1 \in S
    <2>1. k \in Nat /\ k \in 0..n /\ k + 1 \in 1..n /\ k + 1 \in 0..n /\ (k + 1) - 1 = k
        BY <1>1, SMT
    <2>2. BlocksUpTo(r[k].out, s, k)
        BY <1>7, Zenon
    <2> DEFINE t == b[k + 1]
    <2>3. r[k + 1] = EncodeBlock(r[k], t) /\ r[k] \in BlockStates
        BY <1>5, <2>1, Zenon
    <2>4. t \in Triples /\ t[1] = s[3 * k + 1] /\ t[2] = s[3 * k + 2] /\ t[3] = s[3 * k + 3]
        <3>1. k + 1 \in 1..Len(b)
            BY <1>1, <2>1, Zenon
        <3>2. b[k + 1] \in Triples
            BY <1>1, <3>1, ElementOfSeq, Zenon
        <3>3. /\ b[k + 1][1] = s[3 * ((k + 1) - 1) + 1] /\ b[k + 1][2] = s[3 * ((k + 1) - 1) + 2]
              /\ b[k + 1][3] = s[3 * ((k + 1) - 1) + 3]
            BY <1>1, <2>1, Zenon
        <3> QED
            BY <2>1, <3>2, <3>3, Zenon
    <2> HIDE DEF t
    <2>5. r[k + 1].out = r[k].out \o BlockDigitsOf(t)
        BY <2>3, <2>4, EncodeBlockStep, Zenon
    <2>6. BlocksUpTo(r[k].out \o BlockDigitsOf(t), s, k + 1)
        BY <2>1, <2>2, <2>4, OneMoreBlock, Zenon
    <2> QED
        BY <2>1, <2>5, <2>6, Zenon
<1> HIDE DEF S
<1>8. \A k \in 0..n : k \in S
    BY <1>1, <1>6, <1>7, BoundedInduction, Zenon
<1>9. n \in 0..n
    BY <1>1, SMT
<1>10. BlocksUpTo(r[n].out, s, n) /\ r[n] \in BlockStates
    BY <1>5, <1>8, <1>9, Zenon DEF S
<1> QED
    BY <1>1, <1>4, <1>10, Zenon DEF n, b

(* The bytes that remain. *)
ByteStates == [acc : Nat, acc_len : {0, 2, 4}, out : Seq(Digits)]

LEMMA CharactersType ==
    CodeWidths => \A acc \in Nat : \A acc_len \in {8, 10, 12} : Characters(acc, acc_len) \in Seq(Digits)
<1> SUFFICES ASSUME CodeWidths, NEW acc \in Nat, NEW acc_len \in {8, 10, 12}
             PROVE  Characters(acc, acc_len) \in Seq(Digits)
    BY Zenon
<1>1. CHAR_BITS = 6 /\ 2^CHAR_BITS = 64
    BY Widths, SMT
<1> DEFINE n == acc_len \div CHAR_BITS
<1>2. Characters(acc, acc_len) = [k \in 1..n |-> (acc \div 2^(acc_len - k * 6)) % 64]
    BY <1>1, SMT DEF Characters
<1>3. n \in Nat /\ (acc_len = 8 \/ acc_len = 10 => n = 1) /\ (acc_len = 12 => n = 2)
    BY <1>1, SMT
<1> HIDE DEF n
<1>4. ASSUME NEW k \in 1..n PROVE (acc \div 2^(acc_len - k * 6)) % 64 \in Digits
    <2>1. \/ (acc_len = 8 /\ k = 1)
          \/ (acc_len = 10 /\ k = 1)
          \/ (acc_len = 12 /\ k = 1)
          \/ (acc_len = 12 /\ k = 2)
        BY <1>3, SMT
    <2> DEFINE e == acc_len - k * 6
               p == 2^e
    <2>2. e = 2 \/ e = 4 \/ e = 6 \/ e = 0
        BY <2>1, SMT
    <2>3. 2^2 = 4 /\ 2^4 = 16 /\ 2^6 = 64 /\ 2^0 = 1
        BY SMT
    <2> HIDE DEF e
    <2>4. p = 4 \/ p = 16 \/ p = 64 \/ p = 1
        BY <2>2, <2>3, Zenon
    <2> HIDE DEF p
    <2>5. (acc \div p) % 64 \in Digits
        BY <2>4, SMT DEF Digits
    <2> QED
        BY <2>5, Zenon DEF p, e
<1>5. Characters(acc, acc_len) \in [1..n -> Digits]
    BY <1>2, <1>4, Zenon
<1> QED
    BY <1>3, <1>5, FunctionIsSequence, Zenon

LEMMA EncodeByteIs ==
    CodeWidths => \A state, x :
       EncodeByte(state, x) = [acc |-> Shift(state.acc, x), acc_len |-> (state.acc_len + 8) % 6,
                               out |-> state.out \o Characters(Shift(state.acc, x), state.acc_len + 8)]
<1>1. CodeWidths => BYTE_BITS = 8 /\ CHAR_BITS = 6
    BY Widths, SMT
<1> QED
    BY <1>1, Zenon DEF EncodeByte

LEMMA EncodeByteType ==
    CodeWidths => \A state \in ByteStates : \A x \in Octets : EncodeByte(state, x) \in ByteStates
<1> SUFFICES ASSUME CodeWidths, NEW state \in ByteStates, NEW x \in Octets
             PROVE  EncodeByte(state, x) \in ByteStates
    BY Zenon
<1>1. state.acc \in Nat /\ state.acc_len \in {0, 2, 4} /\ state.out \in Seq(Digits)
    BY SMT DEF ByteStates
<1> DEFINE w == Shift(state.acc, x)
           acc_len == state.acc_len + 8
           cs == Characters(w, acc_len)
<1>2. w \in Nat
    <2>1. Keeps(w, state.acc, x)
        BY <1>1, ShiftKeeps, Zenon
    <2> QED
        BY <2>1, SMT DEF Keeps
<1>3. acc_len \in {8, 10, 12} /\ acc_len % 6 \in {0, 2, 4}
    BY <1>1, SMT
<1>4. EncodeByte(state, x) = [acc |-> w, acc_len |-> acc_len % 6, out |-> state.out \o cs]
    BY EncodeByteIs, Zenon
<1> HIDE DEF w, acc_len
<1>5. state.out \o cs \in Seq(Digits)
    <2>1. cs \in Seq(Digits)
        BY <1>2, <1>3, CharactersType, Zenon
    <2> QED
        BY <1>1, <2>1, ConcatProperties, Zenon
<1> HIDE DEF cs
<1> QED
    BY <1>2, <1>3, <1>4, <1>5, SMT DEF ByteStates

RestOf(s) == SubSeq(s, 3 * (Len(s) \div 3) + 1, Len(s))

LEMMA RestIsShort ==
    ASSUME NEW s \in Seq(Octets)
    PROVE  LET b == Len(s) \div 3
           IN  /\ b \in Nat /\ Len(s) = 3 * b + (Len(s) % 3) /\ Len(s) % 3 \in 0..2
               /\ RestOf(s) \in Seq(Octets) /\ Len(RestOf(s)) = Len(s) % 3
               /\ Len(s) % 3 >= 1 => RestOf(s)[1] = s[3 * b + 1]
               /\ Len(s) % 3 = 2 => RestOf(s)[2] = s[3 * b + 2]
<1> DEFINE b == Len(s) \div 3
           a == 3 * b + 1
           n == Len(s)
           m == n % 3
           t == SubSeq(s, a, n)
<1>1. n \in Nat /\ b \in Nat /\ n = 3 * b + m /\ m \in 0..2 /\ a \in Int /\ n \in Int /\ a >= 1
    BY SMT
<1>2. \A j \in a..n : s[j] \in Octets
    <2>1. \A j \in a..n : j \in 1..Len(s)
        BY <1>1, SMT
    <2> QED
        BY <2>1, ElementOfSeq, Zenon
<1>3. RestOf(s) = t
    BY Zenon DEF RestOf
<1>4. n - a + 1 = m /\ a + 1 - 1 = 3 * b + 1 /\ a + 2 - 1 = 3 * b + 2 /\ (m = 0 <=> n < a)
    BY <1>1, SMT
<1> HIDE DEF a, n, m, b
<1>5. /\ t \in Seq(Octets) /\ Len(t) = IF a <= n THEN n - a + 1 ELSE 0
      /\ \A i \in 1..(n - a + 1) : t[i] = s[a + i - 1]
    BY <1>1, <1>2, SubSeqProperties, SMT
<1> HIDE DEF t
<1>6. Len(t) = m
    BY <1>1, <1>4, <1>5, SMT
<1>7. \A i \in 1..m : t[i] = s[a + i - 1]
    BY <1>4, <1>5, Zenon
<1>8. (m >= 1 => 1 \in 1..m) /\ (m = 2 => 2 \in 1..m)
    BY <1>1, SMT
<1>9. (m >= 1 => t[1] = s[3 * b + 1]) /\ (m = 2 => t[2] = s[3 * b + 2])
    BY <1>4, <1>7, <1>8, Zenon
<1> QED
    BY <1>1, <1>3, <1>5, <1>6, <1>9, Zenon DEF b, n, m

(* What the encoder writes behind the blocks. *)
LastDigits(t) ==
    CASE Len(t) = 0 -> <<>>
      [] Len(t) = 1 -> <<D1(t[1]), D2(t[1], 0)>>
      [] OTHER -> <<D1(t[1]), D2(t[1], t[2]), D3(t[2], 0)>>

LastOf(state) ==
    IF state.acc_len = 0 THEN <<>>
    ELSE <<(state.acc * 2^(CHAR_BITS - state.acc_len)) % 2^CHAR_BITS>>

JoinsThree(out, d, e, f) == ((out \o <<d>>) \o <<e>>) \o <<f>> = out \o <<d, e, f>>

LEMMA JoinDigits ==
    \A out \in Seq(Digits) : \A d, e, f \in Digits :
       /\ (out \o <<d>>) \o <<e>> = out \o <<d, e>>
       /\ JoinsThree(out, d, e, f)
       /\ out \o <<>> = out
<1> SUFFICES ASSUME NEW out \in Seq(Digits), NEW d \in Digits, NEW e \in Digits, NEW f \in Digits
             PROVE  /\ (out \o <<d>>) \o <<e>> = out \o <<d, e>>
                    /\ ((out \o <<d>>) \o <<e>>) \o <<f>> = out \o <<d, e, f>>
                    /\ out \o <<>> = out
    BY Zenon DEF JoinsThree
<1> DEFINE D == <<d>>
           E == <<e>>
           F == <<f>>
           DE == <<d, e>>
           DEF2 == <<d, e, f>>
<1>1. /\ D \in Seq(Digits) /\ E \in Seq(Digits) /\ F \in Seq(Digits)
      /\ DE \in Seq(Digits) /\ DEF2 \in Seq(Digits)
    BY SMT
<1>2. Len(D) = 1 /\ Len(E) = 1 /\ Len(F) = 1 /\ Len(DE) = 2 /\ Len(DEF2) = 3
    BY SMT
<1>3. /\ D[1] = d /\ E[1] = e /\ F[1] = f /\ DE[1] = d /\ DE[2] = e
      /\ DEF2[1] = d /\ DEF2[2] = e /\ DEF2[3] = f
    BY SMT
<1> HIDE DEF D, E, F, DE, DEF2
<1>4. D \o E = DE
    <2>1. /\ D \o E \in Seq(Digits) /\ Len(D \o E) = Len(D) + Len(E)
          /\ \A i \in 1..(Len(D) + Len(E)) : (D \o E)[i] = IF i <= Len(D) THEN D[i] ELSE E[i - Len(D)]
        BY <1>1, ConcatProperties, Zenon
    <2>2. Len(D \o E) = 2 /\ \A i \in 1..2 : (D \o E)[i] = DE[i]
        BY <1>2, <1>3, <2>1, SMT
    <2> QED
        BY <1>1, <1>2, <2>1, <2>2, SeqEqual, Zenon
<1>5. DE \o F = DEF2
    <2>1. /\ DE \o F \in Seq(Digits) /\ Len(DE \o F) = Len(DE) + Len(F)
          /\ \A i \in 1..(Len(DE) + Len(F)) : (DE \o F)[i] = IF i <= Len(DE) THEN DE[i] ELSE F[i - Len(DE)]
        BY <1>1, ConcatProperties, Zenon
    <2>2. Len(DE \o F) = 3 /\ \A i \in 1..3 : (DE \o F)[i] = DEF2[i]
        BY <1>2, <1>3, <2>1, SMT
    <2> QED
        BY <1>1, <1>2, <2>1, <2>2, SeqEqual, Zenon
<1>a. Associative(Digits)
    BY ConcatIsAssociative, Zenon
<1>6. (out \o D) \o E = out \o (D \o E)
    BY <1>1, <1>a, Zenon DEF Associative
<1>7. (out \o DE) \o F = out \o (DE \o F)
    BY <1>1, <1>a, Zenon DEF Associative
<1>8. out \o <<>> = out
    BY ConcatEmptySeq, Zenon
<1>9. (out \o D) \o E = out \o DE /\ ((out \o D) \o E) \o F = out \o DEF2
    BY <1>4, <1>5, <1>6, <1>7, Zenon
<1> QED
    BY <1>8, <1>9, Zenon DEF D, E, F, DE, DEF2

LEMMA RestIsEncoded ==
    ASSUME CodeWidths, NEW full \in BlockStates, NEW t \in Seq(Octets), Len(t) \in 0..2
    PROVE  /\ FoldLeft(EncodeByte, full, t).out \o LastOf(FoldLeft(EncodeByte, full, t))
                = full.out \o LastDigits(t)
           /\ LastDigits(t) \in Seq(Digits)
           /\ Len(LastDigits(t)) = IF Len(t) = 0 THEN 0 ELSE Len(t) + 1
<1>1. full.acc \in Nat /\ full.acc_len = 0 /\ full.out \in Seq(Digits)
    BY SMT DEF BlockStates
<1>2. full \in ByteStates
    BY SMT DEF BlockStates, ByteStates
<1>3. \A state \in ByteStates : \A x \in Octets : EncodeByte(state, x) \in ByteStates
    BY EncodeByteType, Zenon
<1>4. PICK r : /\ EncodeByteRuns(r, full, t, ByteStates)
               /\ r[Len(t)] = FoldLeft(EncodeByte, full, t)
    BY <1>2, <1>3, EncodeByteFold, Zenon
<1>5. /\ r \in [0..Len(t) -> ByteStates] /\ r[0] = full
      /\ \A k \in 1..Len(t) : r[k] = EncodeByte(r[k - 1], t[k])
    BY <1>4, Zenon DEF EncodeByteRuns
<1> DEFINE Goal == /\ r[Len(t)].out \o LastOf(r[Len(t)]) = full.out \o LastDigits(t)
                   /\ LastDigits(t) \in Seq(Digits)
                   /\ Len(LastDigits(t)) = IF Len(t) = 0 THEN 0 ELSE Len(t) + 1
<1>0. 0 \in Octets
    BY SMT DEF Octets
<1>6. ASSUME Len(t) = 0 PROVE Goal
    <2>1. LastDigits(t) = <<>>
        BY <1>6, SMT DEF LastDigits
    <2>2. LastOf(full) = <<>>
        BY <1>1, Zenon DEF LastOf
    <2>3. <<>> \in Seq(Digits) /\ Len(<<>>) = 0
        BY SMT
    <2> QED
        BY <1>5, <1>6, <2>1, <2>2, <2>3, Zenon
<1> DEFINE x == t[1]
           y == t[2]
           v == Shift(full.acc, x)
           w == Shift(v, y)
<1>7. ASSUME Len(t) >= 1
      PROVE  /\ x \in Octets /\ Keeps(v, full.acc, x)
             /\ r[1] = [acc |-> v, acc_len |-> 2, out |-> full.out \o <<D1(x)>>]
    <2>1. 1 \in 1..Len(t) /\ 1 - 1 = 0
        BY <1>7, SMT
    <2>2. x \in Octets
        BY <2>1, ElementOfSeq, Zenon
    <2>3. Keeps(v, full.acc, x)
        BY <1>1, <2>2, ShiftKeeps, Zenon
    <2>4. r[1] = EncodeByte(full, x)
        BY <1>5, <2>1, Zenon
    <2>5. 0 + 8 = 8 /\ 8 % 6 = 2
        BY SMT
    <2>6. EncodeByte(full, x) = [acc |-> v, acc_len |-> 2, out |-> full.out \o Characters(v, 8)]
        BY <1>1, <2>5, EncodeByteIs, Zenon
    <2> HIDE DEF x, v
    <2>7. Characters(v, 8) = <<D1(x)>>
        BY <2>2, <2>3, FirstByteCharacters, Zenon
    <2> QED
        BY <2>2, <2>3, <2>4, <2>6, <2>7, Zenon
<1>8. ASSUME Len(t) = 1 PROVE Goal
    <2> HIDE DEF x, v
    <2>0. Len(t) >= 1
        BY <1>8, SMT
    <2>1. /\ x \in Octets /\ Keeps(v, full.acc, x)
          /\ r[1] = [acc |-> v, acc_len |-> 2, out |-> full.out \o <<D1(x)>>]
        BY <2>0, <1>7, Zenon
    <2>2. (v * 2^(CHAR_BITS - 2)) % 2^CHAR_BITS = D2(x, 0)
        BY <2>1, FirstByteCharacters, Zenon
    <2>3. LastOf(r[1]) = <<D2(x, 0)>>
        <3>1. r[1].acc = v /\ r[1].acc_len = 2 /\ 2 # 0
            BY <2>1, SMT
        <3> QED
            BY <2>2, <3>1, Zenon DEF LastOf
    <2>4. r[1].out = full.out \o <<D1(x)>>
        BY <2>1, SMT
    <2>5. D1(x) \in Digits /\ D2(x, 0) \in Digits
        BY <1>0, <2>1, DigitTypes, Zenon
    <2>6. r[1].out \o LastOf(r[1]) = full.out \o <<D1(x), D2(x, 0)>>
        <3>1. (full.out \o <<D1(x)>>) \o <<D2(x, 0)>> = full.out \o <<D1(x), D2(x, 0)>>
            BY <1>1, <2>5, JoinDigits, Zenon
        <3> QED
            BY <2>3, <2>4, <3>1, Zenon
    <2>7. LastDigits(t) = <<D1(x), D2(x, 0)>>
        <3>1. 1 # 0
            BY SMT
        <3> QED
            BY <1>8, <3>1, SMT DEF LastDigits, x
    <2>8. <<D1(x), D2(x, 0)>> \in Seq(Digits) /\ Len(<<D1(x), D2(x, 0)>>) = 2
        BY <2>5, SMT
    <2>9. 1 + 1 = 2 /\ 1 # 0
        BY SMT
    <2> QED
        BY <1>8, <2>6, <2>7, <2>8, <2>9, Zenon
<1>9. ASSUME Len(t) = 2 PROVE Goal
    <2>0. Len(t) >= 1 /\ 2 \in 1..Len(t) /\ 2 - 1 = 1
        BY <1>9, SMT
    <2>1. y \in Octets
        BY <2>0, ElementOfSeq, Zenon
    <2>a. r[2] = EncodeByte(r[1], y)
        BY <1>5, <2>0, Zenon
    <2> HIDE DEF x, y, v
    <2>2. /\ x \in Octets /\ Keeps(v, full.acc, x)
          /\ r[1] = [acc |-> v, acc_len |-> 2, out |-> full.out \o <<D1(x)>>]
        BY <2>0, <1>7, Zenon
    <2>3. v \in Nat
        BY <2>2, SMT DEF Keeps
    <2>4. Keeps(w, v, y)
        BY <2>1, <2>3, ShiftKeeps, Zenon
    <2>5. r[1].acc = v /\ r[1].acc_len = 2 /\ r[1].out = full.out \o <<D1(x)>>
        BY <2>2, SMT
    <2>6. 2 + 8 = 10 /\ 10 % 6 = 4
        BY SMT
    <2>7. EncodeByte(r[1], y) = [acc |-> w, acc_len |-> 4, out |-> (full.out \o <<D1(x)>>) \o Characters(w, 10)]
        BY <2>5, <2>6, EncodeByteIs, Zenon
    <2> HIDE DEF w
    <2>8. Characters(w, 10) = <<D2(x, y)>> /\ (w * 2^(CHAR_BITS - 4)) % 2^CHAR_BITS = D3(y, 0)
        BY <2>1, <2>2, <2>4, SecondByteCharacters, Zenon
    <2>9. r[2] = [acc |-> w, acc_len |-> 4, out |-> (full.out \o <<D1(x)>>) \o <<D2(x, y)>>]
        BY <2>a, <2>7, <2>8, Zenon
    <2>10. r[2].acc = w /\ r[2].acc_len = 4 /\ 4 # 0 /\ r[2].out = (full.out \o <<D1(x)>>) \o <<D2(x, y)>>
        BY <2>9, SMT
    <2>11. LastOf(r[2]) = <<D3(y, 0)>>
        BY <2>8, <2>10, Zenon DEF LastOf
    <2>12. D1(x) \in Digits /\ D2(x, y) \in Digits /\ D3(y, 0) \in Digits
        BY <1>0, <2>1, <2>2, DigitTypes, Zenon
    <2>13. r[2].out \o LastOf(r[2]) = full.out \o <<D1(x), D2(x, y), D3(y, 0)>>
        <3>1. ((full.out \o <<D1(x)>>) \o <<D2(x, y)>>) \o <<D3(y, 0)>> = full.out \o <<D1(x), D2(x, y), D3(y, 0)>>
            <4>1. JoinsThree(full.out, D1(x), D2(x, y), D3(y, 0))
                BY <1>1, <2>12, JoinDigits, Zenon
            <4> QED
                BY <4>1, Zenon DEF JoinsThree
        <3> QED
            BY <2>10, <2>11, <3>1, Zenon
    <2>14. LastDigits(t) = <<D1(x), D2(x, y), D3(y, 0)>>
        BY <1>9, SMT DEF LastDigits, x, y
    <2>15. /\ <<D1(x), D2(x, y), D3(y, 0)>> \in Seq(Digits)
           /\ Len(<<D1(x), D2(x, y), D3(y, 0)>>) = 3
        BY <2>12, SMT
    <2>16. 2 + 1 = 3 /\ 2 # 0
        BY SMT
    <2> QED
        BY <1>9, <2>13, <2>14, <2>15, <2>16, Zenon
<1>10. Len(t) = 0 \/ Len(t) = 1 \/ Len(t) = 2
    BY SMT
<1>11. Goal
    <2> HIDE DEF Goal
    <2> QED
        BY <1>6, <1>8, <1>9, <1>10, Zenon
<1> QED
    BY <1>4, <1>11, Zenon

(* r is the encoding of s. *)
IsEncoding(r, s, b) ==
    /\ r \in Seq(Digits) /\ Len(r) = EncodedLength(Len(s))
    /\ b \in Nat /\ Len(s) = 3 * b + (Len(s) % 3)
    /\ \A q \in 0..(b - 1) : BlockAt(r, s, q)
    /\ Len(s) % 3 = 1 => /\ r[4 * b + 1] = D1(s[3 * b + 1])
                         /\ r[4 * b + 2] = D2(s[3 * b + 1], 0)
    /\ Len(s) % 3 = 2 => /\ r[4 * b + 1] = D1(s[3 * b + 1])
                         /\ r[4 * b + 2] = D2(s[3 * b + 1], s[3 * b + 2])
                         /\ r[4 * b + 3] = D3(s[3 * b + 2], 0)

Encoding(s) ==
    LET full == FoldLeft(EncodeBlock, Encoder, BlocksOf(s))
        rest == FoldLeft(EncodeByte, full, RestOf(s))
    IN rest.out \o LastOf(rest)

LEMMA EncodingOrNone ==
    \A dst_len, s : argon2_to_base64(dst_len, s) =
                       IF dst_len <= EncodedLength(Len(s)) THEN None ELSE Encoding(s)
BY Zenon DEF argon2_to_base64, Encoding, Encoder, BlocksOf, RestOf, LastOf

LEMMA LengthOfEncoding ==
    ASSUME NEW n \in Nat, NEW b \in Nat, n = 3 * b + (n % 3)
    PROVE  EncodedLength(n) = 4 * b + (IF n % 3 = 0 THEN 0 ELSE (n % 3) + 1)
<1>1. n \div 3 = b /\ n % 3 \in 0..2
    BY SMT
<1> QED
    BY <1>1, SMT DEF EncodedLength

LEMMA EncodingIsRight ==
    ASSUME CodeWidths, NEW s \in Seq(Octets)
    PROVE  IsEncoding(Encoding(s), s, Len(s) \div 3)
<1> DEFINE b == Len(s) \div 3
           m == Len(s) % 3
           full == FoldLeft(EncodeBlock, Encoder, BlocksOf(s))
           t == RestOf(s)
           l == LastDigits(t)
           out == full.out
           r == out \o l
<1>1. full \in BlockStates /\ BlocksUpTo(out, s, b)
    BY BlocksAreEncoded, Zenon
<1>2. /\ b \in Nat /\ Len(s) = 3 * b + m /\ m \in 0..2
      /\ t \in Seq(Octets) /\ Len(t) = m
      /\ m >= 1 => t[1] = s[3 * b + 1]
      /\ m = 2 => t[2] = s[3 * b + 2]
    BY RestIsShort, Zenon
<1> HIDE DEF full, t, b, m
<1>3. /\ FoldLeft(EncodeByte, full, t).out \o LastOf(FoldLeft(EncodeByte, full, t)) = r
      /\ l \in Seq(Digits) /\ Len(l) = IF Len(t) = 0 THEN 0 ELSE Len(t) + 1
    BY <1>1, <1>2, RestIsEncoded, Zenon
<1>4. Encoding(s) = r
    BY <1>3, Zenon DEF Encoding, full, t
<1>5. /\ out \in Seq(Digits) /\ Len(out) = 4 * b
      /\ \A q \in 0..(b - 1) : BlockAt(out, s, q)
    BY <1>1, Zenon DEF BlocksUpTo
<1>6. (m = 1 => l = <<D1(t[1]), D2(t[1], 0)>>) /\ (m = 2 => l = <<D1(t[1]), D2(t[1], t[2]), D3(t[2], 0)>>)
    BY <1>2, SMT DEF LastDigits
<1>7. /\ m = 1 => l[1] = D1(s[3 * b + 1]) /\ l[2] = D2(s[3 * b + 1], 0)
      /\ m = 2 => l[1] = D1(s[3 * b + 1]) /\ l[2] = D2(s[3 * b + 1], s[3 * b + 2]) /\ l[3] = D3(s[3 * b + 2], 0)
    <2> HIDE DEF l
    <2>0. (m = 1 => m >= 1) /\ (m = 2 => m >= 1)
        BY SMT
    <2>1. m = 1 => l[1] = D1(t[1]) /\ l[2] = D2(t[1], 0)
        BY <1>6, SMT
    <2>2. m = 2 => l[1] = D1(t[1]) /\ l[2] = D2(t[1], t[2]) /\ l[3] = D3(t[2], 0)
        BY <1>6, SMT
    <2> QED
        BY <1>2, <2>0, <2>1, <2>2, Zenon
<1> HIDE DEF l, out
<1>8. /\ r \in Seq(Digits) /\ Len(r) = Len(out) + Len(l)
      /\ \A i \in 1..(Len(out) + Len(l)) : r[i] = IF i <= Len(out) THEN out[i] ELSE l[i - Len(out)]
    BY <1>3, <1>5, ConcatProperties, Zenon
<1> HIDE DEF r
<1>9. Len(l) = (IF m = 0 THEN 0 ELSE m + 1) /\ Len(l) \in Nat
    BY <1>2, <1>3, SMT
<1>10. \A i \in 1..(4 * b) : r[i] = out[i]
    BY <1>2, <1>5, <1>8, <1>9, SMT
<1>11. /\ (m = 1 \/ m = 2) => r[4 * b + 1] = l[1] /\ r[4 * b + 2] = l[2]
       /\ m = 2 => r[4 * b + 3] = l[3]
    BY <1>2, <1>5, <1>8, <1>9, SMT
<1>12. ASSUME NEW q \in 0..(b - 1) PROVE BlockAt(r, s, q)
    <2>1. /\ 4 * q + 1 \in 1..(4 * b) /\ 4 * q + 2 \in 1..(4 * b)
          /\ 4 * q + 3 \in 1..(4 * b) /\ 4 * q + 4 \in 1..(4 * b)
        BY <1>2, SMT
    <2>2. /\ r[4 * q + 1] = out[4 * q + 1] /\ r[4 * q + 2] = out[4 * q + 2]
          /\ r[4 * q + 3] = out[4 * q + 3] /\ r[4 * q + 4] = out[4 * q + 4]
        BY <1>10, <2>1, Zenon
    <2> QED
        BY <1>5, <2>2, Zenon DEF BlockAt
<1>13. Len(r) = EncodedLength(Len(s))
    <2>1. Len(s) \in Nat
        BY SMT
    <2>2. Len(s) = 3 * b + (Len(s) % 3)
        BY <1>2, Zenon DEF m
    <2>3. EncodedLength(Len(s)) = 4 * b + (IF m = 0 THEN 0 ELSE m + 1)
        BY <1>2, <2>1, <2>2, LengthOfEncoding, Zenon DEF m
    <2> QED
        BY <1>5, <1>8, <1>9, <2>3, SMT
<1>14. IsEncoding(r, s, b)
    BY <1>2, <1>7, <1>8, <1>11, <1>12, <1>13, Zenon DEF IsEncoding, m
<1> QED
    BY <1>4, <1>14, Zenon DEF b

-----------------------------------------------------------------------------
(* Decoding, byte by byte. *)
DecodeStates == [acc : Nat, acc_len : {0, 2, 4, 6}, out : Seq(Octets),
                 status : {"decoding", "stopped", "overflow"}]
Decoder == [acc |-> 0, acc_len |-> 0, out |-> <<>>, status |-> "decoding"]
Signs == 0..64

(* The word w keeps the digits that were shifted into it last, d behind that of acc. *)
NextWord(acc, d) == (acc * 2^CHAR_BITS + d) % 2^(4 * BYTE_BITS)
KeepsDigits(w, acc, d) ==
    /\ w \in Nat /\ w % 64 = d
    /\ w % 256 = O3(acc % 64, d)
    /\ (w \div 4) % 256 = O2(acc % 64, d)
    /\ (w \div 16) % 256 = O1(acc % 64, d)

LEMMA WordKeepsDigits ==
    CodeWidths => \A acc \in Nat : \A d \in Digits : KeepsDigits(NextWord(acc, d), acc, d)
<1> SUFFICES ASSUME CodeWidths, NEW acc \in Nat, NEW d \in Digits
             PROVE  KeepsDigits(NextWord(acc, d), acc, d)
    BY Zenon
<1> DEFINE w == NextWord(acc, d)
           q == (acc * 64 + d) \div (65536 * 65536)
           a == acc \div 64
           e == acc % 64
<1>1. w = (acc * 64 + d) % (65536 * 65536)
    BY Widths, SMT DEF NextWord
<1>2. d \in 0..63 /\ e \in 0..63 /\ a \in Nat /\ acc = 64 * a + e
    BY SMT DEF Digits
<1>3. w \in Nat /\ q \in Nat /\ acc * 64 + d = 65536 * 65536 * q + w
    BY <1>1, <1>2, SMT
<1> HIDE DEF w, q, a, e
<1>4. w = 4096 * (a - 1048576 * q) + e * 64 + d
    BY <1>2, <1>3, SMT
<1> DEFINE c == a - 1048576 * q
<1>5. c \in Int /\ w = 4096 * c + e * 64 + d
    BY <1>2, <1>3, <1>4, SMT
<1> HIDE DEF c
<1>6. w % 64 = d /\ w % 256 = (e % 4) * 64 + d
    BY <1>2, <1>3, <1>5, SMT
<1>7. (w \div 4) % 256 = (e % 16) * 16 + d \div 4
    BY <1>2, <1>3, <1>5, SMT
<1>8. (w \div 16) % 256 = e * 4 + d \div 16
    BY <1>2, <1>3, <1>5, SMT
<1> QED
    BY <1>3, <1>6, <1>7, <1>8, SMT DEF KeepsDigits, O1, O2, O3, w, e

(* What a turn of the loop writes. *)
Writes(state, new, d, dst_len) ==
    \/ /\ state.acc_len = 0 /\ new.acc_len = 6 /\ new.out = state.out
    \/ /\ state.acc_len = 6 /\ new.acc_len = 4 /\ Len(state.out) < dst_len
       /\ new.out = Append(state.out, O1(state.acc % 64, d))
    \/ /\ state.acc_len = 4 /\ new.acc_len = 2 /\ Len(state.out) < dst_len
       /\ new.out = Append(state.out, O2(state.acc % 64, d))
    \/ /\ state.acc_len = 2 /\ new.acc_len = 0 /\ Len(state.out) < dst_len
       /\ new.out = Append(state.out, O3(state.acc % 64, d))

DecodeTurn(state, new, d, dst_len) ==
    \/ state.status # "decoding" /\ new = state
    \/ /\ state.status = "decoding" /\ d = 64 /\ new.status = "stopped"
       /\ new.acc = state.acc /\ new.acc_len = state.acc_len /\ new.out = state.out
    \/ state.status = "decoding" /\ d \in Digits /\ new.status = "overflow"
    \/ /\ state.status = "decoding" /\ d \in Digits /\ new.status = "decoding"
       /\ new.acc % 64 = d /\ Writes(state, new, d, dst_len)

LEMMA LowestDigit == \A acc \in Nat : acc % 64 \in Digits
BY SMT DEF Digits

(* The two ways to update a state. *)
StateOf(a, l, o, st) == [acc |-> a, acc_len |-> l, out |-> o, status |-> st]

LEMMA WordUpdate ==
    ASSUME NEW state \in DecodeStates, NEW w, NEW m, NEW new, new = [state EXCEPT !.acc = w, !.acc_len = m]
    PROVE  new = StateOf(w, m, state.out, state.status)
BY Zenon DEF StateOf, DecodeStates

LEMMA ByteUpdate ==
    ASSUME NEW state \in DecodeStates, NEW w, NEW m, NEW o,
           NEW new, new = [state EXCEPT !.acc = w, !.acc_len = m, !.out = o]
    PROVE  new = StateOf(w, m, o, state.status)
BY Zenon DEF StateOf, DecodeStates

LEMMA DecodeCharacterTurn ==
    ASSUME CodeWidths, NEW dst_len \in Nat, NEW state \in DecodeStates, NEW d \in Signs
    PROVE  /\ DecodeCharacter(dst_len, state, d) \in DecodeStates
           /\ DecodeTurn(state, DecodeCharacter(dst_len, state, d), d, dst_len)
<1> DEFINE new == DecodeCharacter(dst_len, state, d)
           w == NextWord(state.acc, d)
           acc_len == state.acc_len + 6
           byte == (w \div 2^(acc_len - 8)) % 256
<1>1. /\ BYTE_BITS = 8 /\ CHAR_BITS = 6 /\ 2^BYTE_BITS = 256 /\ INVALID = 64
    BY Widths, SMT
<1>2. /\ state = [acc |-> state.acc, acc_len |-> state.acc_len, out |-> state.out, status |-> state.status]
      /\ state.acc \in Nat /\ state.acc_len \in {0, 2, 4, 6} /\ state.out \in Seq(Octets)
      /\ state.status \in {"decoding", "stopped", "overflow"}
    BY SMT DEF DecodeStates
<1>3. new = IF state.status # "decoding" THEN state
            ELSE IF d >= 64 THEN [state EXCEPT !.status = "stopped"]
            ELSE IF acc_len < 8 THEN [state EXCEPT !.acc = w, !.acc_len = acc_len]
            ELSE IF Len(state.out) >= dst_len THEN [state EXCEPT !.status = "overflow"]
            ELSE [state EXCEPT !.acc = w, !.acc_len = acc_len - 8, !.out = Append(@, byte)]
    BY <1>1, SMT DEF DecodeCharacter, NextWord
<1> DEFINE Goal == new \in DecodeStates /\ DecodeTurn(state, new, d, dst_len)
<1>4. ASSUME state.status # "decoding" PROVE Goal
    <2>1. new = state
        BY <1>3, <1>4, Zenon
    <2> HIDE DEF new
    <2> QED
        BY <1>4, <2>1, Zenon DEF DecodeTurn
<1>5. ASSUME state.status = "decoding", d = 64 PROVE Goal
    <2>0. d >= 64
        BY <1>5, SMT
    <2>1. new = [state EXCEPT !.status = "stopped"]
        BY <1>3, <1>5, <2>0, Zenon
    <2> HIDE DEF new
    <2>2. new = [acc |-> state.acc, acc_len |-> state.acc_len, out |-> state.out, status |-> "stopped"]
        BY <1>2, <2>1, SMT
    <2>3. new \in DecodeStates
        BY <1>2, <2>2, SMT DEF DecodeStates
    <2>4. /\ new.status = "stopped" /\ new.acc = state.acc /\ new.acc_len = state.acc_len
          /\ new.out = state.out
        BY <2>2, SMT
    <2> QED
        BY <1>5, <2>3, <2>4, SMT DEF DecodeTurn
<1>6. ASSUME state.status = "decoding", d \in Digits PROVE Goal
    <2>0. ~(d >= 64)
        BY <1>6, SMT DEF Digits
    <2>1. KeepsDigits(w, state.acc, d)
        BY <1>2, <1>6, WordKeepsDigits, Zenon
    <2>a. new = IF acc_len < 8 THEN [state EXCEPT !.acc = w, !.acc_len = acc_len]
                ELSE IF Len(state.out) >= dst_len THEN [state EXCEPT !.status = "overflow"]
                ELSE [state EXCEPT !.acc = w, !.acc_len = acc_len - 8, !.out = Append(@, byte)]
        BY <1>3, <1>6, <2>0, Zenon
    <2>2. w \in Nat /\ w % 64 = d
        BY <2>1, SMT DEF KeepsDigits
    <2> DEFINE e == state.acc % 64
    <2>3. e \in Digits
        BY <1>2, LowestDigit, Zenon
    <2>4. O1(e, d) \in Octets /\ O2(e, d) \in Octets /\ O3(e, d) \in Octets
        BY <1>6, <2>3, OctetTypes, Zenon
    <2> HIDE DEF new, w
    <2>5. ASSUME state.acc_len = 0 PROVE Goal
        <3>1. acc_len < 8 /\ acc_len = 6
            BY <2>5, SMT
        <3>2. new = [acc |-> w, acc_len |-> 6, out |-> state.out, status |-> "decoding"]
            <4>1. new = [state EXCEPT !.acc = w, !.acc_len = acc_len]
                BY <2>a, <3>1, Zenon
            <4>3. 6 \in {0, 2, 4, 6}
                BY SMT
            <4> HIDE DEF acc_len
            <4>2. new = StateOf(w, acc_len, state.out, "decoding")
                BY <1>6, <2>2, <3>1, <4>1, <4>3, WordUpdate, Zenon
            <4> QED
                BY <3>1, <4>2, Zenon DEF StateOf
        <3>3. new \in DecodeStates
            BY <1>2, <2>2, <3>2, SMT DEF DecodeStates
        <3>4. new.status = "decoding" /\ new.acc = w /\ new.acc_len = 6 /\ new.out = state.out
            BY <3>2, SMT
        <3>5. Writes(state, new, d, dst_len)
            BY <2>5, <3>4, SMT DEF Writes
        <3> QED
            BY <1>6, <2>2, <3>3, <3>4, <3>5, SMT DEF DecodeTurn
    <2>6. ASSUME state.acc_len # 0, Len(state.out) >= dst_len PROVE Goal
        <3>1. ~(acc_len < 8)
            BY <1>2, <2>6, SMT
        <3>2. new = [state EXCEPT !.status = "overflow"]
            BY <2>6, <2>a, <3>1, Zenon
        <3>3. new = [acc |-> state.acc, acc_len |-> state.acc_len, out |-> state.out, status |-> "overflow"]
            BY <1>2, <3>2, SMT
        <3>4. new \in DecodeStates /\ new.status = "overflow"
            BY <1>2, <3>3, SMT DEF DecodeStates
        <3> QED
            BY <1>6, <3>4, SMT DEF DecodeTurn
    <2>7. ASSUME state.acc_len # 0, ~(Len(state.out) >= dst_len) PROVE Goal
        <3>1. ~(acc_len < 8)
            BY <1>2, <2>7, SMT
        <3>2. new = [state EXCEPT !.acc = w, !.acc_len = acc_len - 8, !.out = Append(@, byte)]
            BY <2>7, <2>a, <3>1, Zenon
        <3>3. Len(state.out) < dst_len
            BY <1>2, <2>7, SMT
        <3>5. 2^4 = 16 /\ 2^2 = 4 /\ 2^0 = 1 /\ w \div 1 = w
            BY <2>2, SMT
        <3>6. /\ state.acc_len = 6 => acc_len - 8 = 4
              /\ state.acc_len = 4 => acc_len - 8 = 2
              /\ state.acc_len = 2 => acc_len - 8 = 0
            BY SMT
        <3>7. /\ state.acc_len = 6 => byte = (w \div 16) % 256
              /\ state.acc_len = 4 => byte = (w \div 4) % 256
              /\ state.acc_len = 2 => byte = w % 256
            <4> DEFINE p == 2^(acc_len - 8)
            <4> HIDE DEF acc_len
            <4>1. /\ state.acc_len = 6 => p = 16
                  /\ state.acc_len = 4 => p = 4
                  /\ state.acc_len = 2 => p = 1
                BY <3>5, <3>6, Zenon
            <4> HIDE DEF p
            <4>2. /\ state.acc_len = 6 => (w \div p) % 256 = (w \div 16) % 256
                  /\ state.acc_len = 4 => (w \div p) % 256 = (w \div 4) % 256
                  /\ state.acc_len = 2 => (w \div p) % 256 = w % 256
                BY <3>5, <4>1, SMT
            <4> QED
                BY <4>2, SMT DEF p
        <3>8. /\ state.acc_len = 6 => byte = O1(e, d)
              /\ state.acc_len = 4 => byte = O2(e, d)
              /\ state.acc_len = 2 => byte = O3(e, d)
            <4> HIDE DEF byte
            <4> QED
                BY <2>1, <3>7, SMT DEF KeepsDigits
        <3>9. state.acc_len = 6 \/ state.acc_len = 4 \/ state.acc_len = 2
            BY <1>2, <2>7, SMT
        <3> HIDE DEF acc_len, byte, e
        <3>10. byte \in Octets
            BY <2>4, <3>8, <3>9, Zenon
        <3>13. acc_len - 8 \in {0, 2, 4, 6}
            BY <3>6, <3>9, SMT
        <3>4. new = [acc |-> w, acc_len |-> acc_len - 8, out |-> Append(state.out, byte), status |-> "decoding"]
            <4>1. new = StateOf(w, acc_len - 8, Append(state.out, byte), "decoding")
                <5> DEFINE m == acc_len - 8
                           o == Append(state.out, byte)
                <5>1. m \in {0, 2, 4, 6} /\ o \in Seq(Octets)
                    BY <1>2, <3>10, <3>13, AppendProperties, Zenon
                <5>2. new = [state EXCEPT !.acc = w, !.acc_len = m, !.out = o]
                    BY <3>2, SMT DEF DecodeStates
                <5> HIDE DEF m, o
                <5>3. new = StateOf(w, m, o, state.status)
                    BY <2>2, <5>1, <5>2, ByteUpdate, Zenon
                <5> QED
                    BY <1>6, <5>3, Zenon DEF m, o
            <4> QED
                BY <4>1, Zenon DEF StateOf
        <3>11. Append(state.out, byte) \in Seq(Octets)
            BY <1>2, <3>10, AppendProperties, Zenon
        <3>12. /\ new.status = "decoding" /\ new.acc = w /\ new.acc_len = acc_len - 8
               /\ new.out = Append(state.out, byte)
            BY <3>4, SMT
        <3>14. new \in DecodeStates
            BY <2>2, <3>4, <3>11, <3>13, SMT DEF DecodeStates
        <3>15. Writes(state, new, d, dst_len)
            <4>1. /\ state.acc_len = 6 => new.acc_len = 4 /\ new.out = Append(state.out, O1(e, d))
                  /\ state.acc_len = 4 => new.acc_len = 2 /\ new.out = Append(state.out, O2(e, d))
                  /\ state.acc_len = 2 => new.acc_len = 0 /\ new.out = Append(state.out, O3(e, d))
                BY <3>6, <3>8, <3>12, Zenon
            <4> QED
                BY <3>3, <3>9, <4>1, SMT DEF Writes, e
        <3> QED
            BY <1>6, <2>2, <3>12, <3>14, <3>15, SMT DEF DecodeTurn
    <2> HIDE DEF Goal
    <2> QED
        BY <2>5, <2>6, <2>7, Zenon
<1>7. d = 64 \/ d \in Digits
    BY SMT DEF Signs, Digits
<1>8. Goal
    <2> HIDE DEF Goal
    <2> QED
        BY <1>4, <1>5, <1>6, <1>7, Zenon
<1> QED
    BY <1>8, Zenon

(* The byte at position i of what the digits s stand for. *)
OctetOf(s, i) ==
    LET q == (i - 1) \div 3
    IN CASE (i - 1) % 3 = 0 -> O1(s[4 * q + 1], s[4 * q + 2])
         [] (i - 1) % 3 = 1 -> O2(s[4 * q + 2], s[4 * q + 3])
         [] OTHER -> O3(s[4 * q + 3], s[4 * q + 4])

LEMMA OctetsOfBlock ==
    ASSUME NEW s, NEW q \in Nat
    PROVE  /\ OctetOf(s, 3 * q + 1) = O1(s[4 * q + 1], s[4 * q + 2])
           /\ OctetOf(s, 3 * q + 2) = O2(s[4 * q + 2], s[4 * q + 3])
           /\ OctetOf(s, 3 * q + 3) = O3(s[4 * q + 3], s[4 * q + 4])
<1>1. /\ ((3 * q + 1) - 1) \div 3 = q /\ ((3 * q + 1) - 1) % 3 = 0
      /\ ((3 * q + 2) - 1) \div 3 = q /\ ((3 * q + 2) - 1) % 3 = 1
      /\ ((3 * q + 3) - 1) \div 3 = q /\ ((3 * q + 3) - 1) % 3 = 2
    BY SMT
<1>2. 1 # 0 /\ 2 # 0 /\ 2 # 1
    BY SMT
<1>3. OctetOf(s, 3 * q + 1) = O1(s[4 * q + 1], s[4 * q + 2])
    BY <1>1, SMT DEF OctetOf
<1>4. OctetOf(s, 3 * q + 2) = O2(s[4 * q + 2], s[4 * q + 3])
    BY <1>1, SMT DEF OctetOf
<1>5. OctetOf(s, 3 * q + 3) = O3(s[4 * q + 3], s[4 * q + 4])
    BY <1>1, SMT DEF OctetOf
<1> QED
    BY <1>3, <1>4, <1>5, Zenon

(* The first j digits are decoded into out. *)
DecodedUpTo(out, s, j) ==
    /\ out \in Seq(Octets) /\ Len(out) = (3 * j) \div 4
    /\ \A i \in 1..Len(out) : out[i] = OctetOf(s, i)

LEMMA DecodeOneMore ==
    ASSUME NEW s, NEW out, NEW j \in Nat, DecodedUpTo(out, s, j), NEW v \in Octets,
           (3 * (j + 1)) \div 4 = (3 * j) \div 4 + 1, v = OctetOf(s, (3 * j) \div 4 + 1)
    PROVE  DecodedUpTo(Append(out, v), s, j + 1) /\ Len(Append(out, v)) = Len(out) + 1
<1> DEFINE new == Append(out, v)
           n == Len(out)
<1>1. out \in Seq(Octets) /\ n = (3 * j) \div 4 /\ n \in Nat /\ \A i \in 1..n : out[i] = OctetOf(s, i)
    BY SMT DEF DecodedUpTo
<1>2. /\ new \in Seq(Octets) /\ Len(new) = n + 1 /\ new[n + 1] = v
      /\ \A i \in 1..n : new[i] = out[i]
    BY <1>1, AppendProperties, SMT
<1>3. \A i \in 1..(n + 1) : i = n + 1 \/ i \in 1..n
    BY <1>1, SMT
<1> HIDE DEF n, new
<1>4. \A i \in 1..Len(new) : new[i] = OctetOf(s, i)
    BY <1>1, <1>2, <1>3, Zenon
<1>5. Len(new) = (3 * (j + 1)) \div 4
    BY <1>1, <1>2, Zenon
<1> QED
    BY <1>2, <1>4, <1>5, Zenon DEF DecodedUpTo, new, n

DecodesTo(state, s, j, k, dst_len) ==
    /\ j \in 0..k /\ \A i \in 1..j : s[i] \in Digits
    /\ state.status # "overflow" =>
         /\ state.acc_len = (6 * j) % 8 /\ DecodedUpTo(state.out, s, j) /\ Len(state.out) <= dst_len
         /\ j >= 1 => state.acc % 64 = s[j]
         /\ state.status = "decoding" => j = k
         /\ state.status = "stopped" => j < k /\ s[j + 1] = 64

(* Where the next digit stands. *)
LEMMA Positions ==
    ASSUME NEW j \in Nat
    PROVE  \E q \in Nat :
             \/ j = 4 * q /\ (6 * j) % 8 = 0 /\ (3 * j) \div 4 = 3 * q
             \/ j = 4 * q + 1 /\ (6 * j) % 8 = 6 /\ (3 * j) \div 4 = 3 * q
             \/ j = 4 * q + 2 /\ (6 * j) % 8 = 4 /\ (3 * j) \div 4 = 3 * q + 1
             \/ j = 4 * q + 3 /\ (6 * j) % 8 = 2 /\ (3 * j) \div 4 = 3 * q + 2
<1> DEFINE q == j \div 4
           m == j % 4
<1>1. q \in Nat /\ j = 4 * q + m /\ m \in 0..3
    BY SMT
<1> HIDE DEF q, m
<1>2. \/ (j = 4 * q /\ (6 * j) % 8 = 0 /\ (3 * j) \div 4 = 3 * q)
      \/ (j = 4 * q + 1 /\ (6 * j) % 8 = 6 /\ (3 * j) \div 4 = 3 * q)
      \/ (j = 4 * q + 2 /\ (6 * j) % 8 = 4 /\ (3 * j) \div 4 = 3 * q + 1)
      \/ (j = 4 * q + 3 /\ (6 * j) % 8 = 2 /\ (3 * j) \div 4 = 3 * q + 2)
    <2>1. m = 0 \/ m = 1 \/ m = 2 \/ m = 3
        BY <1>1, SMT
    <2> QED
        BY <1>1, <2>1, SMT
<1> QED
    BY <1>1, <1>2, SMT

LEMMA DecodeTurnKeeps ==
    ASSUME CodeWidths, NEW dst_len \in Nat, NEW s, NEW k \in Nat, NEW j, NEW state \in DecodeStates,
           NEW new \in DecodeStates, NEW d, d = s[k + 1], s[k + 1] \in Signs,
           DecodesTo(state, s, j, k, dst_len), DecodeTurn(state, new, d, dst_len)
    PROVE  \E i : DecodesTo(new, s, i, k + 1, dst_len)
<1>1. /\ j \in 0..k /\ \A i \in 1..j : s[i] \in Digits
      /\ state.status # "overflow" =>
           /\ state.acc_len = (6 * j) % 8 /\ DecodedUpTo(state.out, s, j) /\ Len(state.out) <= dst_len
           /\ j >= 1 => state.acc % 64 = s[j]
           /\ state.status = "decoding" => j = k
           /\ state.status = "stopped" => j < k /\ s[j + 1] = 64
    BY Zenon DEF DecodesTo
<1>2. j \in Nat /\ j \in 0..(k + 1) /\ (j < k => j < k + 1) /\ (j = k => j < k + 1)
    BY <1>1, SMT
<1>3. state.status \in {"decoding", "stopped", "overflow"}
    BY SMT DEF DecodeStates
<1> DEFINE Goal == \E i : DecodesTo(new, s, i, k + 1, dst_len)
<1>4. ASSUME state.status # "decoding", new = state PROVE Goal
    <2>1. DecodesTo(new, s, j, k + 1, dst_len)
        BY <1>1, <1>2, <1>4, Zenon DEF DecodesTo
    <2> QED
        BY <2>1, Zenon
<1>5. ASSUME state.status = "decoding", d = 64, new.status = "stopped",
             new.acc = state.acc, new.acc_len = state.acc_len, new.out = state.out
      PROVE  Goal
    <2>1. "decoding" # "overflow" /\ "stopped" # "decoding"
        BY SMT
    <2>2. /\ state.acc_len = (6 * j) % 8 /\ DecodedUpTo(state.out, s, j) /\ Len(state.out) <= dst_len
          /\ j >= 1 => state.acc % 64 = s[j]
          /\ j = k
        BY <1>1, <1>5, <2>1, Zenon
    <2>3. s[j + 1] = 64
        BY <1>5, <2>2, Zenon
    <2>4. DecodesTo(new, s, j, k + 1, dst_len)
        BY <1>1, <1>2, <1>5, <2>1, <2>2, <2>3, Zenon DEF DecodesTo
    <2> QED
        BY <2>4, Zenon
<1>6. ASSUME state.status = "decoding", new.status = "overflow" PROVE Goal
    <2>1. DecodesTo(new, s, j, k + 1, dst_len)
        BY <1>1, <1>2, <1>6, Zenon DEF DecodesTo
    <2> QED
        BY <2>1, Zenon
<1>7. ASSUME state.status = "decoding", d \in Digits, new.status = "decoding",
             new.acc % 64 = d, Writes(state, new, d, dst_len)
      PROVE  Goal
    <2>1. "decoding" # "overflow" /\ "decoding" # "stopped"
        BY SMT
    <2>2. /\ state.acc_len = (6 * j) % 8 /\ DecodedUpTo(state.out, s, j) /\ Len(state.out) <= dst_len
          /\ j >= 1 => state.acc % 64 = s[j]
          /\ j = k
        BY <1>1, <1>7, <2>1, Zenon
    <2>3. s[j + 1] = d /\ j + 1 = k + 1
        BY <2>2, Zenon
    <2>4. j + 1 \in 0..(k + 1) /\ \A i \in 1..(j + 1) : i = j + 1 \/ i \in 1..j
        BY <1>2, <2>2, SMT
    <2>5. \A i \in 1..(j + 1) : s[i] \in Digits
        BY <1>1, <1>7, <2>3, <2>4, Zenon
    <2> DEFINE Moved == /\ new.acc_len = (6 * (j + 1)) % 8
                        /\ DecodedUpTo(new.out, s, j + 1) /\ Len(new.out) <= dst_len
    <2>6. PICK q \in Nat :
             \/ j = 4 * q /\ (6 * j) % 8 = 0 /\ (3 * j) \div 4 = 3 * q
             \/ j = 4 * q + 1 /\ (6 * j) % 8 = 6 /\ (3 * j) \div 4 = 3 * q
             \/ j = 4 * q + 2 /\ (6 * j) % 8 = 4 /\ (3 * j) \div 4 = 3 * q + 1
             \/ j = 4 * q + 3 /\ (6 * j) % 8 = 2 /\ (3 * j) \div 4 = 3 * q + 2
        BY <1>2, Positions, Zenon
    <2>7. /\ j = 4 * q => (6 * (j + 1)) % 8 = 6 /\ (3 * (j + 1)) \div 4 = (3 * j) \div 4
          /\ j = 4 * q + 1 => (6 * (j + 1)) % 8 = 4 /\ (3 * (j + 1)) \div 4 = (3 * j) \div 4 + 1
          /\ j = 4 * q + 2 => (6 * (j + 1)) % 8 = 2 /\ (3 * (j + 1)) \div 4 = (3 * j) \div 4 + 1
          /\ j = 4 * q + 3 => (6 * (j + 1)) % 8 = 0 /\ (3 * (j + 1)) \div 4 = (3 * j) \div 4 + 1
        <3>1. ASSUME j = 4 * q
              PROVE  (6 * (j + 1)) % 8 = 6 /\ (3 * (j + 1)) \div 4 = (3 * j) \div 4
            <4>1. /\ 6 * (j + 1) = 8 * (3 * q + 0) + 6
                  /\ 3 * (j + 1) = 4 * (3 * q + 0) + 3
                  /\ 3 * j = 4 * (3 * q + 0) + 0
                BY <3>1, SMT
            <4> QED
                BY <4>1, SMT
        <3>2. ASSUME j = 4 * q + 1
              PROVE  (6 * (j + 1)) % 8 = 4 /\ (3 * (j + 1)) \div 4 = (3 * j) \div 4 + 1
            <4>1. /\ 6 * (j + 1) = 8 * (3 * q + 1) + 4
                  /\ 3 * (j + 1) = 4 * (3 * q + 1) + 2
                  /\ 3 * j = 4 * (3 * q + 0) + 3
                BY <3>2, SMT
            <4> QED
                BY <4>1, SMT
        <3>3. ASSUME j = 4 * q + 2
              PROVE  (6 * (j + 1)) % 8 = 2 /\ (3 * (j + 1)) \div 4 = (3 * j) \div 4 + 1
            <4>1. /\ 6 * (j + 1) = 8 * (3 * q + 2) + 2
                  /\ 3 * (j + 1) = 4 * (3 * q + 2) + 1
                  /\ 3 * j = 4 * (3 * q + 1) + 2
                BY <3>3, SMT
            <4> QED
                BY <4>1, SMT
        <3>4. ASSUME j = 4 * q + 3
              PROVE  (6 * (j + 1)) % 8 = 0 /\ (3 * (j + 1)) \div 4 = (3 * j) \div 4 + 1
            <4>1. /\ 6 * (j + 1) = 8 * (3 * q + 3) + 0
                  /\ 3 * (j + 1) = 4 * (3 * q + 3) + 0
                  /\ 3 * j = 4 * (3 * q + 2) + 1
                BY <3>4, SMT
            <4> QED
                BY <4>1, SMT
        <3> QED
            BY <3>1, <3>2, <3>3, <3>4
    <2>8. Len(state.out) \in Nat /\ (Len(state.out) < dst_len => Len(state.out) + 1 <= dst_len)
        <3>1. state.out \in Seq(Octets)
            BY <2>2, Zenon DEF DecodedUpTo
        <3>2. Len(state.out) \in Nat
            BY <3>1, LenProperties, Zenon
        <3>3. \A n \in Nat : n < dst_len => n + 1 <= dst_len
            BY SMT
        <3> QED
            BY <3>2, <3>3, Zenon
    <2>9. /\ j = 4 * q => state.acc_len = 0 /\ new.acc_len = 6 /\ new.out = state.out
          /\ j = 4 * q + 1 => /\ state.acc_len = 6 /\ new.acc_len = 4 /\ Len(state.out) < dst_len
                              /\ new.out = Append(state.out, O1(state.acc % 64, d))
          /\ j = 4 * q + 2 => /\ state.acc_len = 4 /\ new.acc_len = 2 /\ Len(state.out) < dst_len
                              /\ new.out = Append(state.out, O2(state.acc % 64, d))
          /\ j = 4 * q + 3 => /\ state.acc_len = 2 /\ new.acc_len = 0 /\ Len(state.out) < dst_len
                              /\ new.out = Append(state.out, O3(state.acc % 64, d))
        <3>1. /\ j = 4 * q => state.acc_len = 0
              /\ j = 4 * q + 1 => state.acc_len = 6
              /\ j = 4 * q + 2 => state.acc_len = 4
              /\ j = 4 * q + 3 => state.acc_len = 2
            BY <2>2, <2>6, SMT
        <3>2. 0 # 6 /\ 0 # 4 /\ 0 # 2 /\ 6 # 4 /\ 6 # 2 /\ 4 # 2
            BY SMT
        <3> QED
            BY <1>7, <3>1, <3>2, Zenon DEF Writes
    <2>10. ASSUME j = 4 * q PROVE Moved
        <3>1. DecodedUpTo(state.out, s, j + 1)
            BY <2>2, <2>7, <2>10, Zenon DEF DecodedUpTo
        <3> QED
            BY <2>2, <2>7, <2>9, <2>10, <3>1, Zenon
    <2>11. ASSUME NEW v \in Octets, new.out = Append(state.out, v), v = OctetOf(s, (3 * j) \div 4 + 1),
                  (3 * (j + 1)) \div 4 = (3 * j) \div 4 + 1, new.acc_len = (6 * (j + 1)) % 8,
                  Len(state.out) < dst_len
           PROVE  Moved
        <3>1. DecodedUpTo(Append(state.out, v), s, j + 1) /\ Len(Append(state.out, v)) = Len(state.out) + 1
            BY <1>2, <2>2, <2>11, DecodeOneMore, SMT
        <3> QED
            BY <2>8, <2>11, <3>1, Zenon
    <2>e. ASSUME j # 4 * q PROVE j >= 1 /\ j \in 1..j
        BY <1>2, <2>6, <2>e, SMT
    <2>12. ASSUME j # 4 * q PROVE state.acc % 64 = s[j] /\ s[j] \in Digits /\ s[j + 1] = d
        BY <1>1, <2>2, <2>3, <2>e, <2>12, Zenon
    <2>13. ASSUME j = 4 * q + 1 PROVE Moved
        <3> DEFINE v == O1(s[j], d)
        <3>1. j # 4 * q /\ j + 1 = 4 * q + 2 /\ (3 * j) \div 4 + 1 = 3 * q + 1
            BY <2>6, <2>13, SMT
        <3>2. v \in Octets
            BY <1>7, <2>12, <3>1, OctetTypes, Zenon
        <3>3. OctetOf(s, 3 * q + 1) = O1(s[4 * q + 1], s[4 * q + 2])
            BY OctetsOfBlock, Zenon
        <3>4. v = OctetOf(s, (3 * j) \div 4 + 1)
            BY <2>12, <2>13, <3>1, <3>3, Zenon
        <3>5. new.out = Append(state.out, v)
            BY <2>9, <2>12, <2>13, <3>1, Zenon
        <3> HIDE DEF v, Moved
        <3> QED
            BY <2>7, <2>9, <2>11, <2>13, <3>2, <3>4, <3>5, Zenon
    <2>14. ASSUME j = 4 * q + 2 PROVE Moved
        <3> DEFINE v == O2(s[j], d)
        <3>1. j # 4 * q /\ j + 1 = 4 * q + 3 /\ (3 * j) \div 4 + 1 = 3 * q + 2
            BY <2>6, <2>14, SMT
        <3>2. v \in Octets
            BY <1>7, <2>12, <3>1, OctetTypes, Zenon
        <3>3. OctetOf(s, 3 * q + 2) = O2(s[4 * q + 2], s[4 * q + 3])
            BY OctetsOfBlock, Zenon
        <3>4. v = OctetOf(s, (3 * j) \div 4 + 1)
            BY <2>12, <2>14, <3>1, <3>3, Zenon
        <3>5. new.out = Append(state.out, v)
            BY <2>9, <2>12, <2>14, <3>1, Zenon
        <3> HIDE DEF v, Moved
        <3> QED
            BY <2>7, <2>9, <2>11, <2>14, <3>2, <3>4, <3>5, Zenon
    <2>15. ASSUME j = 4 * q + 3 PROVE Moved
        <3> DEFINE v == O3(s[j], d)
        <3>1. j # 4 * q /\ j + 1 = 4 * q + 4 /\ (3 * j) \div 4 + 1 = 3 * q + 3
            BY <2>6, <2>15, SMT
        <3>2. v \in Octets
            BY <1>7, <2>12, <3>1, OctetTypes, Zenon
        <3>3. OctetOf(s, 3 * q + 3) = O3(s[4 * q + 3], s[4 * q + 4])
            BY OctetsOfBlock, Zenon
        <3>4. v = OctetOf(s, (3 * j) \div 4 + 1)
            BY <2>12, <2>15, <3>1, <3>3, Zenon
        <3>5. new.out = Append(state.out, v)
            BY <2>9, <2>12, <2>15, <3>1, Zenon
        <3> HIDE DEF v, Moved
        <3> QED
            BY <2>7, <2>9, <2>11, <2>15, <3>2, <3>4, <3>5, Zenon
    <2>16. Moved
        <3> HIDE DEF Moved
        <3> QED
            BY <2>6, <2>10, <2>13, <2>14, <2>15, Zenon
    <2>17. new.acc % 64 = s[j + 1]
        BY <1>7, <2>3, Zenon
    <2>18. DecodesTo(new, s, j + 1, k + 1, dst_len)
        BY <1>7, <2>1, <2>3, <2>4, <2>5, <2>16, <2>17, Zenon DEF DecodesTo
    <2> QED
        BY <2>18, Zenon
<1>8. Goal
    <2> HIDE DEF Goal
    <2> QED
        BY <1>4, <1>5, <1>6, <1>7, Zenon DEF DecodeTurn
<1> QED
    BY <1>8, Zenon

(* r is what the first j characters of s stand for; there the digits end. *)
IsDecoding(r, s, j, dst_len) ==
    /\ j \in 0..Len(s) /\ \A i \in 1..j : s[i] \in Digits
    /\ j < Len(s) => s[j + 1] = 64
    /\ DecodedUpTo(r, s, j) /\ Len(r) <= dst_len
    /\ j % 4 # 1
    /\ j % 4 = 2 => s[j] % 16 = 0
    /\ j % 4 = 3 => s[j] % 4 = 0

(* No bits that are left over are set. *)
LEMMA LeftOverBits ==
    ASSUME NEW acc \in Nat, NEW j \in Nat, NEW l, l = (6 * j) % 8, ~(l > 4), acc % 2^l = 0
    PROVE  /\ j % 4 # 1
           /\ j % 4 = 2 => (acc % 64) % 16 = 0
           /\ j % 4 = 3 => (acc % 64) % 4 = 0
<1>1. PICK q \in Nat :
         \/ j = 4 * q /\ (6 * j) % 8 = 0 /\ (3 * j) \div 4 = 3 * q
         \/ j = 4 * q + 1 /\ (6 * j) % 8 = 6 /\ (3 * j) \div 4 = 3 * q
         \/ j = 4 * q + 2 /\ (6 * j) % 8 = 4 /\ (3 * j) \div 4 = 3 * q + 1
         \/ j = 4 * q + 3 /\ (6 * j) % 8 = 2 /\ (3 * j) \div 4 = 3 * q + 2
    BY Positions, Zenon
<1>2. /\ j % 4 = 1 => l = 6
      /\ j % 4 = 2 => l = 4
      /\ j % 4 = 3 => l = 2
    BY <1>1, SMT
<1>3. 2^4 = 16 /\ 2^2 = 4
    BY SMT
<1> DEFINE p == 2^l
<1>4. (j % 4 = 2 => p = 16) /\ (j % 4 = 3 => p = 4)
    BY <1>2, <1>3, Zenon
<1>5. acc % p = 0
    BY Zenon
<1> HIDE DEF p
<1>6. (j % 4 = 2 => acc % 16 = 0) /\ (j % 4 = 3 => acc % 4 = 0)
    BY <1>4, <1>5, Zenon
<1>7. (acc % 64) % 16 = acc % 16 /\ (acc % 64) % 4 = acc % 4
    BY SMT
<1>8. j % 4 # 1
    BY <1>2, SMT
<1> QED
    BY <1>6, <1>7, <1>8, Zenon

LEMMA DecodingOrNone ==
    ASSUME CodeWidths
    PROVE  \A dst_len, s :
             LET end == FoldDecode(dst_len, Decoder, s)
             IN  argon2_from_base64(dst_len, s) =
                    IF end.status = "overflow" \/ end.acc_len > 4 \/ end.acc % 2^end.acc_len # 0
                      THEN None ELSE end.out
<1>1. BYTE_BITS = 8 /\ 8 \div 2 = 4
    BY Widths, SMT
<1> QED
    BY <1>1, Zenon DEF argon2_from_base64, FoldDecode, Decoder

LEMMA DecodingIsRight ==
    ASSUME CodeWidths, NEW dst_len \in Nat, NEW s \in Seq(Signs), argon2_from_base64(dst_len, s) # None
    PROVE  \E j : IsDecoding(argon2_from_base64(dst_len, s), s, j, dst_len)
<1> DEFINE n == Len(s)
           end == FoldDecode(dst_len, Decoder, s)
<1>1. Decoder \in DecodeStates
    BY SMT DEF Decoder, DecodeStates
<1>2. \A state \in DecodeStates : \A d \in Signs : DecodeCharacter(dst_len, state, d) \in DecodeStates
    BY DecodeCharacterTurn, Zenon
<1>3. PICK r : DecodeCharacterRuns(r, dst_len, Decoder, s, DecodeStates) /\ r[n] = end
    BY <1>1, <1>2, DecodeCharacterFold, Zenon
<1>4. /\ r \in [0..n -> DecodeStates] /\ r[0] = Decoder
      /\ \A k \in 1..n : r[k] = DecodeCharacter(dst_len, r[k - 1], s[k])
    BY <1>3, Zenon DEF DecodeCharacterRuns
<1>5. n \in Nat /\ \A i \in 1..n : s[i] \in Signs
    BY ElementOfSeq, LenProperties, Zenon
<1> HIDE DEF n, end
<1> DEFINE S == {k \in 0..n : \E j : DecodesTo(r[k], s, j, k, dst_len)}
<1>6. 0 \in S
    <2>1. 0 \in 0..n /\ 0 \in 0..0 /\ 1..0 = {} /\ (6 * 0) % 8 = 0 /\ (3 * 0) \div 4 = 0 /\ ~(0 >= 1) /\ 0 <= dst_len
        BY <1>5, SMT
    <2>2. /\ Decoder.acc_len = 0 /\ Decoder.out = <<>> /\ Decoder.status = "decoding"
          /\ "decoding" # "stopped" /\ <<>> \in Seq(Octets) /\ Len(<<>>) = 0
        BY SMT DEF Decoder
    <2>3. DecodedUpTo(<<>>, s, 0)
        BY <2>1, <2>2, Zenon DEF DecodedUpTo
    <2>4. DecodesTo(Decoder, s, 0, 0, dst_len)
        BY <2>1, <2>2, <2>3, Zenon DEF DecodesTo
    <2> QED
        BY <1>4, <2>1, <2>4, Zenon
<1>7. ASSUME NEW k \in 0..(n - 1), k \in S PROVE k + 1 \in S
    <2>1. k \in Nat /\ k \in 0..n /\ k + 1 \in 1..n /\ k + 1 \in 0..n /\ (k + 1) - 1 = k
        BY <1>5, SMT
    <2>2. PICK j : DecodesTo(r[k], s, j, k, dst_len)
        BY <1>7, Zenon
    <2> DEFINE state == r[k]
               new == r[k + 1]
               d == s[k + 1]
    <2>3. state \in DecodeStates /\ new \in DecodeStates /\ d \in Signs
        BY <1>4, <1>5, <2>1, Zenon
    <2>4. new = DecodeCharacter(dst_len, state, d)
        BY <1>4, <2>1, Zenon
    <2>5. DecodeTurn(state, new, d, dst_len)
        <3> HIDE DEF state, new, d
        <3> QED
            BY <2>3, <2>4, DecodeCharacterTurn, Zenon
    <2>6. d = s[k + 1] /\ s[k + 1] \in Signs /\ DecodesTo(state, s, j, k, dst_len)
        BY <2>2, <2>3, Zenon
    <2>7. \E i : DecodesTo(new, s, i, k + 1, dst_len)
        <3> HIDE DEF state, new, d
        <3> QED
            BY <2>1, <2>3, <2>5, <2>6, DecodeTurnKeeps, Zenon
    <2> QED
        BY <2>1, <2>7, Zenon
<1> HIDE DEF S
<1>8. \A k \in 0..n : k \in S
    BY <1>5, <1>6, <1>7, BoundedInduction, Zenon
<1>9. n \in 0..n
    BY <1>5, SMT
<1>10. PICK j : DecodesTo(end, s, j, n, dst_len)
    BY <1>3, <1>8, <1>9, Zenon DEF S
<1>11. end \in DecodeStates
    BY <1>3, <1>4, <1>9, Zenon
<1> DEFINE out == argon2_from_base64(dst_len, s)
<1>12. out = IF end.status = "overflow" \/ end.acc_len > 4 \/ end.acc % 2^end.acc_len # 0
               THEN None ELSE end.out
    BY DecodingOrNone, Zenon DEF end
<1>13. /\ end.status # "overflow" /\ ~(end.acc_len > 4) /\ end.acc % 2^end.acc_len = 0 /\ out = end.out
    BY <1>12, Zenon
<1> HIDE DEF out
<1>14. end.acc \in Nat /\ end.status \in {"decoding", "stopped", "overflow"}
    BY <1>11, SMT DEF DecodeStates
<1>15. /\ j \in 0..n /\ \A i \in 1..j : s[i] \in Digits
       /\ end.acc_len = (6 * j) % 8 /\ DecodedUpTo(out, s, j) /\ Len(out) <= dst_len
       /\ j >= 1 => end.acc % 64 = s[j]
       /\ end.status = "decoding" => j = n
       /\ end.status = "stopped" => j < n /\ s[j + 1] = 64
    BY <1>10, <1>13, Zenon DEF DecodesTo
<1>16. j \in Nat /\ (j = n => ~(j < n))
    BY <1>15, SMT
<1>17. /\ j % 4 # 1
       /\ j % 4 = 2 => (end.acc % 64) % 16 = 0
       /\ j % 4 = 3 => (end.acc % 64) % 4 = 0
    BY <1>13, <1>14, <1>15, <1>16, LeftOverBits, Zenon
<1>18. (j % 4 = 2 => j >= 1) /\ (j % 4 = 3 => j >= 1)
    BY <1>16, SMT
<1>19. j < n => s[j + 1] = 64
    BY <1>13, <1>14, <1>15, <1>16, Zenon
<1>20. IsDecoding(out, s, j, dst_len)
    BY <1>15, <1>17, <1>18, <1>19, Zenon DEF IsDecoding, n
<1> QED
    BY <1>20, Zenon DEF out

-----------------------------------------------------------------------------
(* Encoding and decoding are inverse to each other. *)
LEMMA PositionInBlock ==
    \A i \in Nat \ {0} : \E q \in Nat : i = 3 * q + 1 \/ i = 3 * q + 2 \/ i = 3 * q + 3
<1> SUFFICES ASSUME NEW i \in Nat \ {0}
             PROVE  \E q \in Nat : i = 3 * q + 1 \/ i = 3 * q + 2 \/ i = 3 * q + 3
    BY Zenon
<1> DEFINE q == (i - 1) \div 3
<1>1. q \in Nat /\ (i = 3 * q + 1 \/ i = 3 * q + 2 \/ i = 3 * q + 3)
    BY SMT
<1> HIDE DEF q
<1> QED
    BY <1>1, Zenon

LEMMA PositionInDigits ==
    \A i \in Nat \ {0} : \E q \in Nat : i = 4 * q + 1 \/ i = 4 * q + 2 \/ i = 4 * q + 3 \/ i = 4 * q + 4
<1> SUFFICES ASSUME NEW i \in Nat \ {0}
             PROVE  \E q \in Nat : i = 4 * q + 1 \/ i = 4 * q + 2 \/ i = 4 * q + 3 \/ i = 4 * q + 4
    BY Zenon
<1> DEFINE q == (i - 1) \div 4
<1>1. q \in Nat /\ (i = 4 * q + 1 \/ i = 4 * q + 2 \/ i = 4 * q + 3 \/ i = 4 * q + 4)
    BY SMT
<1> HIDE DEF q
<1> QED
    BY <1>1, Zenon

(* The same, one at a time. *)
LEMMA FirstByteBack == \A x, y \in Octets : O1(D1(x), D2(x, y)) = x
BY SMT DEF D1, D2, O1, Octets
LEMMA SecondByteBack == \A x, y, z \in Octets : O2(D2(x, y), D3(y, z)) = y
BY SMT DEF D2, D3, O2, Octets
LEMMA ThirdByteBack == \A y, z \in Octets : O3(D3(y, z), D4(z)) = z
BY SMT DEF D3, D4, O3, Octets
LEMMA FirstDigitBack == \A d, e \in Digits : D1(O1(d, e)) = d
BY SMT DEF D1, O1, Digits
LEMMA SecondDigitBack == \A d, e, f \in Digits : D2(O1(d, e), O2(e, f)) = e
BY SMT DEF D2, O1, O2, Digits
LEMMA ThirdDigitBack == \A e, f, g \in Digits : D3(O2(e, f), O3(f, g)) = f
BY SMT DEF D3, O2, O3, Digits
LEMMA FourthDigitBack == \A f, g \in Digits : D4(O3(f, g)) = g
BY SMT DEF D4, O3, Digits
LEMMA LastDigitBack ==
    \A d, e \in Digits : (e % 16 = 0 => D2(O1(d, e), 0) = e) /\ (e % 4 = 0 => D3(O2(d, e), 0) = e)
BY SMT DEF D2, D3, O1, O2, Digits

LEMMA DecodingInvertsEncoding ==
    ASSUME NEW x \in Seq(Octets), NEW r, NEW b, IsEncoding(r, x, b),
           NEW y, NEW j, NEW dst_len, IsDecoding(y, r, j, dst_len)
    PROVE  y = x
<1> DEFINE n == Len(x)
           m == n % 3
           k == Len(r)
<1>1. /\ r \in Seq(Digits) /\ k = EncodedLength(n)
      /\ b \in Nat /\ n = 3 * b + m
      /\ \A q \in 0..(b - 1) : BlockAt(r, x, q)
      /\ m = 1 => /\ r[4 * b + 1] = D1(x[3 * b + 1])
                  /\ r[4 * b + 2] = D2(x[3 * b + 1], 0)
      /\ m = 2 => /\ r[4 * b + 1] = D1(x[3 * b + 1])
                  /\ r[4 * b + 2] = D2(x[3 * b + 1], x[3 * b + 2])
                  /\ r[4 * b + 3] = D3(x[3 * b + 2], 0)
    BY Zenon DEF IsEncoding
<1>2. /\ j \in 0..k /\ (j < k => r[j + 1] = 64) /\ y \in Seq(Octets) /\ Len(y) = (3 * j) \div 4
      /\ \A i \in 1..Len(y) : y[i] = OctetOf(r, i)
    BY Zenon DEF IsDecoding, DecodedUpTo
<1>3. n \in Nat /\ k \in Nat /\ \A i \in 1..k : r[i] \in Digits
    BY <1>1, LenProperties, ElementOfSeq, Zenon
<1>4. m \in 0..2
    BY <1>3, SMT
<1>5. k = 4 * b + (IF m = 0 THEN 0 ELSE m + 1)
    BY <1>1, <1>3, LengthOfEncoding, Zenon
<1> HIDE DEF k
<1>6. j = k
    <2>1. ASSUME j < k PROVE FALSE
        <3>1. j + 1 \in 1..k
            BY <1>2, <1>3, <2>1, SMT
        <3>2. r[j + 1] \in Digits /\ r[j + 1] = 64
            BY <1>2, <1>3, <2>1, <3>1, Zenon
        <3> QED
            BY <3>2, SMT DEF Digits
    <2> QED
        BY <1>2, <1>3, <2>1, SMT
<1> HIDE DEF n, m
<1>7. Len(y) = n
    BY <1>1, <1>2, <1>4, <1>5, <1>6, SMT
<1>8. \A i \in 1..n : x[i] \in Octets
    BY ElementOfSeq, Zenon DEF n
<1>9. ASSUME NEW i \in 1..n PROVE y[i] = x[i]
    <2>1. y[i] = OctetOf(r, i)
        BY <1>2, <1>7, Zenon
    <2>2. PICK q \in Nat : i = 3 * q + 1 \/ i = 3 * q + 2 \/ i = 3 * q + 3
        <3>1. i \in Nat \ {0}
            BY <1>3, SMT
        <3> QED
            BY <3>1, PositionInBlock, Zenon
    <2>3. /\ OctetOf(r, 3 * q + 1) = O1(r[4 * q + 1], r[4 * q + 2])
          /\ OctetOf(r, 3 * q + 2) = O2(r[4 * q + 2], r[4 * q + 3])
          /\ OctetOf(r, 3 * q + 3) = O3(r[4 * q + 3], r[4 * q + 4])
        BY OctetsOfBlock, Zenon
    <2>4. 0 \in Octets
        BY SMT DEF Octets
    <2>5. CASE q \in 0..(b - 1)
        <3>1. BlockAt(r, x, q)
            BY <1>1, <2>5, Zenon
        <3>2. 3 * q + 1 \in 1..n /\ 3 * q + 2 \in 1..n /\ 3 * q + 3 \in 1..n
            BY <1>1, <1>4, <2>5, SMT
        <3>3. x[3 * q + 1] \in Octets /\ x[3 * q + 2] \in Octets /\ x[3 * q + 3] \in Octets
            BY <1>8, <3>2, Zenon
        <3>4. /\ O1(r[4 * q + 1], r[4 * q + 2]) = x[3 * q + 1]
              /\ O2(r[4 * q + 2], r[4 * q + 3]) = x[3 * q + 2]
              /\ O3(r[4 * q + 3], r[4 * q + 4]) = x[3 * q + 3]
            <4>1. /\ r[4 * q + 1] = D1(x[3 * q + 1])
                  /\ r[4 * q + 2] = D2(x[3 * q + 1], x[3 * q + 2])
                  /\ r[4 * q + 3] = D3(x[3 * q + 2], x[3 * q + 3])
                  /\ r[4 * q + 4] = D4(x[3 * q + 3])
                BY <3>1, Zenon DEF BlockAt
            <4>2. O1(r[4 * q + 1], r[4 * q + 2]) = x[3 * q + 1]
                <5>1. O1(D1(x[3 * q + 1]), D2(x[3 * q + 1], x[3 * q + 2])) = x[3 * q + 1]
                    BY <3>3, <4>1, FirstByteBack, Zenon
                <5> QED
                    BY <5>1, <3>3, <4>1, Zenon
            <4>3. O2(r[4 * q + 2], r[4 * q + 3]) = x[3 * q + 2]
                <5>1. O2(D2(x[3 * q + 1], x[3 * q + 2]), D3(x[3 * q + 2], x[3 * q + 3])) = x[3 * q + 2]
                    BY <3>3, <4>1, SecondByteBack, Zenon
                <5> QED
                    BY <5>1, <3>3, <4>1, Zenon
            <4>4. O3(r[4 * q + 3], r[4 * q + 4]) = x[3 * q + 3]
                <5>1. O3(D3(x[3 * q + 2], x[3 * q + 3]), D4(x[3 * q + 3])) = x[3 * q + 3]
                    BY <3>3, <4>1, ThirdByteBack, Zenon
                <5> QED
                    BY <5>1, <3>3, <4>1, Zenon
            <4> QED
                BY <4>2, <4>3, <4>4, Zenon
        <3> QED
            BY <2>1, <2>2, <2>3, <3>4, Zenon
    <2>6. CASE q \notin 0..(b - 1)
        <3>1. q = b /\ ((i = 3 * b + 1 /\ (m = 1 \/ m = 2)) \/ (i = 3 * b + 2 /\ m = 2))
            <4>1. i <= 3 * b + m /\ q >= b
                BY <1>1, <1>3, <2>6, SMT
            <4> QED
                BY <1>1, <1>4, <2>2, <4>1, SMT
        <3>2. (m = 1 => 3 * b + 1 \in 1..n) /\ (m = 2 => 3 * b + 1 \in 1..n /\ 3 * b + 2 \in 1..n)
            BY <1>1, SMT
        <3>3. ASSUME m = 1 PROVE O1(r[4 * b + 1], r[4 * b + 2]) = x[3 * b + 1]
            <4>1. x[3 * b + 1] \in Octets
                BY <1>8, <3>2, <3>3, Zenon
            <4>2. O1(D1(x[3 * b + 1]), D2(x[3 * b + 1], 0)) = x[3 * b + 1]
                BY <2>4, <4>1, FirstByteBack, Zenon
            <4> QED
                BY <1>1, <3>3, <4>2, Zenon
        <3>4. ASSUME m = 2 PROVE /\ O1(r[4 * b + 1], r[4 * b + 2]) = x[3 * b + 1]
                                 /\ O2(r[4 * b + 2], r[4 * b + 3]) = x[3 * b + 2]
            <4>1. x[3 * b + 1] \in Octets /\ x[3 * b + 2] \in Octets
                BY <1>8, <3>2, <3>4, Zenon
            <4>2. /\ r[4 * b + 1] = D1(x[3 * b + 1])
                  /\ r[4 * b + 2] = D2(x[3 * b + 1], x[3 * b + 2])
                  /\ r[4 * b + 3] = D3(x[3 * b + 2], 0)
                BY <1>1, <3>4, Zenon
            <4>3. O1(r[4 * b + 1], r[4 * b + 2]) = x[3 * b + 1]
                <5>1. O1(D1(x[3 * b + 1]), D2(x[3 * b + 1], x[3 * b + 2])) = x[3 * b + 1]
                    BY <4>1, <4>2, FirstByteBack, Zenon
                <5> QED
                    BY <5>1, <4>1, <4>2, Zenon
            <4>4. O2(r[4 * b + 2], r[4 * b + 3]) = x[3 * b + 2]
                <5>1. O2(D2(x[3 * b + 1], x[3 * b + 2]), D3(x[3 * b + 2], 0)) = x[3 * b + 2]
                    BY <2>4, <4>1, <4>2, SecondByteBack, Zenon
                <5> QED
                    BY <5>1, <2>4, <4>1, <4>2, Zenon
            <4> QED
                BY <4>3, <4>4, Zenon
        <3> QED
            BY <2>1, <2>3, <3>1, <3>3, <3>4, Zenon
    <2> QED
        BY <2>5, <2>6, Zenon
<1> QED
    BY <1>2, <1>7, <1>9, SeqEqual, Zenon DEF n

LEMMA EncodingInvertsDecoding ==
    ASSUME NEW s \in Seq(Signs), NEW y, NEW j, NEW dst_len, IsDecoding(y, s, j, dst_len),
           NEW r, NEW b, IsEncoding(r, y, b)
    PROVE  Len(r) = j /\ IsPrefix(r, s)
<1> DEFINE n == Len(y)
           m == n % 3
<1>1. /\ r \in Seq(Digits) /\ Len(r) = EncodedLength(n)
      /\ b \in Nat /\ n = 3 * b + m
      /\ \A q \in 0..(b - 1) : BlockAt(r, y, q)
      /\ m = 1 => /\ r[4 * b + 1] = D1(y[3 * b + 1])
                  /\ r[4 * b + 2] = D2(y[3 * b + 1], 0)
      /\ m = 2 => /\ r[4 * b + 1] = D1(y[3 * b + 1])
                  /\ r[4 * b + 2] = D2(y[3 * b + 1], y[3 * b + 2])
                  /\ r[4 * b + 3] = D3(y[3 * b + 2], 0)
    BY Zenon DEF IsEncoding
<1>2. /\ j \in 0..Len(s) /\ \A i \in 1..j : s[i] \in Digits
      /\ y \in Seq(Octets) /\ n = (3 * j) \div 4
      /\ \A i \in 1..n : y[i] = OctetOf(s, i)
      /\ j % 4 # 1 /\ (j % 4 = 2 => s[j] % 16 = 0) /\ (j % 4 = 3 => s[j] % 4 = 0)
    BY Zenon DEF IsDecoding, DecodedUpTo
<1>3. n \in Nat /\ Len(s) \in Nat
    BY <1>2, LenProperties, Zenon
<1>4. m \in 0..2
    BY <1>3, SMT
<1>5. Len(r) = 4 * b + (IF m = 0 THEN 0 ELSE m + 1)
    BY <1>1, <1>3, LengthOfEncoding, Zenon
<1> HIDE DEF n, m
<1>6. /\ j \in Nat
      /\ m = 0 => j = 4 * b
      /\ m = 1 => j = 4 * b + 2 /\ j % 4 = 2
      /\ m = 2 => j = 4 * b + 3 /\ j % 4 = 3
    <2>1. j \in Nat
        BY <1>2, <1>3, SMT
    <2>2. PICK q \in Nat :
             \/ j = 4 * q /\ (6 * j) % 8 = 0 /\ (3 * j) \div 4 = 3 * q
             \/ j = 4 * q + 1 /\ (6 * j) % 8 = 6 /\ (3 * j) \div 4 = 3 * q
             \/ j = 4 * q + 2 /\ (6 * j) % 8 = 4 /\ (3 * j) \div 4 = 3 * q + 1
             \/ j = 4 * q + 3 /\ (6 * j) % 8 = 2 /\ (3 * j) \div 4 = 3 * q + 2
        BY <2>1, Positions, Zenon
    <2>3. j # 4 * q + 1
        BY <1>2, <2>1, SMT
    <2>4. \/ (j = 4 * q /\ n = 3 * q)
          \/ (j = 4 * q + 2 /\ n = 3 * q + 1)
          \/ (j = 4 * q + 3 /\ n = 3 * q + 2)
        BY <1>2, <2>2, <2>3, Zenon
    <2>5. \/ (j = 4 * q /\ b = q /\ m = 0)
          \/ (j = 4 * q + 2 /\ b = q /\ m = 1)
          \/ (j = 4 * q + 3 /\ b = q /\ m = 2)
        BY <1>1, <1>4, <2>4, SMT
    <2> QED
        BY <2>1, <2>5, SMT
<1>7. Len(r) = j
    BY <1>4, <1>5, <1>6, SMT
<1>8. \A q \in Nat : /\ 3 * q + 1 \in 1..n => y[3 * q + 1] = O1(s[4 * q + 1], s[4 * q + 2])
                     /\ 3 * q + 2 \in 1..n => y[3 * q + 2] = O2(s[4 * q + 2], s[4 * q + 3])
                     /\ 3 * q + 3 \in 1..n => y[3 * q + 3] = O3(s[4 * q + 3], s[4 * q + 4])
    BY <1>2, OctetsOfBlock, Zenon
<1>9. ASSUME NEW i \in 1..j PROVE r[i] = s[i]
    <2>1. PICK q \in Nat : i = 4 * q + 1 \/ i = 4 * q + 2 \/ i = 4 * q + 3 \/ i = 4 * q + 4
        <3>1. i \in Nat \ {0}
            BY <1>6, SMT
        <3> QED
            BY <3>1, PositionInDigits, Zenon
    <2>2. CASE q \in 0..(b - 1)
        <3>1. BlockAt(r, y, q)
            BY <1>1, <2>2, Zenon
        <3>2. /\ 3 * q + 1 \in 1..n /\ 3 * q + 2 \in 1..n /\ 3 * q + 3 \in 1..n
              /\ 4 * q + 1 \in 1..j /\ 4 * q + 2 \in 1..j /\ 4 * q + 3 \in 1..j /\ 4 * q + 4 \in 1..j
            BY <1>1, <1>4, <1>6, <2>2, SMT
        <3>3. /\ s[4 * q + 1] \in Digits /\ s[4 * q + 2] \in Digits
              /\ s[4 * q + 3] \in Digits /\ s[4 * q + 4] \in Digits
            BY <1>2, <3>2, Zenon
        <3>4. /\ y[3 * q + 1] = O1(s[4 * q + 1], s[4 * q + 2])
              /\ y[3 * q + 2] = O2(s[4 * q + 2], s[4 * q + 3])
              /\ y[3 * q + 3] = O3(s[4 * q + 3], s[4 * q + 4])
            BY <1>8, <3>2, Zenon
        <3>5. /\ D1(y[3 * q + 1]) = s[4 * q + 1] /\ D2(y[3 * q + 1], y[3 * q + 2]) = s[4 * q + 2]
              /\ D3(y[3 * q + 2], y[3 * q + 3]) = s[4 * q + 3] /\ D4(y[3 * q + 3]) = s[4 * q + 4]
            <4>1. D1(y[3 * q + 1]) = s[4 * q + 1]
                <5>1. D1(O1(s[4 * q + 1], s[4 * q + 2])) = s[4 * q + 1]
                    BY <3>3, <3>4, FirstDigitBack, Zenon
                <5> QED
                    BY <5>1, <3>3, <3>4, Zenon
            <4>2. D2(y[3 * q + 1], y[3 * q + 2]) = s[4 * q + 2]
                <5>1. D2(O1(s[4 * q + 1], s[4 * q + 2]), O2(s[4 * q + 2], s[4 * q + 3])) = s[4 * q + 2]
                    BY <3>3, <3>4, SecondDigitBack, Zenon
                <5> QED
                    BY <5>1, <3>3, <3>4, Zenon
            <4>3. D3(y[3 * q + 2], y[3 * q + 3]) = s[4 * q + 3]
                <5>1. D3(O2(s[4 * q + 2], s[4 * q + 3]), O3(s[4 * q + 3], s[4 * q + 4])) = s[4 * q + 3]
                    BY <3>3, <3>4, ThirdDigitBack, Zenon
                <5> QED
                    BY <5>1, <3>3, <3>4, Zenon
            <4>4. D4(y[3 * q + 3]) = s[4 * q + 4]
                <5>1. D4(O3(s[4 * q + 3], s[4 * q + 4])) = s[4 * q + 4]
                    BY <3>3, <3>4, FourthDigitBack, Zenon
                <5> QED
                    BY <5>1, <3>3, <3>4, Zenon
            <4> QED
                BY <4>1, <4>2, <4>3, <4>4, Zenon
        <3> QED
            BY <2>1, <3>1, <3>5, Zenon DEF BlockAt
    <2>3. CASE q \notin 0..(b - 1)
        <3>0. i <= j /\ q >= b
            BY <1>1, <1>6, <2>3, SMT
        <3>1. q = b /\ \/ (m = 1 /\ i = 4 * b + 1)
                       \/ (m = 1 /\ i = 4 * b + 2)
                       \/ (m = 2 /\ i = 4 * b + 1)
                       \/ (m = 2 /\ i = 4 * b + 2)
                       \/ (m = 2 /\ i = 4 * b + 3)
            BY <1>1, <1>4, <1>6, <2>1, <3>0, SMT
        <3>2. ASSUME m = 1 PROVE r[4 * b + 1] = s[4 * b + 1] /\ r[4 * b + 2] = s[4 * b + 2]
            <4>1. 3 * b + 1 \in 1..n /\ 4 * b + 1 \in 1..j /\ 4 * b + 2 \in 1..j /\ j = 4 * b + 2
                BY <1>1, <1>6, <3>2, SMT
            <4>2. s[4 * b + 1] \in Digits /\ s[4 * b + 2] \in Digits /\ s[4 * b + 2] % 16 = 0
                BY <1>2, <1>6, <3>2, <4>1, Zenon
            <4>3. y[3 * b + 1] = O1(s[4 * b + 1], s[4 * b + 2])
                BY <1>1, <1>8, <4>1, Zenon
            <4>4. D1(y[3 * b + 1]) = s[4 * b + 1]
                <5>1. D1(O1(s[4 * b + 1], s[4 * b + 2])) = s[4 * b + 1]
                    BY <4>2, <4>3, FirstDigitBack, Zenon
                <5> QED
                    BY <5>1, <4>2, <4>3, Zenon
            <4>5. D2(y[3 * b + 1], 0) = s[4 * b + 2]
                <5>1. D2(O1(s[4 * b + 1], s[4 * b + 2]), 0) = s[4 * b + 2]
                    BY <4>2, <4>3, LastDigitBack, Zenon
                <5> QED
                    BY <5>1, <4>2, <4>3, Zenon
            <4> QED
                BY <1>1, <3>2, <4>4, <4>5, Zenon
        <3>3. ASSUME m = 2 PROVE /\ r[4 * b + 1] = s[4 * b + 1] /\ r[4 * b + 2] = s[4 * b + 2]
                                 /\ r[4 * b + 3] = s[4 * b + 3]
            <4>1. /\ 3 * b + 1 \in 1..n /\ 3 * b + 2 \in 1..n /\ j = 4 * b + 3
                  /\ 4 * b + 1 \in 1..j /\ 4 * b + 2 \in 1..j /\ 4 * b + 3 \in 1..j
                BY <1>1, <1>6, <3>3, SMT
            <4>2. /\ s[4 * b + 1] \in Digits /\ s[4 * b + 2] \in Digits /\ s[4 * b + 3] \in Digits
                  /\ s[4 * b + 3] % 4 = 0
                BY <1>2, <1>6, <3>3, <4>1, Zenon
            <4>3. y[3 * b + 1] = O1(s[4 * b + 1], s[4 * b + 2]) /\ y[3 * b + 2] = O2(s[4 * b + 2], s[4 * b + 3])
                BY <1>1, <1>8, <4>1, Zenon
            <4>4. D1(y[3 * b + 1]) = s[4 * b + 1]
                <5>1. D1(O1(s[4 * b + 1], s[4 * b + 2])) = s[4 * b + 1]
                    BY <4>2, <4>3, FirstDigitBack, Zenon
                <5> QED
                    BY <5>1, <4>2, <4>3, Zenon
            <4>5. D2(y[3 * b + 1], y[3 * b + 2]) = s[4 * b + 2]
                <5>1. D2(O1(s[4 * b + 1], s[4 * b + 2]), O2(s[4 * b + 2], s[4 * b + 3])) = s[4 * b + 2]
                    BY <4>2, <4>3, SecondDigitBack, Zenon
                <5> QED
                    BY <5>1, <4>2, <4>3, Zenon
            <4>6. D3(y[3 * b + 2], 0) = s[4 * b + 3]
                <5>1. D3(O2(s[4 * b + 2], s[4 * b + 3]), 0) = s[4 * b + 3]
                    BY <4>2, <4>3, LastDigitBack, Zenon
                <5> QED
                    BY <5>1, <4>2, <4>3, Zenon
            <4> QED
                BY <1>1, <3>3, <4>4, <4>5, <4>6, Zenon
        <3> QED
            BY <3>1, <3>2, <3>3, Zenon
    <2> QED
        BY <2>2, <2>3, Zenon
<1>10. IsPrefix(r, s)
    <2>1. Len(r) <= Len(s)
        BY <1>2, <1>3, <1>7, SMT
    <2>2. 64 \in Signs /\ Digits \subseteq Signs
        BY SMT DEF Signs, Digits
    <2>3. r \in Seq(Signs)
        BY <1>1, <2>2, SeqMonotonic, Zenon
    <2>4. SubSeq(r, 1, Len(r)) = r
        BY <1>1, SubSeqFull, Zenon
    <2>5. j \in Int /\ 1 \in Int /\ (1 <= j => j - 1 + 1 = j) /\ (~(1 <= j) => j = 0) /\ \A i \in 1..j : 1 + i - 1 = i
        BY <1>6, SMT
    <2>6. \A i \in 1..j : s[i] \in Signs
        BY <1>2, <2>2, Zenon
    <2>7. /\ SubSeq(s, 1, j) \in Seq(Signs)
          /\ Len(SubSeq(s, 1, j)) = IF 1 <= j THEN j - 1 + 1 ELSE 0
          /\ \A i \in 1..(j - 1 + 1) : SubSeq(s, 1, j)[i] = s[1 + i - 1]
        BY <2>5, <2>6, SubSeqProperties, SMT
    <2>8. Len(SubSeq(s, 1, j)) = j
        BY <2>5, <2>7, Zenon
    <2>9. \A i \in 1..j : SubSeq(s, 1, j)[i] = s[i]
        BY <1>6, <2>7, SMT
    <2>10. SubSeq(s, 1, j) = r
        BY <1>7, <1>9, <2>3, <2>7, <2>8, <2>9, SeqEqual, Zenon
    <2> QED
        BY <1>7, <2>1, <2>4, <2>10, Zenon DEF IsPrefix
<1> QED
    BY <1>7, <1>10, Zenon

-----------------------------------------------------------------------------
(* The conversion buffer. *)

(* grown is right for what is larger than space - i. *)
Grows(grown, n, space, i) ==
    \A k \in 1..n : k >= space - i => grown[k] = IF k >= space THEN k ELSE grown[2 * k]

LEMMA GrowthExists ==
    ASSUME NEW space \in Nat, NEW c \in Positive
    PROVE  \E g \in [1..(2 * (space + c)) -> Positive] : Grows(g, 2 * (space + c), space, space)
<1> DEFINE n == 2 * (space + c)
           S == {i \in 0..space : \E g \in [1..n -> Positive] : Grows(g, n, space, i)}
<1>1. n \in Nat /\ n >= 2 * space
    BY SMT DEF Positive
<1> HIDE DEF n
<1>2. 0 \in S
    <2> DEFINE g == [k \in 1..n |-> k]
    <2>1. \A k \in 1..n : k \in Positive /\ (k >= space - 0 => k >= space)
        BY <1>1, SMT DEF Positive
    <2>2. g \in [1..n -> Positive]
        BY <2>1, Zenon
    <2>3. \A k \in 1..n : g[k] = k
        BY Zenon
    <2> HIDE DEF g
    <2>4. Grows(g, n, space, 0)
        BY <2>1, <2>3, Zenon DEF Grows
    <2>5. 0 \in 0..space
        BY SMT
    <2> QED
        BY <2>2, <2>4, <2>5, Zenon
<1>3. ASSUME NEW i \in 0..(space - 1), i \in S PROVE i + 1 \in S
    <2>1. PICK g \in [1..n -> Positive] : Grows(g, n, space, i)
        BY <1>3, Zenon
    <2> DEFINE h == [k \in 1..n |-> IF k >= space THEN k ELSE g[2 * k]]
    <2>2. ASSUME NEW k \in 1..n
          PROVE  /\ h[k] \in Positive
                 /\ k >= space - (i + 1) => h[k] = IF k >= space THEN k ELSE h[2 * k]
        <3>1. k \in Positive
            BY <1>1, SMT DEF Positive
        <3>2. CASE k >= space
            <4>1. h[k] = k
                BY <3>2, Zenon
            <4> QED
                BY <3>1, <3>2, <4>1, Zenon
        <3>3. CASE ~(k >= space)
            <4>1. 2 * k \in 1..n
                BY <1>1, <3>3, SMT
            <4>2. h[k] = g[2 * k] /\ g[2 * k] \in Positive
                BY <3>3, <4>1, Zenon
            <4>3. ASSUME k >= space - (i + 1) PROVE h[k] = h[2 * k]
                <5>1. 2 * k >= space - i
                    BY <1>1, <4>3, SMT
                <5>2. g[2 * k] = IF 2 * k >= space THEN 2 * k ELSE g[2 * (2 * k)]
                    BY <2>1, <4>1, <5>1, Zenon DEF Grows
                <5>3. h[2 * k] = IF 2 * k >= space THEN 2 * k ELSE g[2 * (2 * k)]
                    BY <4>1, Zenon
                <5> QED
                    BY <4>2, <5>2, <5>3, Zenon
            <4> QED
                BY <3>3, <4>2, <4>3, Zenon
        <3> QED
            BY <3>2, <3>3, Zenon
    <2>3. h \in [1..n -> Positive]
        <3>1. h = [k \in 1..n |-> h[k]]
            BY Zenon
        <3> HIDE DEF h
        <3> QED
            BY <2>2, <3>1, Zenon
    <2> HIDE DEF h
    <2>4. Grows(h, n, space, i + 1)
        BY <2>2, Zenon DEF Grows
    <2>5. i + 1 \in 0..space
        BY SMT
    <2> QED
        BY <2>3, <2>4, <2>5, Zenon
<1> HIDE DEF S
<1>4. \A i \in 0..space : i \in S
    BY <1>2, <1>3, BoundedInduction, Zenon
<1>5. space \in 0..space
    BY SMT
<1> QED
    BY <1>4, <1>5, Zenon DEF S, n

LEMMA ReserveType == ASSUME capacity \in Positive, NEW space \in Nat PROVE Reserve(space) \in Positive
<1> DEFINE n == 2 * (space + capacity)
           Is(g) == g = [k \in 1..n |-> IF k >= space THEN k ELSE g[2 * k]]
           grown == CHOOSE g : Is(g)
<1>1. Reserve(space) = grown[capacity]
    BY Zenon DEF Reserve
<1>2. n \in Nat /\ n >= 2 * space /\ capacity \in 1..n /\ \A k \in 1..n : k >= space - space
    BY SMT DEF Positive
<1> HIDE DEF n
<1>3. \E g : Is(g)
    <2>1. PICK g \in [1..n -> Positive] : Grows(g, n, space, space)
        BY GrowthExists, Zenon DEF n
    <2>2. \A k \in 1..n : g[k] = IF k >= space THEN k ELSE g[2 * k]
        BY <1>2, <2>1, Zenon DEF Grows
    <2>3. g = [k \in 1..n |-> g[k]]
        BY Zenon
    <2> QED
        BY <2>2, <2>3, Zenon
<1>4. Is(grown)
    <2> HIDE DEF Is
    <2> QED
        BY <1>3, Zenon
<1> HIDE DEF grown
<1>5. \A k \in 1..n : grown[k] = IF k >= space THEN k ELSE grown[2 * k]
    BY <1>4, Zenon
<1> HIDE DEF Is
<1> DEFINE S == {i \in 0..space : \A k \in 1..n : k >= space - i => grown[k] \in Positive}
<1>6. 0 \in S
    <2>1. \A k \in 1..n : k \in Positive /\ (k >= space - 0 => k >= space)
        BY <1>2, SMT DEF Positive
    <2>2. 0 \in 0..space
        BY SMT
    <2> QED
        BY <1>5, <2>1, <2>2, Zenon
<1>7. ASSUME NEW i \in 0..(space - 1), i \in S PROVE i + 1 \in S
    <2>1. \A k \in 1..n : k >= space - i => grown[k] \in Positive
        BY <1>7, Zenon
    <2>2. ASSUME NEW k \in 1..n, k >= space - (i + 1) PROVE grown[k] \in Positive
        <3>1. CASE k >= space
            <4>1. k \in Positive
                BY <1>2, SMT DEF Positive
            <4> QED
                BY <1>5, <3>1, <4>1, Zenon
        <3>2. CASE ~(k >= space)
            <4>1. 2 * k \in 1..n /\ 2 * k >= space - i
                BY <1>2, <2>2, <3>2, SMT
            <4> QED
                BY <1>5, <2>1, <3>2, <4>1, Zenon
        <3> QED
            BY <3>1, <3>2, Zenon
    <2>3. i + 1 \in 0..space
        BY SMT
    <2> QED
        BY <2>2, <2>3, Zenon
<1> HIDE DEF S
<1>8. \A i \in 0..space : i \in S
    BY <1>6, <1>7, BoundedInduction, Zenon
<1>9. space \in 0..space
    BY SMT
<1> QED
    BY <1>1, <1>2, <1>8, <1>9, Zenon DEF S

-----------------------------------------------------------------------------
(* The invariant of crypto: what was encoded from an input of the script is its encoding. *)
OwnIsEncoded ==
    (conversion.input # None /\ conversion.encoded # None) =>
        IsEncoding(conversion.encoded, conversion.input, Len(conversion.input) \div 3)

CryptoInv ==
    /\ CryptoTypeOK /\ capacity \in Positive
    /\ kdf.returned <= kdf.hashes
    /\ Base64RoundTrips /\ ForeignBase64IsCanonical /\ ConversionsFit
    /\ OwnIsEncoded

Conversions == [input : Inputs \cup {None}, encoded : Seq(0..INVALID) \cup {None},
                decoded : Seq(0..(2^BYTE_BITS - 1)) \cup {None}, written : Int]
Hashes == [objects : Nat, threads : 0..1, hashes : 0..MaxHashes, success : BOOLEAN,
           returned : 0..MaxHashes]

LEMMA SignsAre ==
    CodeWidths => /\ 0..INVALID = Signs /\ 0..(2^BYTE_BITS - 1) = Octets
                  /\ Digits \subseteq Signs /\ Bytes \subseteq Octets
<1> SUFFICES ASSUME CodeWidths
             PROVE  /\ 0..INVALID = Signs /\ 0..(2^BYTE_BITS - 1) = Octets
                    /\ Digits \subseteq Signs /\ Bytes \subseteq Octets
    BY Zenon
<1>1. 2^BYTE_BITS = 256 /\ INVALID = 64
    BY Widths, SMT
<1>2. 0..INVALID = Signs /\ 0..(2^BYTE_BITS - 1) = Octets
    BY <1>1, SMT DEF Signs, Octets
<1>3. Digits \subseteq Signs
    BY SMT DEF Digits, Signs
<1>4. Bytes \subseteq Octets
    BY <1>2, BytesAssumption, Zenon
<1> QED
    BY <1>2, <1>3, <1>4, Zenon

LEMMA InputsAre ==
    CodeWidths => \A x \in Inputs : x \in Seq(Octets) /\ Len(x) \in Nat
<1> SUFFICES ASSUME CodeWidths, NEW x \in Inputs PROVE x \in Seq(Octets) /\ Len(x) \in Nat
    BY Zenon
<1>1. PICK n \in 0..MaxInput : x \in [1..n -> Bytes]
    BY Zenon DEF Inputs
<1>2. n \in Nat
    BY SizesAssumption, SMT
<1>3. \A i \in 1..n : x[i] \in Octets
    BY <1>1, SignsAre, Zenon
<1>4. x = [i \in 1..n |-> x[i]]
    BY <1>1, Zenon
<1>5. x \in [1..n -> Octets]
    BY <1>3, <1>4, Zenon
<1>6. x \in Seq(Octets) /\ Len(x) = n
    BY <1>2, <1>5, FunctionIsSequence, Zenon
<1> QED
    BY <1>2, <1>6, Zenon

(* What the encoder returns for an input. *)
LEMMA InputIsEncoded ==
    ASSUME CodeWidths, NEW x \in Inputs, NEW dst_len \in Nat,
           NEW e, e = argon2_to_base64(dst_len, x), e # None
    PROVE  IsEncoding(e, x, Len(x) \div 3) /\ Len(e) + 1 <= dst_len /\ e \in Seq(0..INVALID) /\ Len(e) \in Nat
<1>1. x \in Seq(Octets) /\ Len(x) \in Nat
    BY InputsAre, Zenon
<1>2. e = IF dst_len <= EncodedLength(Len(x)) THEN None ELSE Encoding(x)
    BY EncodingOrNone, Zenon
<1>3. ~(dst_len <= EncodedLength(Len(x))) /\ e = Encoding(x)
    BY <1>2, Zenon
<1>4. IsEncoding(e, x, Len(x) \div 3)
    BY <1>1, <1>3, EncodingIsRight, Zenon
<1>5. e \in Seq(Digits) /\ Len(e) = EncodedLength(Len(x))
    BY <1>4, Zenon DEF IsEncoding
<1>6. Len(e) \in Nat
    BY <1>5, LenProperties, Zenon
<1>7. Len(e) + 1 <= dst_len
    BY <1>3, <1>5, <1>6, SMT
<1>8. e \in Seq(0..INVALID)
    BY <1>5, SignsAre, SeqMonotonic, Zenon
<1> QED
    BY <1>4, <1>6, <1>7, <1>8, Zenon

LEMMA EncodedLengthType == \A n \in Nat : EncodedLength(n) \in Nat
<1> SUFFICES ASSUME NEW n \in Nat PROVE EncodedLength(n) \in Nat
    BY Zenon
<1>1. n \div 3 \in Nat
    BY SMT
<1> QED
    BY <1>1, SMT DEF EncodedLength

LEMMA EncodeConversionStep ==
    ASSUME CodeWidths, CryptoInv, NEW x \in Inputs, toCompactBase64(x)
    PROVE  CryptoInv'
<1> DEFINE len == Reserve(EncodedLength(Len(x)))
           e == argon2_to_base64(len, x)
           w == IF e = None THEN SIZE_MAX ELSE Len(e) + 1
<1>1. capacity \in Positive /\ kdf.returned <= kdf.hashes /\ kdf \in Hashes
    BY Zenon DEF CryptoInv, CryptoTypeOK, Hashes
<1>2. /\ capacity' = len /\ kdf' = kdf
      /\ conversion' = [input |-> x, encoded |-> e, decoded |-> None, written |-> w]
    BY Zenon DEF toCompactBase64
<1>3. len \in Positive
    BY <1>1, InputsAre, EncodedLengthType, ReserveType, Zenon
<1> HIDE DEF len
<1>4. len \in Nat /\ len >= -1
    BY <1>3, SMT DEF Positive
<1> DEFINE Goal == /\ e \in Seq(0..INVALID) \cup {None} /\ w \in Int /\ w <= len
                   /\ e # None => IsEncoding(e, x, Len(x) \div 3)
<1>5. ASSUME e = None PROVE Goal
    <2>1. w = -1
        BY <1>5, Zenon DEF SIZE_MAX
    <2>2. w \in Int /\ w <= len
        BY <1>4, <2>1, SMT
    <2> QED
        BY <1>5, <2>2, Zenon
<1>6. ASSUME e # None PROVE Goal
    <2>0. e = argon2_to_base64(len, x)
        BY Zenon
    <2> HIDE DEF e
    <2>1. IsEncoding(e, x, Len(x) \div 3) /\ Len(e) + 1 <= len /\ e \in Seq(0..INVALID) /\ Len(e) \in Nat
        BY <1>4, <1>6, <2>0, InputIsEncoded, Zenon
    <2>2. w = Len(e) + 1 /\ Len(e) + 1 \in Int
        BY <1>6, <2>1, SMT
    <2> QED
        BY <2>1, <2>2, Zenon
<1> HIDE DEF e, w
<1>7. Goal
    <2> HIDE DEF Goal
    <2> QED
        BY <1>5, <1>6, Zenon
<1>8. /\ conversion'.input = x /\ conversion'.encoded = e /\ conversion'.decoded = None
      /\ conversion'.written = w
    BY <1>2, Zenon
<1>9. conversion' \in Conversions
    BY <1>2, <1>7, Zenon DEF Conversions
<1>10. CryptoTypeOK'
    BY <1>1, <1>2, <1>4, <1>9, Zenon DEF CryptoTypeOK, Conversions, Hashes
<1>11. Base64RoundTrips' /\ ForeignBase64IsCanonical'
    BY <1>8, Zenon DEF Base64RoundTrips, ForeignBase64IsCanonical
<1>12. ConversionsFit'
    BY <1>2, <1>7, <1>8, Zenon DEF ConversionsFit
<1>13. OwnIsEncoded'
    BY <1>7, <1>8, Zenon DEF OwnIsEncoded
<1>14. capacity' \in Positive /\ kdf'.returned <= kdf'.hashes
    BY <1>1, <1>2, <1>3, Zenon
<1> QED
    BY <1>10, <1>11, <1>12, <1>13, <1>14, Zenon DEF CryptoInv

(* What the decoder returns. *)
LEMMA CharactersAreDecoded ==
    ASSUME CodeWidths, NEW s \in Seq(Signs), NEW dst_len \in Nat,
           NEW d, d = argon2_from_base64(dst_len, s), d # None
    PROVE  /\ d \in Seq(Octets) /\ Len(d) <= dst_len /\ Len(d) \in Nat
           /\ \E j : IsDecoding(d, s, j, dst_len)
<1>1. PICK j : IsDecoding(argon2_from_base64(dst_len, s), s, j, dst_len)
    BY DecodingIsRight, Zenon
<1>2. d \in Seq(Octets) /\ Len(d) <= dst_len
    BY <1>1, Zenon DEF IsDecoding, DecodedUpTo
<1>3. Len(d) \in Nat
    BY <1>2, LenProperties, Zenon
<1> QED
    BY <1>1, <1>2, <1>3, Zenon

(* Every decoder step: the input and its encoding stay as they are, or there is none. *)
LEMMA DecodeConversionStep ==
    ASSUME CodeWidths, CryptoInv, NEW s \in Seq(Signs), fromCompactBase64(s),
           \/ conversion.input # None /\ conversion.encoded # None /\ s = conversion.encoded
           \/ conversion.input = None /\ Len(s) <= MaxInput
    PROVE  CryptoInv'
<1> DEFINE len == Reserve((3 * Len(s) + 3) \div 4)
           d == argon2_from_base64(len, s)
           w == IF d = None THEN SIZE_MAX ELSE Len(d)
<1>1. /\ capacity \in Positive /\ kdf.returned <= kdf.hashes /\ kdf \in Hashes /\ conversion \in Conversions
      /\ OwnIsEncoded
    BY Zenon DEF CryptoInv, CryptoTypeOK, Hashes, Conversions
<1>2. /\ capacity' = len /\ kdf' = kdf
      /\ conversion' = [conversion EXCEPT !.encoded = s, !.decoded = d, !.written = w]
    BY Zenon DEF fromCompactBase64
<1>3. len \in Positive
    <2>1. Len(s) \in Nat
        BY LenProperties, Zenon
    <2>2. (3 * Len(s) + 3) \div 4 \in Nat
        BY <2>1, SMT
    <2> QED
        BY <1>1, <2>2, ReserveType, Zenon
<1> HIDE DEF len
<1>4. len \in Nat /\ len >= -1
    BY <1>3, SMT DEF Positive
<1> DEFINE Goal == /\ d \in Seq(Octets) \cup {None} /\ w \in Int /\ w <= len
                   /\ d # None => \E j : IsDecoding(d, s, j, len)
<1>5. ASSUME d = None PROVE Goal
    <2>1. w = -1
        BY <1>5, Zenon DEF SIZE_MAX
    <2>2. w \in Int /\ w <= len
        BY <1>4, <2>1, SMT
    <2> QED
        BY <1>5, <2>2, Zenon
<1>6. ASSUME d # None PROVE Goal
    <2>0. d = argon2_from_base64(len, s)
        BY Zenon
    <2> HIDE DEF d
    <2>1. /\ d \in Seq(Octets) /\ Len(d) <= len /\ Len(d) \in Nat
          /\ \E j : IsDecoding(d, s, j, len)
        BY <1>4, <1>6, <2>0, CharactersAreDecoded, Zenon
    <2>2. w = Len(d) /\ Len(d) \in Int
        BY <1>6, <2>1, SMT
    <2> QED
        BY <2>1, <2>2, Zenon
<1> HIDE DEF d, w
<1>7. Goal
    <2> HIDE DEF Goal
    <2> QED
        BY <1>5, <1>6, Zenon
<1>8. conversion' = [input |-> conversion.input, encoded |-> s, decoded |-> d, written |-> w]
    BY <1>1, <1>2, Zenon DEF Conversions
<1>9. /\ conversion'.input = conversion.input /\ conversion'.encoded = s /\ conversion'.decoded = d
      /\ conversion'.written = w
    BY <1>8, Zenon
<1>10. conversion' \in Conversions
    <2>1. conversion.input \in Inputs \cup {None}
        BY <1>1, Zenon DEF Conversions
    <2>2. s \in Seq(0..INVALID) \cup {None} /\ d \in Seq(0..(2^BYTE_BITS - 1)) \cup {None}
        BY <1>7, SignsAre, Zenon
    <2> QED
        BY <1>7, <1>8, <2>1, <2>2, Zenon DEF Conversions
<1>11. CryptoTypeOK'
    BY <1>1, <1>2, <1>4, <1>10, Zenon DEF CryptoTypeOK, Conversions, Hashes
<1>12. ConversionsFit'
    BY <1>2, <1>7, <1>9, Zenon DEF ConversionsFit
<1>13. OwnIsEncoded'
    BY <1>1, <1>9, Zenon DEF OwnIsEncoded
<1>14. Base64RoundTrips'
    <2> SUFFICES ASSUME conversion.input # None, d # None PROVE d = conversion.input
        BY <1>9, Zenon DEF Base64RoundTrips
    <2>1. s = conversion.encoded /\ conversion.encoded # None
        BY Zenon
    <2>2. IsEncoding(s, conversion.input, Len(conversion.input) \div 3)
        BY <1>1, <2>1, Zenon DEF OwnIsEncoded
    <2>3. conversion.input \in Inputs
        BY <1>1, Zenon DEF Conversions
    <2>4. conversion.input \in Seq(Octets)
        BY <2>3, InputsAre, Zenon
    <2>5. PICK j : IsDecoding(d, s, j, len)
        BY <1>7, Zenon
    <2> QED
        BY <2>2, <2>4, <2>5, DecodingInvertsEncoding, Zenon
<1>15. ForeignBase64IsCanonical'
    <2> SUFFICES ASSUME conversion.input = None, d # None
                 PROVE  IsPrefix(argon2_to_base64(4 * MaxInput, d), s)
        BY <1>9, Zenon DEF ForeignBase64IsCanonical
    <2>1. Len(s) <= MaxInput
        BY Zenon
    <2>2. PICK j : IsDecoding(d, s, j, len)
        BY <1>7, Zenon
    <2>3. d \in Seq(Octets) /\ j \in 0..Len(s)
        BY <2>2, Zenon DEF IsDecoding, DecodedUpTo
    <2>4. IsEncoding(Encoding(d), d, Len(d) \div 3)
        BY <2>3, EncodingIsRight, Zenon
    <2>5. Len(Encoding(d)) = j /\ IsPrefix(Encoding(d), s)
        BY <2>2, <2>4, EncodingInvertsDecoding, Zenon
    <2>6. EncodedLength(Len(d)) = j
        BY <2>4, <2>5, Zenon DEF IsEncoding
    <2>7. ~(4 * MaxInput <= j)
        <3>1. Len(s) \in Nat
            BY LenProperties, Zenon
        <3> QED
            BY <2>1, <2>3, <3>1, SizesAssumption, SMT
    <2>8. argon2_to_base64(4 * MaxInput, d) = Encoding(d)
        BY <2>6, <2>7, EncodingOrNone, Zenon
    <2> QED
        BY <2>5, <2>8, Zenon
<1>16. capacity' \in Positive /\ kdf'.returned <= kdf'.hashes
    BY <1>1, <1>2, <1>3, Zenon
<1> QED
    BY <1>11, <1>12, <1>13, <1>14, <1>15, <1>16, Zenon DEF CryptoInv

LEMMA ForeignCharacters ==
    CodeWidths => \A n \in 0..MaxInput : \A s \in [1..n -> 0..INVALID] : s \in Seq(Signs) /\ Len(s) <= MaxInput
<1> SUFFICES ASSUME CodeWidths, NEW n \in 0..MaxInput, NEW s \in [1..n -> 0..INVALID]
             PROVE  s \in Seq(Signs) /\ Len(s) <= MaxInput
    BY Zenon
<1>1. n \in Nat /\ n <= MaxInput
    BY SizesAssumption, SMT
<1>2. s \in [1..n -> Signs]
    BY SignsAre, Zenon
<1>3. s \in Seq(Signs) /\ Len(s) = n
    BY <1>1, <1>2, FunctionIsSequence, Zenon
<1> QED
    BY <1>1, <1>3, Zenon

LEMMA NoConversionHolds ==
    ASSUME conversion = NoConversion, capacity \in Positive
    PROVE  /\ conversion \in Conversions
           /\ Base64RoundTrips /\ ForeignBase64IsCanonical /\ ConversionsFit /\ OwnIsEncoded
<1>1. /\ conversion.input = None /\ conversion.encoded = None /\ conversion.decoded = None
      /\ conversion.written = 0
    BY Zenon DEF NoConversion
<1>2. 0 \in Int /\ 0 <= capacity
    BY SMT DEF Positive
<1>3. conversion \in Conversions
    BY <1>2, Zenon DEF NoConversion, Conversions
<1>4. Base64RoundTrips /\ ForeignBase64IsCanonical /\ OwnIsEncoded
    BY <1>1, Zenon DEF Base64RoundTrips, ForeignBase64IsCanonical, OwnIsEncoded
<1>5. ConversionsFit
    BY <1>1, <1>2, Zenon DEF ConversionsFit
<1> QED
    BY <1>3, <1>4, <1>5, Zenon

LEMMA NoConversionHoldsNext ==
    (conversion = NoConversion /\ capacity \in Positive =>
        /\ conversion \in Conversions
        /\ Base64RoundTrips /\ ForeignBase64IsCanonical /\ ConversionsFit /\ OwnIsEncoded)'
<1>1. conversion = NoConversion /\ capacity \in Positive =>
        /\ conversion \in Conversions
        /\ Base64RoundTrips /\ ForeignBase64IsCanonical /\ ConversionsFit /\ OwnIsEncoded
    BY NoConversionHolds, Zenon
<1> QED
    BY <1>1, PTL

LEMMA CryptoInitHolds == CryptoInit => CryptoInv
<1> SUFFICES ASSUME CryptoInit PROVE CryptoInv
    BY Zenon
<1>1. /\ capacity = InitialCapacity /\ conversion = NoConversion
      /\ kdf = [objects |-> 0, threads |-> 0, hashes |-> 0, success |-> FALSE, returned |-> 0]
    BY Zenon DEF CryptoInit
<1>2. capacity \in Positive
    BY <1>1, SizesAssumption, Zenon DEF Positive
<1>3. capacity \in Nat
    BY <1>2, SMT DEF Positive
<1>4. 0 \in Nat /\ 0 \in 0..1 /\ 0 \in 0..MaxHashes /\ 0 <= 0 /\ FALSE \in BOOLEAN
    BY SizesAssumption, SMT
<1>5. kdf \in Hashes /\ kdf.returned <= kdf.hashes
    BY <1>1, <1>4, Zenon DEF Hashes
<1>6. /\ conversion \in Conversions
      /\ Base64RoundTrips /\ ForeignBase64IsCanonical /\ ConversionsFit /\ OwnIsEncoded
    BY <1>1, <1>2, NoConversionHolds, Zenon
<1> QED
    BY <1>2, <1>3, <1>5, <1>6, Zenon DEF CryptoInv, CryptoTypeOK, Conversions, Hashes

LEMMA HashStep == CryptoInv /\ openssl_kdf_derive => CryptoInv'
<1> SUFFICES ASSUME CryptoInv, openssl_kdf_derive PROVE CryptoInv'
    BY Zenon
<1>1. capacity \in Positive /\ capacity \in Nat /\ kdf.returned <= kdf.hashes /\ kdf \in Hashes
    BY Zenon DEF CryptoInv, CryptoTypeOK, Hashes
<1>2. /\ conversion = NoConversion /\ kdf.hashes < MaxHashes
      /\ capacity' = capacity /\ conversion' = conversion
      /\ \/ kdf' = [kdf EXCEPT !.objects = @ + 2, !.threads = 1, !.hashes = @ + 1,
                               !.success = TRUE, !.returned = @ + 1]
         \/ kdf' = [kdf EXCEPT !.threads = 0, !.hashes = @ + 1, !.success = FALSE]
    BY Zenon DEF openssl_kdf_derive
<1>3. kdf' \in Hashes /\ kdf'.returned <= kdf'.hashes
    <2>1. /\ kdf.objects \in Nat /\ kdf.hashes \in 0..MaxHashes /\ kdf.returned \in 0..MaxHashes
          /\ kdf.threads \in 0..1 /\ kdf.success \in BOOLEAN
        BY <1>1, Zenon DEF Hashes
    <2>2. /\ kdf.objects + 2 \in Nat /\ kdf.hashes + 1 \in 0..MaxHashes /\ kdf.returned + 1 \in 0..MaxHashes
          /\ kdf.returned + 1 <= kdf.hashes + 1 /\ kdf.returned <= kdf.hashes + 1
          /\ 0 \in 0..1 /\ 1 \in 0..1
        BY <1>1, <1>2, <2>1, SizesAssumption, SMT
    <2>3. CASE kdf' = [kdf EXCEPT !.objects = @ + 2, !.threads = 1, !.hashes = @ + 1,
                                  !.success = TRUE, !.returned = @ + 1]
        <3>1. kdf' = [objects |-> kdf.objects + 2, threads |-> 1, hashes |-> kdf.hashes + 1,
                      success |-> TRUE, returned |-> kdf.returned + 1]
            BY <1>1, <2>3, Zenon DEF Hashes
        <3> QED
            BY <2>2, <3>1, Zenon DEF Hashes
    <2>4. CASE kdf' = [kdf EXCEPT !.threads = 0, !.hashes = @ + 1, !.success = FALSE]
        <3>1. kdf' = [objects |-> kdf.objects, threads |-> 0, hashes |-> kdf.hashes + 1,
                      success |-> FALSE, returned |-> kdf.returned]
            BY <1>1, <2>4, Zenon DEF Hashes
        <3> QED
            BY <2>1, <2>2, <3>1, Zenon DEF Hashes
    <2> QED
        BY <1>2, <2>3, <2>4, Zenon
<1>4. /\ conversion' \in Conversions
      /\ Base64RoundTrips' /\ ForeignBase64IsCanonical' /\ ConversionsFit' /\ OwnIsEncoded'
    BY <1>1, <1>2, NoConversionHoldsNext, Zenon
<1> QED
    BY <1>1, <1>2, <1>3, <1>4, Zenon DEF CryptoInv, CryptoTypeOK, Conversions, Hashes

LEMMA CryptoStepHolds == CodeWidths /\ CryptoInv /\ [CryptoNext]_cryptoVars => CryptoInv'
<1> SUFFICES ASSUME CodeWidths, CryptoInv, [CryptoNext]_cryptoVars PROVE CryptoInv'
    BY Zenon
<1>1. ASSUME NEW x \in Inputs, toCompactBase64(x) PROVE CryptoInv'
    BY <1>1, EncodeConversionStep, Zenon
<1>2. CASE DecodeOwn
    <2>1. /\ conversion.encoded # None /\ conversion.input # None
          /\ fromCompactBase64(conversion.encoded)
        BY <1>2, Zenon DEF DecodeOwn
    <2>2. conversion.encoded \in Seq(Signs)
        BY <2>1, SignsAre, Zenon DEF CryptoInv, CryptoTypeOK
    <2> QED
        BY <2>1, <2>2, DecodeConversionStep, Zenon
<1>3. CASE DropResult
    <2>1. /\ conversion' = NoConversion /\ capacity' = capacity /\ kdf' = kdf
        BY <1>3, Zenon DEF DropResult
    <2>2. capacity \in Positive /\ capacity \in Nat /\ kdf.returned <= kdf.hashes /\ kdf \in Hashes
        BY Zenon DEF CryptoInv, CryptoTypeOK, Hashes
    <2>3. /\ conversion' \in Conversions
          /\ Base64RoundTrips' /\ ForeignBase64IsCanonical' /\ ConversionsFit' /\ OwnIsEncoded'
        BY <2>1, <2>2, NoConversionHoldsNext, Zenon
    <2> QED
        BY <2>1, <2>2, <2>3, Zenon DEF CryptoInv, CryptoTypeOK, Conversions, Hashes
<1>4. ASSUME NEW n \in 0..MaxInput, NEW s \in [1..n -> 0..INVALID], DecodeForeign(s) PROVE CryptoInv'
    <2>1. s \in Seq(Signs) /\ Len(s) <= MaxInput
        BY ForeignCharacters, Zenon
    <2>2. conversion = NoConversion /\ fromCompactBase64(s)
        BY <1>4, Zenon DEF DecodeForeign, Idle
    <2>3. conversion.input = None
        BY <2>2, Zenon DEF NoConversion
    <2> QED
        BY <2>1, <2>2, <2>3, DecodeConversionStep, Zenon
<1>5. CASE UNCHANGED cryptoVars
    BY <1>5, Zenon DEF cryptoVars, CryptoInv, CryptoTypeOK, Base64RoundTrips,
       ForeignBase64IsCanonical, ConversionsFit, OwnIsEncoded
<1> QED
    BY <1>1, <1>2, <1>3, <1>4, <1>5, HashStep, Zenon DEF CryptoNext

(* With bytes of eight and characters of six bits, as the code has them, and inputs
   of every length and content: what argon2_to_base64 writes is decoded into the
   input again, argon2_from_base64 accepts no other form of the same bytes, and
   neither writes behind the buffer that crypto.lua reserves. *)
THEOREM ConversionsAreAlwaysSound ==
    ASSUME CodeWidths PROVE CryptoSpec => [](CryptoTypeOK /\ ConversionsAreSound)
<1>1. CryptoInv => CryptoTypeOK /\ ConversionsAreSound
    BY Zenon DEF CryptoInv, ConversionsAreSound
<1>2. CryptoInv /\ [CryptoNext]_cryptoVars => CryptoInv'
    BY CryptoStepHolds, Zenon
<1> QED
    BY <1>1, <1>2, CryptoInitHolds, PTL DEF CryptoSpec

-----------------------------------------------------------------------------
(* All of them.  They share no variables, so each behaves as its own specification
   says, whichever of them has the focus. *)
LEMMA ComponentsBehave ==
    Spec => /\ ZipSpec /\ StreamSpec /\ AudioSpec /\ VmSpec
            /\ StbiSpec /\ CryptoSpec /\ IconvSpec /\ JsonSpec
<1>1. Init => /\ ZipInit /\ StreamInit /\ AudioInit /\ VmInit
              /\ StbiInit /\ CryptoInit /\ IconvInit /\ JsonInit
    BY DEF Init
<1>2. [Next]_vars => /\ [ZipNext]_zipVars /\ [StreamNext]_streamVars
                     /\ [AudioNext]_audioVars /\ [VmNext]_vmVars
                     /\ [StbiNext]_imageVars /\ [CryptoNext]_cryptoVars
                     /\ [IconvNext]_iconvVars /\ [JsonNext]_jsonVars
    BY DEF Next, vars
<1> QED
    BY <1>1, <1>2, PTL DEF Spec, ZipSpec, StreamSpec, AudioSpec, VmSpec, StbiSpec, CryptoSpec,
                           IconvSpec, JsonSpec

LEMMA StreamTypeCorrect == StreamSpec => []StreamTypeOK
<1>1. StreamInv => StreamTypeOK
    BY DEF StreamInv
<1> QED
    BY <1>1, StreamInitHolds, StreamStepHolds, PTL DEF StreamSpec

LEMMA AudioTypeCorrect == AudioSpec => []AudioTypeOK
<1>1. AudioInv => AudioTypeOK
    BY DEF AudioInv
<1> QED
    BY <1>1, AudioInitHolds, AudioStepHolds, PTL DEF AudioSpec

LEMMA VmTypeCorrect == VmSpec => []VmTypeOK
<1>1. VmInv => VmTypeOK
    BY DEF VmInv
<1> QED
    BY <1>1, VmInitHolds, VmStepHolds, PTL DEF VmSpec

(* What every binding and the virtual machine keep has its type, however calls
   from scripts are interleaved with the audio thread and the collector. *)
THEOREM BindingsTypeCorrect == ASSUME CodeWidths PROVE Spec => []BindingsTypeOK
<1>1. CryptoSpec => [](CryptoTypeOK /\ ConversionsAreSound)
    BY ConversionsAreAlwaysSound
<1>2. /\ ZipTypeOK /\ StreamTypeOK /\ AudioTypeOK /\ VmTypeOK
      /\ StbiTypeOK /\ CryptoTypeOK /\ IconvTypeOK /\ JsonTypeOK
      => BindingsTypeOK
    BY DEF BindingsTypeOK
<1> QED
    BY <1>1, <1>2, ComponentsBehave, ZipTypeCorrect, StreamTypeCorrect, AudioTypeCorrect,
       VmTypeCorrect, ImagesAreAlwaysSound, DescriptorsAreClosed, EncodingIsAlwaysExact, PTL

(* All that the bindings promise, of the specification that is checked: zip readers
   close their own descriptors and indices mean one file, no output of a stream is
   lost but by an error, the audio thread reaches no dead node that was taken out
   first, the Lua stack suffices, a run that reports success is complete, a charset
   conversion's descriptor is closed once by a script that closes after failures
   only, and what is encoded as an image, in Base64 or as JSON is what was given. *)
THEOREM BindingsAreSound ==
    ASSUME CodeWidths
    PROVE  Spec => [](/\ ReadersOwnTheirDescriptors /\ IndicesAgree /\ DecompressionIsComplete
                      /\ AudioIsSound /\ StackNeverOverflows /\ RunsAreComplete /\ ImagesAreSound
                      /\ ConversionsAreSound /\ DescriptorsAreClosedOnce /\ EncodingIsExact)
<1>1. CryptoSpec => [](CryptoTypeOK /\ ConversionsAreSound)
    BY ConversionsAreAlwaysSound
<1> QED
    BY <1>1, ComponentsBehave, ReadersOwnDescriptors, IndicesAlwaysAgree, NothingIsLostSilently,
       AudioIsAlwaysSound, StackIsLargeEnough, RunsAreAlwaysComplete, ImagesAreAlwaysSound,
       DescriptorsAreClosed, EncodingIsAlwaysExact, PTL
=============================================================================
