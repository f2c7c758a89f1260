---------------------------- MODULE ArtifactImage ----------------------------
(***************************************************************************)
(* The bytes of an artifact file: what the writer                          *)
(* (src/src/artifact/artifact_writer.cc) puts into it, what the parser     *)
(* (artifact_format.cc) makes sure of, and how a mapped shard is loaded    *)
(* and read (mmap_snapshot_backing.cc, src/src/store/snapshot.cc).         *)
(*                                                                         *)
(* A file is its header and its directory, records with the fields of the  *)
(* code, and the contents of its sections, one sequence of numbers as in   *)
(* ByteStream.  `size' is the length of the file; what the records and the *)
(* sequence hold beyond it is not there.  The checksum of a section is the *)
(* section: distinct contents have distinct checksums.                     *)
(* The primary key index is the list of its entries: FrozenPrimaryKeyIndex *)
(* models how one of them is found.                                        *)
(***************************************************************************)
EXTENDS RowEncoding, SchemaSection

kArtifactHeaderSize == 128

kArtifactSectionEntrySize == 64

kArtifactIdCapacity == 60

(* 2^32 - 1 in the code, which no shard has. *)
kArtifactGlobalShardId == -1

kArtifactMagic == 1

kArtifactFormatVersion == 1

kFnv1a64 == 1

PoolTypes ==
  <<"kStringPools", "kScalarListPools", "kStringListPools", "kStringElementPools">>

SectionTypes ==
  {"kSchemaMetadata", "kSourceProgress", "kFrozenPrimaryKeyIndex", "kRowSlots",
   "kRowArena"} \cup ToSet(PoolTypes)

-----------------------------------------------------------------------------
(* The snapshot of a shard, as the writer builds it in memory.             *)

(* The rows AddRow takes: of the snapshot's layout, and no key twice. *)
Sealable(layout, rows) ==
  /\ \A i \in DOMAIN rows :
       /\ rows[i].encoded.layout_fingerprint = BuildFingerprint(layout)
       /\ Len(rows[i].encoded.row_slot) >= layout.row_slot_size
  /\ \A i, j \in DOMAIN rows : rows[i].primary_key = rows[j].primary_key => i = j

PayloadOf(encoded) ==
  [arena |-> encoded.arena, string_dictionary |-> encoded.string_dictionary,
   scalar_list_dictionary |-> encoded.scalar_list_dictionary,
   string_list_dictionary |-> encoded.string_list_dictionary,
   string_element_dictionary |-> encoded.string_element_dictionary]

IndexEntry(entry) == <<entry.primary_key, entry.row_offset>>

BuildFrozenPrimaryKeyIndex(entries) == AppendCounted(entries, IndexEntry)

(* BuildShardSnapshot: AddRow for every row, then Seal. *)
BuildShardSnapshot(layout, rows) ==
  {[index |-> BuildFrozenPrimaryKeyIndex(
                [i \in DOMAIN rows |->
                   [primary_key |-> rows[i].primary_key,
                    row_offset |-> (i - 1) * layout.row_slot_size]]),
    row_slots |-> FlattenSeq([i \in DOMAIN rows |->
                    SubSeq(rows[i].encoded.row_slot, 1, layout.row_slot_size)]),
    row_payloads |-> [i \in DOMAIN rows |-> PayloadOf(rows[i].encoded)]] :
   u \in {v \in {TRUE} : Sealable(layout, rows)}}

-----------------------------------------------------------------------------
(* Writing.  A build specification has the configuration, the layout and,  *)
(* for each shard, its rows with their keys.                               *)

AppendProgressEntry(entry) ==
  AppendString(entry.topic)
    \o <<entry.partition, entry.checkpoint_next_offset, entry.high_watermark>>

SerializeSourceProgress(progress) == AppendCounted(progress, AppendProgressEntry)

AppendBlob(blob) == AppendString(blob)

AppendStringList(values) == AppendCounted(values, AppendString)

SerializePayload(payload) ==
  AppendBlob(payload.arena) \o AppendStringList(payload.string_dictionary)
    \o AppendCounted(payload.scalar_list_dictionary, AppendBlob)
    \o AppendCounted(payload.string_list_dictionary, AppendStringList)
    \o AppendStringList(payload.string_element_dictionary)

SerializeRowPayloads(payloads) == AppendCounted(payloads, SerializePayload)

Section(type, shard_id, data) == [type |-> type, shard_id |-> shard_id, data |-> data]

(* The seven sections of a shard; the pools are one byte each. *)
ShardSections(shard_id, snapshot) ==
  <<Section("kFrozenPrimaryKeyIndex", shard_id, snapshot.index),
    Section("kRowSlots", shard_id, snapshot.row_slots),
    Section("kRowArena", shard_id, SerializeRowPayloads(snapshot.row_payloads))>>
  \o [i \in DOMAIN PoolTypes |-> Section(PoolTypes[i], shard_id, <<0>>)]

GlobalSections(spec) ==
  <<Section("kSchemaMetadata", kArtifactGlobalShardId,
            SerializeSchema(spec.schema_version, spec.layout))>>
  \o (IF spec.include_source_progress_section
      THEN <<Section("kSourceProgress", kArtifactGlobalShardId,
                     SerializeSourceProgress(spec.source_progress))>>
      ELSE <<>>)

(* AddSection and WriteSectionDirectoryEntry: the sections follow each     *)
(* other behind the directory.                                             *)
DirectoryOf(sections) ==
  LET start == kArtifactHeaderSize + kArtifactSectionEntrySize * Len(sections)
      Before(i) == FlattenSeq([j \in 1 .. i - 1 |-> sections[j].data])
  IN [i \in DOMAIN sections |->
        [type |-> sections[i].type, shard_id |-> sections[i].shard_id,
         offset |-> start + Len(Before(i)), length |-> Len(sections[i].data),
         checksum |-> sections[i].data]]

HeaderOf(spec, section_count) ==
  [magic |-> kArtifactMagic, version |-> kArtifactFormatVersion,
   header_size |-> kArtifactHeaderSize, entry_size |-> kArtifactSectionEntrySize,
   section_count |-> section_count, checksum_algorithm |-> kFnv1a64,
   shard_count |-> spec.shard_count, hash_seed |-> spec.hash_seed,
   hash_version |-> spec.hash_version, schema_version |-> spec.schema_version,
   layout_fingerprint |-> BuildFingerprint(spec.layout),
   artifact_id_length |-> Len(spec.artifact_id), artifact_id |-> spec.artifact_id]

FileOf(spec, sections) ==
  LET contents == FlattenSeq([i \in DOMAIN sections |-> sections[i].data])
      start == kArtifactHeaderSize + kArtifactSectionEntrySize * Len(sections)
  IN [header |-> HeaderOf(spec, Len(sections)),
      directory |-> DirectoryOf(sections),
      start |-> start,
      contents |-> contents,
      size |-> start + Len(contents)]

(* WriteArtifactWithShards, up to the write: the file, or none if the      *)
(* specification is refused.  `selected' is a sequence of shard ids.       *)
WriteArtifactWithShards(spec, selected) ==
  LET Snapshots(s) == BuildShardSnapshot(spec.layout, spec.shards[s]) IN
  {FileOf(spec, GlobalSections(spec) \o FlattenSeq(
             [i \in DOMAIN selected |->
                ShardSections(selected[i],
                              CHOOSE b \in Snapshots(selected[i]) : TRUE)])) :
   u \in {v \in {TRUE} :
            /\ Len(spec.artifact_id) <= kArtifactIdCapacity
            /\ selected # <<>>
            /\ \A i \in DOMAIN selected :
                 /\ selected[i] \in 0 .. spec.shard_count - 1
                 /\ Snapshots(selected[i]) # {}
            /\ \A i, j \in DOMAIN selected : selected[i] = selected[j] => i = j}}

(* One file with every shard. *)
WriteArtifact(spec) ==
  WriteArtifactWithShards(spec, [i \in 1 .. spec.shard_count |-> i - 1])

WriteArtifactShard(spec, shard_id) == WriteArtifactWithShards(spec, <<shard_id>>)

-----------------------------------------------------------------------------
(* Parsing. *)

(* Mutant: only the beginning of a section has to be in the file. *)
CheckBoundsStart(file, offset, length) == offset <= file.size

CheckBounds(file, offset, length) == offset + length <= file.size

SectionBytes(file, section) ==
  LET first == section.offset - file.start + 1
  IN SubSeq(file.contents, first,
            Min({first + section.length - 1, Len(file.contents)}))

(* The sections of a type and shard: one at most. *)
FindSection(sections, type, shard_id) ==
  {sections[i] : i \in {j \in DOMAIN sections :
                          /\ sections[j].type = type
                          /\ sections[j].shard_id = shard_id}}

ReadProgressEntry(bytes, r) ==
  LET topic == ReadString(bytes, r)
      numbers == ReadBytes(bytes, 3, topic)
      n == numbers.got
  IN IF /\ numbers.ok
        /\ topic.got # <<>> /\ n[1] >= 0 /\ n[2] >= 0 /\ n[3] >= n[2]
     THEN [numbers EXCEPT !.got =
             [topic |-> topic.got, partition |-> n[1],
              checkpoint_next_offset |-> n[2], high_watermark |-> n[3]]]
     ELSE Failed

(* The entries of the section, if it is well formed. *)
ParseSourceProgressSection(bytes) ==
  LET entries == ReadCounted(bytes, Reader, ReadProgressEntry)
  IN {progress \in {entries.got} :
        /\ AtEnd(bytes, entries)
        /\ \A i, j \in DOMAIN progress :
             /\ progress[i].topic = progress[j].topic
             /\ progress[i].partition = progress[j].partition
             => i = j}

(* A required section must be there; one that is there must be right. *)
SourceProgressOf(file, sections, policy) ==
  LET found == FindSection(sections, "kSourceProgress", kArtifactGlobalShardId)
  IN IF found = {} THEN {p \in {<<>>} : policy = "kOptional"}
     ELSE UNION {ParseSourceProgressSection(SectionBytes(file, s)) : s \in found}

(* std::sort keeps the order of equal elements only as long as it sorts by *)
(* insertion, which is up to sixteen elements.                             *)
TieOrders(count) == IF count <= 16 THEN {"kept"} ELSE {"kept", "reversed"}

Precedes(sections, ties, i, j) ==
  \/ sections[i].offset < sections[j].offset
  \/ /\ sections[i].offset = sections[j].offset
     /\ IF ties = "kept" THEN i < j ELSE j < i

(* In the order of their offsets, every section begins where the one       *)
(* before it has ended.                                                    *)
Apart(sections, first, ties) ==
  \A i \in DOMAIN sections :
    /\ sections[i].offset >= first
    /\ \A j \in DOMAIN sections :
         Precedes(sections, ties, i, j) =>
           sections[i].offset + sections[i].length <= sections[j].offset

ValidHeader(file, options) ==
  LET header == file.header IN
  /\ file.size >= kArtifactHeaderSize
  /\ header.magic = kArtifactMagic
  /\ header.version = kArtifactFormatVersion
  /\ header.header_size = kArtifactHeaderSize
  /\ header.entry_size = kArtifactSectionEntrySize
  /\ header.checksum_algorithm = kFnv1a64
  /\ header.artifact_id_length <= kArtifactIdCapacity
  /\ options.shard_count # 0 => header.shard_count = options.shard_count
  /\ options.hash_version # 0 => header.hash_version = options.hash_version
  /\ header.hash_seed = options.hash_seed

(* The directory fits into the file.  With more entries than were written  *)
(* the first section, right behind the written ones, would begin before    *)
(* the end of the directory.                                               *)
ValidDirectory(file) ==
  /\ file.header.section_count <= Len(file.directory)
  /\ kArtifactHeaderSize + kArtifactSectionEntrySize * file.header.section_count
       <= file.size

ValidSections(file, sections, ties) ==
  /\ \A i \in DOMAIN sections :
       /\ sections[i].type \in SectionTypes
       /\ sections[i].shard_id
            \in {kArtifactGlobalShardId} \cup 0 .. file.header.shard_count - 1
       /\ CheckBounds(file, sections[i].offset, sections[i].length)
  /\ \A i, j \in DOMAIN sections :
       /\ sections[i].type = sections[j].type
       /\ sections[i].shard_id = sections[j].shard_id
       => i = j
  /\ Apart(sections, kArtifactHeaderSize + kArtifactSectionEntrySize * Len(sections),
           ties)

(* Mutant: no checksum is computed. *)
ChecksumsUnchecked(file, sections) == Len(sections) >= 0

ChecksumsMatch(file, sections) ==
  \A i \in DOMAIN sections : SectionBytes(file, sections[i]) = sections[i].checksum

(* The parsed artifact, if the file is accepted. *)
ParseArtifact(file, options, ties) ==
  LET sections == SubSeq(file.directory, 1, file.header.section_count)
      schema == FindSection(sections, "kSchemaMetadata", kArtifactGlobalShardId)
  IN IF ~(/\ ValidHeader(file, options) /\ ValidDirectory(file)
          /\ ValidSections(file, sections, ties) /\ ChecksumsMatch(file, sections))
     THEN {}
     ELSE {[header |-> file.header, sections |-> sections, layout |-> layout,
            source_progress |-> progress] :
             layout \in UNION {ParseSchemaSection(SectionBytes(file, s),
                                 file.header.schema_version,
                                 file.header.layout_fingerprint) : s \in schema},
             progress \in SourceProgressOf(file, sections,
                                           options.source_progress_policy)}

-----------------------------------------------------------------------------
(* Loading and reading a shard of a mapped file. *)

ReadBlob(bytes, r) == ReadString(bytes, r)

ReadStringList(bytes, r) == ReadCounted(bytes, r, ReadString)

ReadPayload(bytes, r) ==
  LET arena == ReadBlob(bytes, r)
      strings == ReadStringList(bytes, arena)
      scalar_lists == ReadCounted(bytes, strings, ReadBlob)
      string_lists == ReadCounted(bytes, scalar_lists, ReadStringList)
      elements == ReadStringList(bytes, string_lists)
  IN IF elements.ok
     THEN [elements EXCEPT !.got =
             [arena |-> arena.got, string_dictionary |-> strings.got,
              scalar_list_dictionary |-> scalar_lists.got,
              string_list_dictionary |-> string_lists.got,
              string_element_dictionary |-> elements.got]]
     ELSE Failed

(* The payloads have no directory: all that precede the wanted one are read. *)
ReadPayloadAt(bytes, wanted) ==
  LET count == ReadInteger(bytes, Reader)
      payloads == ReadEach(bytes, wanted + 1, count, ReadPayload)
  IN IF count.ok /\ wanted < count.got /\ payloads.ok
     THEN [payloads EXCEPT !.got = payloads.got[wanted + 1]]
     ELSE Failed

ValidatePayloadRowCount(bytes, expected) ==
  LET count == ReadInteger(bytes, Reader) IN
  /\ count.ok /\ count.got = expected
  /\ IF expected = 0 THEN Len(bytes) = 1 ELSE ReadPayloadAt(bytes, expected - 1).ok

(* The backing of a shard, if the file is accepted and has all of it. *)
LoadShard(file, shard_id, options, ties) ==
  UNION {LET Bytes(type) == {SectionBytes(file, s) :
                               s \in FindSection(parsed.sections, type, shard_id)}
             slot_size == parsed.layout.row_slot_size
         IN {[artifact |-> parsed, index |-> index, row_slots |-> row_slots,
              row_payloads |-> row_payloads] :
               index \in {b \in Bytes("kFrozenPrimaryKeyIndex") :
                            /\ shard_id < parsed.header.shard_count
                            /\ \A type \in ToSet(PoolTypes) : Bytes(type) # {}},
               row_slots \in {b \in Bytes("kRowSlots") :
                                slot_size # 0 /\ Len(b) % slot_size = 0},
               row_payloads \in
                 {b \in Bytes("kRowArena") :
                    \A slots \in Bytes("kRowSlots") :
                      ValidatePayloadRowCount(b, Len(slots) \div slot_size)}} :
         parsed \in ParseArtifact(file, options, ties)}

(* The row at an offset into the row slots, if there is one. *)
EncodedRowAt(backing, row_offset) ==
  LET layout == backing.artifact.layout
      payload == ReadPayloadAt(backing.row_payloads, row_offset \div layout.row_slot_size)
  IN {[layout_fingerprint |-> BuildFingerprint(layout),
       row_slot |-> SubSeq(backing.row_slots, row_offset + 1,
                           row_offset + layout.row_slot_size)] @@ p :
        p \in {q \in {payload.got} :
                 /\ row_offset + layout.row_slot_size <= Len(backing.row_slots)
                 /\ row_offset % layout.row_slot_size = 0
                 /\ payload.ok}}

(* The row offset of a key: FrozenPrimaryKeyIndexView::Lookup. *)
LookupOffset(index, primary_key) ==
  {index[2 * i + 1] : i \in {j \in 1 .. (Len(index) - 1) \div 2 :
                              index[2 * j] = primary_key}}

(* ImmutableRowSnapshotView::Get: no row, a row, or an error, for which    *)
(* the answer is a row that is None.                                       *)
GetRow(backing, primary_key) ==
  UNION {IF EncodedRowAt(backing, offset) = {} THEN {None}
         ELSE EncodedRowAt(backing, offset) :
         offset \in LookupOffset(backing.index, primary_key)}

===============================================================================
