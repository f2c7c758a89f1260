---------------------------- MODULE OfflineBuilder ----------------------------
(***************************************************************************)
(* What the offline builder reads and makes of it before it writes: its    *)
(* command line (tools/offline/src/kv_index_build_artifact.cc), the schema *)
(* file, and the tables of the input directory, whose rows it encodes and  *)
(* routes to shards (offline_artifact_builder.cc).                         *)
(*                                                                         *)
(* A table is a sequence of columns [name, type, element, chunks], a cell  *)
(* of which is None or a value as in RowEncoding.  Reads and conversions   *)
(* yield a set: their result, or nothing for an error.                     *)
(***************************************************************************)
EXTENDS ArtifactImage, SchemaFile

CONSTANTS
  StableHash(_, _, _),  \* of key, seed and version
  kDefaultShardCount,   \* 128 in the code
  SchemaFiles,          \* the lines of every schema file there is, by its path
  Inputs                \* for every input path there is, the set of what lies
                        \* there: [path, kind, hidden, parquet, table]

IsPowerOfTwo(n) == \E j \in 0 .. n : n = 2 ^ j

ASSUME BuilderAssumption == IsPowerOfTwo(kDefaultShardCount)

-----------------------------------------------------------------------------
(* The command line, a sequence of texts. *)

Flags ==
  <<"--help", "-h", "--schema", "--input", "--output", "--artifact_id", "--shard_count",
    "--hash_seed", "--hash_version", "--schema_version", "--omit_source_progress">>

FlagText(flag) == <<511 + CodeOf(Flags, flag)>>

ParseUInt32(text) == ParseUnsigned(text, kUInt32Max)

ParseUInt64(text) == ParseUnsigned(text, kUInt64Max)

(* The values of a flag that are taken. *)
ArgumentValue(flag, text) ==
  CASE flag \in {"--schema", "--input", "--output", "--artifact_id"} -> {text}
    [] flag \in {"--shard_count", "--hash_version"} -> ParseUInt32(text) \ {0}
    [] flag = "--hash_seed" -> ParseUInt64(text)
    [] flag = "--schema_version" -> ParseUInt64(text) \ {0}

NoOptions == [ok |-> TRUE, help |-> FALSE, awaited |-> None, given |-> <<>>]

(* One word: the value that the flag before it awaits, or a flag. *)
ParseArg(options, text) ==
  LET flags == {f \in ToSet(Flags) : text = FlagText(f)}
      values == ArgumentValue(options.awaited, text)
  IN IF ~options.ok \/ options.help THEN options
     ELSE IF options.awaited # None
     THEN IF values = {} THEN [options EXCEPT !.ok = FALSE]
          ELSE [options EXCEPT !.awaited = None,
                  !.given = (options.awaited :> CHOOSE v \in values : TRUE) @@ @]
     ELSE IF flags = {} THEN [options EXCEPT !.ok = FALSE]
     ELSE LET flag == CHOOSE f \in flags : TRUE
          IN CASE flag \in {"--help", "-h"} -> [options EXCEPT !.help = TRUE]
               [] flag = "--omit_source_progress" ->
                    [options EXCEPT !.given = (flag :> TRUE) @@ @]
               [] OTHER -> [options EXCEPT !.awaited = flag]

(* A flag at the end whose value is missing fails too. *)
ParseArgs(args) ==
  LET options == FoldLeft(ParseArg, NoOptions, args)
  IN [options EXCEPT !.ok = @ /\ (options.help \/ options.awaited = None)]

ValidateRequired(given) ==
  \A flag \in {"--schema", "--input", "--output", "--artifact_id"} :
    flag \in DOMAIN given /\ given[flag] # <<>>

-----------------------------------------------------------------------------
(* The input. *)

(* Paths in the order of their names, which are numbers; no path is a      *)
(* prefix of another.                                                      *)
PathPrecedes(p, q) ==
  \E i \in DOMAIN p \cap DOMAIN q :
    p[i] < q[i] /\ \A j \in 1 .. i - 1 : p[j] = q[j]

(* CollectParquetFiles: hidden names are passed over, and what is neither  *)
(* a file nor a directory is an error.                                     *)
CollectParquetFiles(entries) ==
  LET seen == {e \in entries : ~e.hidden}
      found == {e \in seen : e.parquet}
  IN IF found = {} \/ \E e \in seen : e.kind # "file" THEN {}
     ELSE {SetToSortSeq(found, LAMBDA e, f : PathPrecedes(e.path, f.path))}

ArrowType ==
  [kInt8 |-> "INT8", kInt32 |-> "INT32", kInt64 |-> "INT64", kUInt64 |-> "UINT64",
   kBool |-> "BOOL"]

IsStringType(type) == type \in {"STRING", "LARGE_STRING"}

(* The cell of a row, wherever the chunks of the column end. *)
LocateArray(column, row) ==
  LET cells == FlattenSeq(column.chunks) IN {cells[i] : i \in {row} \cap DOMAIN cells}

ReadPrimaryKey(column, row) ==
  {cell[1] : cell \in {c \in LocateArray(column, row) :
                         /\ c # None
                         /\ \/ column.type = "UINT64"
                            \/ column.type = "INT64" /\ c[1] >= 0}}

ReadScalarValue(spec, column, cell) ==
  {v \in {cell} : IF spec.type = "kString" THEN IsStringType(column.type)
                  ELSE column.type = ArrowType[spec.type]}

(* The type of strings is looked at element by element. *)
ReadListValue(spec, column, cell) ==
  {v \in {cell} :
     /\ column.type \in {"LIST", "LARGE_LIST"}
     /\ \A i \in DOMAIN cell : cell[i] # None
     /\ IF spec.type = "kString" THEN cell = <<>> \/ IsStringType(column.element)
        ELSE column.element = ArrowType[spec.type]}

(* A null is read as None. *)
ReadFieldValue(spec, column, row) ==
  UNION {IF cell = None THEN {v \in {None} : spec.nullable}
         ELSE IF spec.is_list THEN ReadListValue(spec, column, cell)
         ELSE ReadScalarValue(spec, column, cell) :
         cell \in LocateArray(column, row)}

-----------------------------------------------------------------------------
(* Rows. *)

WriteScalarListArena(field, values, r) ==
  LET bytes == ScalarListBytes(field.spec.type, values)
  IN WriteArena(field, bytes, Len(bytes), Len(values), r)

WriteStringListArena(field, values, r) ==
  WriteArena(field, StringListBytes(values, Len(r.arena)), 16 * Len(values),
             Len(values), r)

WriteScalarFieldValue(field, value, r) ==
  CASE field.spec.type # "kString" ->
         WriteSlot(field, LittleEndian(value[1], field.value_width), r)
    [] field.spec.type = "kString" /\ field.spec.encoding = "kArena" ->
         WriteArena(field, value, Len(value), 0, r)
    [] OTHER -> WriteSlot(field, ValueRef16(Len(r.string_dictionary), 0, 0),
                          [r EXCEPT !.string_dictionary = Append(@, value)])

WriteListFieldValue(field, value, r) ==
  LET strings == field.spec.type = "kString"
      encoding == field.spec.encoding
      first == Len(r.string_element_dictionary)
      ids == [i \in DOMAIN value |-> LittleEndian(first + i - 1, 4)]
  IN CASE encoding = "kArena" ->
            IF strings THEN WriteStringListArena(field, value, r)
            ELSE WriteScalarListArena(field, value, r)
       [] encoding = "kListDictionary" /\ strings ->
            WriteSlot(field, ValueRef16(Len(r.string_list_dictionary), 0, Len(value)),
                      [r EXCEPT !.string_list_dictionary = Append(@, value)])
       [] encoding = "kListDictionary" /\ ~strings ->
            WriteSlot(field, ValueRef16(Len(r.scalar_list_dictionary), 0, Len(value)),
                      [r EXCEPT !.scalar_list_dictionary =
                         Append(@, ScalarListBytes(field.spec.type, value))])
       [] encoding = "kElementDictionary" ->
            WriteArena(field, FlattenSeq(ids), 4 * Len(value), Len(value),
                       [r EXCEPT !.string_element_dictionary = @ \o value])

(* `values' has a value, or None, for the columns there are. *)
EncodeRow(layout, values) ==
  LET Absent(spec) == spec.field_id \notin DOMAIN values \/ values[spec.field_id] = None
      WriteField(r, field) ==
        IF Absent(field.spec) THEN r
        ELSE IF field.spec.is_list
        THEN WriteListFieldValue(field, values[field.spec.field_id], r)
        ELSE WriteScalarFieldValue(field, values[field.spec.field_id], r)
  IN {FoldLeft(WriteField, CreateEncodedRow(layout), layout.fields) :
      u \in {v \in {TRUE} : \A i \in DOMAIN layout.fields :
                              Absent(layout.fields[i].spec) =>
                                layout.fields[i].spec.nullable}}

(* GetColumnByName: none unless exactly one column has the name. *)
Column(table, name) ==
  LET named == {i \in DOMAIN table : table[i].name = name}
  IN {table[i] : i \in {j \in named : named = {j}}}

(* The columns of the fields a table has, by field id. *)
ResolveTableColumns(table, layout) ==
  LET specs == {layout.fields[i].spec : i \in DOMAIN layout.fields}
      present == {s \in specs : Column(table, s.name) # {}}
      SpecOf(id) == CHOOSE s \in specs : s.field_id = id
  IN {[id \in {s.field_id : s \in present} |->
         [spec |-> SpecOf(id),
          column |-> CHOOSE c \in Column(table, SpecOf(id).name) : TRUE]] :
      u \in {v \in {TRUE} : \A s \in specs \ present : s.nullable}}

(* One row of a table: all its fields are read, then it is encoded. *)
RowAt(primary_key, columns, layout, row) ==
  LET read == [id \in DOMAIN columns |->
                 ReadFieldValue(columns[id].spec, columns[id].column, row)]
      values == [id \in DOMAIN columns |-> CHOOSE v \in read[id] : TRUE]
  IN IF \E id \in DOMAIN columns : read[id] = {} THEN {}
     ELSE {[primary_key |-> key, encoded |-> encoded] :
             key \in ReadPrimaryKey(primary_key, row), encoded \in EncodeRow(layout, values)}

(* ReadParquetFileIntoSpec for one file, up to the check for duplicates. *)
ReadParquetFile(table, config, layout) ==
  UNION {LET rows == [i \in DOMAIN FlattenSeq(key.chunks) |->
                        RowAt(key, columns, layout, i)]
         IN {[i \in DOMAIN rows |-> CHOOSE r \in rows[i] : TRUE] :
             u \in {v \in {TRUE} : \A i \in DOMAIN rows : rows[i] # {}}} :
         key \in Column(table, config.primary_key.name),
         columns \in ResolveTableColumns(table, layout)}

-----------------------------------------------------------------------------
(* The build. *)

Given(given, flag, default) == IF flag \in DOMAIN given THEN given[flag] ELSE default

Configured(config, key, default) ==
  IF key \in DOMAIN config.top THEN config.top[key] ELSE default

ShardFor(configuration, key) ==
  StableHash(key, configuration.hash_seed, configuration.hash_version)
    % configuration.shard_count

(* The options override the schema file, which overrides the defaults.     *)
(* The next schema version is computed modulo 2^64.                        *)
Configuration(config, given) ==
  [schema_version |-> Given(given, "--schema_version",
                            (config.top.schema_version + 1) % (kUInt64Max + 1)),
   shard_count |-> Given(given, "--shard_count",
                         Configured(config, "shard_count", kDefaultShardCount)),
   hash_seed |-> Given(given, "--hash_seed", Configured(config, "hash_seed", 0)),
   hash_version |-> Given(given, "--hash_version",
                          Configured(config, "hash_version", 1))]

Buildable(c) == IsPowerOfTwo(c.shard_count) /\ c.hash_version # 0 /\ c.schema_version # 0

(* ReadParquetFileIntoSpec for all files: the rows in the order read.  A   *)
(* key that occurs twice fails the build.                                  *)
ReadAllRows(inputs, config, layout) ==
  LET read == [i \in DOMAIN inputs |->
                 IF inputs[i].table = None THEN {}
                 ELSE ReadParquetFile(inputs[i].table, config, layout)]
  IN IF \E i \in DOMAIN inputs : read[i] = {} THEN {}
     ELSE {rows \in {FlattenSeq([i \in DOMAIN inputs |-> CHOOSE r \in read[i] : TRUE])} :
             \A i, j \in DOMAIN rows : rows[i].primary_key = rows[j].primary_key => i = j}

Route(c, rows) ==
  [s \in 0 .. c.shard_count - 1 |->
     SelectSeq(rows, LAMBDA r : ShardFor(c, r.primary_key) = s)]

(* BuildArtifactDirectory until it begins to write: what it will write. *)
PlanBuild(given) ==
  LET configs == UNION {ParseSchemaFile(SchemaFiles[p]) :
                          p \in {given["--schema"]} \cap DOMAIN SchemaFiles}
      collected == UNION {CollectParquetFiles(Inputs[p]) :
                            p \in {given["--input"]} \cap DOMAIN Inputs}
  IN UNION {LET c == Configuration(config, given)
                layout == Compile(ToSet(config.fields))
            IN IF ~Buildable(c) \/ ~Addable(config.fields) THEN {}
               ELSE {[artifact_id |-> given["--artifact_id"],
                      include_source_progress_section |->
                        "--omit_source_progress" \notin DOMAIN given,
                      source_progress |-> <<>>, layout |-> layout,
                      schema |-> WriteSchemaFile(config, c),
                      shards |-> Route(c, rows)] @@ c :
                       rows \in ReadAllRows(inputs, config, layout)} :
            config \in configs, inputs \in collected}

===============================================================================
