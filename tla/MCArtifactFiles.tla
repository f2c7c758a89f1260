--------------------------- MODULE MCArtifactFiles ---------------------------
(***************************************************************************)
(* Instances of the artifact files for TLC: two shards; builds whose       *)
(* configuration agrees with the index's or differs from it in one field;  *)
(* command lines, schema files and inputs that are refused; and files with *)
(* every shard, with and without source progress.                          *)
(***************************************************************************)
EXTENDS ArtifactFiles

(* Key, seed and version all change the shard of a key. *)
SmallHash(k, seed, version) == k + seed + version

FourKeys == 0 .. 3

TwoShards == [shard_count |-> 2, hash_seed |-> 0, hash_version |-> 1]

-----------------------------------------------------------------------------
(* Schema files.  Names and paths are one or two letters. *)

Text(i, key, text) == Line(i, FALSE, key, text)

Field(id, name, type, is_list, nullable, encoding) ==
  <<Line(2, TRUE, "field_id", Decimal(id)), Text(4, "name", name),
    Text(4, "type", Word(type)), Text(4, "is_list", Word(is_list)),
    Text(4, "nullable", Word(nullable)), Text(4, "encoding", Word(encoding))>>

PrimaryKey == <<Text(0, "primary_key", <<>>), Text(2, "name", <<107>>),
                Text(2, "type", Word("uint64"))>>

Schema(version, fields) ==
  <<Text(0, "schema_version", version)>> \o PrimaryKey
    \o <<Text(0, "fields", <<>>)>> \o fields

(* Quotes and a comment are stripped from names. *)
ManyFields ==
  Field(7, <<97>>, "int32", "false", "false", "fixed")
  \o Field(2, <<34, 98, 34>>, "string", "false", "true", "dictionary")
  \o Field(3, <<99, 32, 35, 120>>, "string", "true", "true", "element_dictionary")
  \o Field(5, <<101>>, "string", "true", "true", "arena")
  \o Field(6, <<102>>, "uint64", "true", "true", "dictionary")

OneField == Field(1, <<97>>, "int32", "false", "false", "fixed")

(* Refused: no field, a field without a name, an encoding of another type, *)
(* an id twice, a line of no section, a key that is not an integer, and a  *)
(* version that has no successor.                                          *)
BadSchemas ==
  <<Schema(Decimal(1), <<>>),
    Schema(Decimal(1), Field(1, <<>>, "int32", "false", "false", "fixed")),
    Schema(Decimal(1), Field(1, <<97>>, "int32", "false", "false", "dictionary")),
    Schema(Decimal(1), OneField \o OneField),
    <<Text(2, "name", <<97>>)>> \o Schema(Decimal(1), OneField),
    Schema(Decimal(1), OneField) \o <<Text(0, "shard_count", <<120>>)>>,
    Schema(Decimal(kUInt64Max), OneField)>>

SchemaPaths == [many |-> <<109>>, one |-> <<111>>, seeded |-> <<115>>]

BadSchemaPath(i) == <<98, i>>

AllSchemaFiles ==
  SchemaPaths.many :> Schema(Decimal(4), ManyFields)
  @@ SchemaPaths.one :> Schema(Decimal(4), OneField)
  @@ SchemaPaths.seeded :>
       <<Text(0, "hash_seed", Decimal(1)), Text(0, "hash_version", Decimal(2)),
         Text(0, "shard_count", Decimal(1))>> \o Schema(Decimal(4), OneField)
  @@ [p \in {BadSchemaPath(i) : i \in 1 .. 7} |-> BadSchemas[p[2]]]

-----------------------------------------------------------------------------
(* Inputs. *)

Parquet(name, table) ==
  [path |-> <<name>>, kind |-> "file", hidden |-> FALSE, parquet |-> TRUE,
   table |-> table]

Other(name, hidden, kind) ==
  [path |-> <<name>>, kind |-> kind, hidden |-> hidden, parquet |-> FALSE,
   table |-> None]

ColumnOf(name, type, element, chunks) ==
  [name |-> <<name>>, type |-> type, element |-> element, chunks |-> chunks]

KeyColumn(chunks) == ColumnOf(107, "UINT64", "", chunks)

NumberColumn(chunks) == ColumnOf(97, "INT32", "", chunks)

(* Three rows whose columns are chunked differently, with an absent value  *)
(* in every column that may have one.                                      *)
ManyTable ==
  <<KeyColumn(<< << <<0>>, <<3>> >>, << <<2>> >> >>),
    NumberColumn(<< << <<300>> >>, << <<5>>, <<0>> >> >>),
    ColumnOf(98, "STRING", "", << << <<8, 9>>, None, <<>> >> >>),
    ColumnOf(99, "LIST", "STRING", << << << <<1>>, <<2, 2>> >>, << <<3>> >>, None >> >>),
    ColumnOf(101, "LARGE_LIST", "STRING",
             << << None, << <<4>>, <<>> >>, << <<5, 6>> >> >> >>),
    ColumnOf(102, "LIST", "UINT64", << << <<>>, <<7, 700>>, <<9>> >> >>)>>

OneTable(keys, numbers) == <<KeyColumn(<<keys>>), NumberColumn(<<numbers>>)>>

InputPaths == [many |-> <<105, 109>>, two |-> <<105, 50>>]

BadInputPath(i) == <<106, i>>

(* Refused: a key in two files, a negative and an absent key, an absent    *)
(* value and a missing column of a field that is not nullable, a column of *)
(* another type, a name that is there twice, a file that is no table, an   *)
(* entry that is neither file nor directory, and no file at all.           *)
BadInputs ==
  <<{Parquet(1, OneTable(<< <<0>> >>, << <<1>> >>)),
     Parquet(2, OneTable(<< <<0>> >>, << <<2>> >>))},
    {Parquet(1, <<ColumnOf(107, "INT64", "", << << <<-1>> >> >>),
                  NumberColumn(<< << <<1>> >> >>)>>)},
    {Parquet(1, OneTable(<< None >>, << <<1>> >>))},
    {Parquet(1, OneTable(<< <<0>> >>, << None >>))},
    {Parquet(1, <<KeyColumn(<< << <<0>> >> >>)>>)},
    {Parquet(1, <<KeyColumn(<< << <<0>> >> >>),
                  ColumnOf(97, "INT64", "", << << <<1>> >> >>)>>)},
    {Parquet(1, OneTable(<< <<0>> >>, << <<1>> >>) \o <<NumberColumn(<< << <<1>> >> >>)>>)},
    {Parquet(1, None)},
    {Parquet(1, OneTable(<< <<0>> >>, << <<1>> >>)), Other(2, FALSE, "socket")},
    {Other(1, TRUE, "file")}>>

AllInputs ==
  InputPaths.many :> {Parquet(1, ManyTable), Other(2, TRUE, "socket"),
                      Other(3, FALSE, "file")}
  @@ InputPaths.two :>
       {Parquet(2, <<ColumnOf(107, "INT64", "", << << <<1>> >> >>),
                     NumberColumn(<< << <<7>> >> >>)>>),
        Parquet(1, OneTable(<< <<2>>, <<0>> >>, << <<8>>, <<9>> >>))}
  @@ [p \in {BadInputPath(i) : i \in 1 .. 10} |-> BadInputs[p[2]]]

-----------------------------------------------------------------------------
(* Builds.  Every name below is a command line. *)

P1 == <<49>>

P2 == <<50>>

TwoPaths == {P1, P2}

Command(schema, input, output, id) ==
  <<FlagText("--schema"), schema, FlagText("--input"), input, FlagText("--output"),
    output, FlagText("--artifact_id"), id>>

With(flag, n) == <<FlagText(flag), Decimal(n)>>

GoodBuild == Command(SchemaPaths.one, InputPaths.two, P2, <<7>>)

(* What the index can load, and what differs from its configuration. *)
Accepted ==
  [many |-> Command(SchemaPaths.many, InputPaths.many, P1, <<7>>),
   two |-> GoodBuild \o <<FlagText("--omit_source_progress")>>,
   seed |-> GoodBuild \o With("--hash_seed", 1) \o With("--schema_version", 9),
   count |-> GoodBuild \o With("--shard_count", 1),
   version |-> Command(SchemaPaths.seeded, InputPaths.two, P2, <<7>>)
                 \o With("--hash_seed", 0) \o With("--shard_count", 2),
   long |-> Command(SchemaPaths.one, InputPaths.two, P2,
                    [i \in 1 .. kArtifactIdCapacity + 1 |-> 7])]

RefusedLines ==
  [help |-> <<FlagText("-h")>>,
   unknown |-> GoodBuild \o << <<120>> >>,
   missing |-> SubSeq(GoodBuild, 1, 7),
   empty |-> Command(SchemaPaths.one, InputPaths.two, P2, <<>>),
   zero |-> GoodBuild \o With("--hash_version", 0),
   three |-> GoodBuild \o With("--shard_count", 3),
   nowhere |-> Command(<<110>>, InputPaths.two, P2, <<7>>)]

BadSchemaNames == <<"s1", "s2", "s3", "s4", "s5", "s6", "s7">>

BadInputNames == <<"i1", "i2", "i3", "i4", "i5", "i6", "i7", "i8", "i9", "i10">>

Numbered(names, Value(_)) ==
  [n \in ToSet(names) |-> Value(CHOOSE i \in DOMAIN names : names[i] = n)]

AllInvocations ==
  Accepted @@ RefusedLines
  @@ Numbered(BadSchemaNames,
              LAMBDA i : Command(BadSchemaPath(i), InputPaths.two, P2, <<7>>))
  @@ Numbered(BadInputNames,
              LAMBDA i : Command(SchemaPaths.one, BadInputPath(i), P2, <<7>>))

NoInvocations == <<>>

(* WriteArtifact: one file with every shard. *)
OneLayout ==
  Compile(ToSet((CHOOSE c \in ParseSchemaFile(AllSchemaFiles[SchemaPaths.one]) : TRUE).fields))

RowOf(layout, key, number) ==
  [primary_key |-> key,
   encoded |-> CHOOSE r \in EncodeRow(layout, 1 :> <<number>>) : TRUE]

SpecOf(layout, shard_count, progress, shards) ==
  [artifact_id |-> <<7>>, include_source_progress_section |-> progress # <<>>,
   source_progress |-> progress, layout |-> layout, schema_version |-> 4,
   shard_count |-> shard_count, hash_seed |-> 0, hash_version |-> 1, shards |-> shards]

Progress ==
  <<[topic |-> <<5>>, partition |-> 0, checkpoint_next_offset |-> 3, high_watermark |-> 6],
    [topic |-> <<5>>, partition |-> 1, checkpoint_next_offset |-> 2, high_watermark |-> 2]>>

WholeFile ==
  {[name |-> "whole", output |-> P1,
    spec |-> SpecOf(lay, 2, Progress,
                    [s \in 0 .. 1 |->
                       IF s = 0 THEN <<RowOf(lay, 1, 6), RowOf(lay, 3, 7)>>
                       ELSE <<RowOf(lay, 0, 8)>>])] : lay \in {OneLayout}}

(* Fifteen shards of sixteen have no row. *)
SparseFile ==
  {[name |-> "sparse", output |-> P1,
    spec |-> SpecOf(lay, 16, <<>>,
                    [s \in 0 .. 15 |-> IF s = 0 THEN <<RowOf(lay, 15, 6)>> ELSE <<>>])] :
   lay \in {OneLayout}}

(* What all these builds write.  Catalogue is evaluated once; the LET      *)
(* keeps TLC's coverage statistics, if it collects them, from descending   *)
(* into it wherever the state machine refers to Artifacts.                 *)
AllArtifacts == LET catalogue == Catalogue IN catalogue

(* These builds satisfy what the theorems about artifact files suppose.    *)
ASSUME CatalogueAssumption == ReadsBack /\ RoutesInput

(* No name in their schemas has a '#'. *)
ASSUME SchemaFilesReadBack == SchemaReadsBack

===============================================================================
