------------------------------ MODULE SchemaFile ------------------------------
(***************************************************************************)
(* The schema file of the offline builder: ParseSchemaFile and             *)
(* WriteSchemaFile (tools/offline/src/offline_artifact_builder.cc) and the *)
(* names of encodings (src/src/model/schema.cc).                           *)
(*                                                                         *)
(* A text is a sequence of character codes, in which a word that only      *)
(* matters as a whole is one code.  A line has its indentation, whether it *)
(* begins a list item, its key, "" if it has none, and the text behind the *)
(* colon.  A parse yields a set: its result, or nothing for an error.      *)
(***************************************************************************)
EXTENDS SchemaSection

CONSTANTS kUInt32Max,  \* UINT32_MAX and UINT64_MAX, of which only the order
          kUInt64Max   \* and the limits matter

ASSUME SchemaFileAssumption == kUInt32Max \in Nat /\ kUInt64Max \in Nat

Words ==
  <<"true", "false", "int8", "int32", "int64", "uint64", "bool", "string",
    "fixed", "arena", "dictionary", "element_dictionary">>

Word(word) == <<255 + CodeOf(Words, word)>>

Blanks == {9, 13, 32}

Quotes == {34, 39}

CommentSign == 35

Trim(text) ==
  LET inked == {i \in DOMAIN text : text[i] \notin Blanks}
  IN IF inked = {} THEN <<>> ELSE SubSeq(text, Min(inked), Max(inked))

(* A comment begins at the first sign that is not within quotes. *)
StripComment(text) ==
  LET Open[i \in 0 .. Len(text)] ==   \* the quote that is open, or 0
        IF i = 0 THEN 0
        ELSE LET before == Open[i - 1]
             IN IF before = 0 /\ text[i] \in Quotes THEN text[i]
                ELSE IF before = text[i] THEN 0 ELSE before
      comments == {i \in DOMAIN text : text[i] = CommentSign /\ Open[i - 1] = 0}
  IN IF comments = {} THEN text ELSE SubSeq(text, 1, Min(comments) - 1)

Unquote(text) ==
  IF Len(text) >= 2 /\ text[1] \in Quotes /\ text[Len(text)] = text[1]
  THEN SubSeq(text, 2, Len(text) - 1) ELSE text

IsDigit(code) == code \in 48 .. 57

ParseUnsigned(text, max) ==
  LET number == FoldLeft(LAMBDA n, code : 10 * n + (code - 48), 0, text)
  IN IF text = <<>> \/ \E i \in DOMAIN text : ~IsDigit(text[i]) THEN {}
     ELSE {n \in {number} : n <= max}

(* operator<< of a number with at most six digits. *)
Decimal(n) ==
  LET width == Min({w \in 1 .. 6 : n < 10 ^ w})
  IN [i \in 1 .. width |-> 48 + ((n \div 10 ^ (width - i)) % 10)]

ParseBool(text) == {b \in BOOLEAN : text = Word(IF b THEN "true" ELSE "false")}

FieldTypeName ==
  [kInt8 |-> "int8", kInt32 |-> "int32", kInt64 |-> "int64", kUInt64 |-> "uint64",
   kBool |-> "bool", kString |-> "string"]

ParseType(text) == {t \in DOMAIN FieldTypeName : text = Word(FieldTypeName[t])}

FieldEncodingConfigName ==
  [kFixed |-> "fixed", kArena |-> "arena", kDictionary |-> "dictionary",
   kListDictionary |-> "dictionary", kElementDictionary |-> "element_dictionary"]

ParseFieldEncoding(text, is_list, type) ==
  CASE text = Word("fixed") -> {e \in {"kFixed"} : ~is_list /\ type # "kString"}
    [] text = Word("arena") -> {e \in {"kArena"} : is_list \/ type = "kString"}
    [] text = Word("dictionary") ->
         IF is_list THEN {"kListDictionary"}
         ELSE {e \in {"kDictionary"} : type = "kString"}
    [] text = Word("element_dictionary") ->
         {e \in {"kElementDictionary"} : is_list /\ type = "kString"}
    [] OTHER -> {}

-----------------------------------------------------------------------------
(* Parsing.  The parser's state: the keys seen of the top level, of the    *)
(* primary key and of the field being read, with their values, and the     *)
(* fields completed.                                                       *)

NewConfig ==
  [ok |-> TRUE, section |-> "top", top |-> <<>>, primary_key |-> <<>>,
   pending |-> None, fields |-> <<>>]

Refused(config) == [config EXCEPT !.ok = FALSE]

TopLevelValue(key, text) ==
  CASE key \in {"schema_version", "hash_seed"} -> ParseUnsigned(text, kUInt64Max)
    [] key \in {"shard_count", "hash_version"} -> ParseUnsigned(text, kUInt32Max)
    [] OTHER -> {}

PrimaryKeyValue(key, text) ==
  CASE key = "name" -> {text} [] key = "type" -> ParseType(text) [] OTHER -> {}

FieldKeys == {"field_id", "name", "type", "is_list", "nullable", "encoding"}

FieldValue(key, text) ==
  CASE key = "field_id" -> ParseUnsigned(text, kUInt32Max)
    [] key \in {"name", "encoding"} -> {text}
    [] key = "type" -> ParseType(text)
    [] key \in {"is_list", "nullable"} -> ParseBool(text)
    [] OTHER -> {}

(* The last value of a key counts. *)
Assign(config, part, key, values) ==
  IF values = {} THEN Refused(config)
  ELSE [config EXCEPT ![part] = (key :> CHOOSE v \in values : TRUE) @@ @]

FlushParsedField(config) ==
  LET p == config.pending
      encodings == IF DOMAIN p = FieldKeys
                   THEN ParseFieldEncoding(p.encoding, p.is_list, p.type) ELSE {}
  IN IF p = None THEN config
     ELSE IF encodings = {} THEN Refused(config)
     ELSE [config EXCEPT !.pending = None,
             !.fields = Append(@, [p EXCEPT !.encoding = CHOOSE e \in encodings : TRUE]
                                    @@ [default |-> None])]

TopLevelLine(config, line, rest) ==
  IF ~config.ok \/ line.item THEN Refused(config)
  ELSE IF line.key \in {"primary_key", "fields"} /\ rest = <<>>
  THEN [config EXCEPT !.section = line.key]
  ELSE Assign([config EXCEPT !.section = "top"], "top", line.key,
              TopLevelValue(line.key, Unquote(rest)))

FieldLine(config, line, rest) ==
  LET here == IF line.item THEN [FlushParsedField(config) EXCEPT !.pending = <<>>]
              ELSE config
  IN IF ~here.ok \/ here.pending = None THEN Refused(config)
     ELSE Assign(here, "pending", line.key, FieldValue(line.key, Unquote(rest)))

ParseLine(config, line) ==
  LET rest == Trim(StripComment(line.text))
  IN CASE ~config.ok \/ (line.key = "" /\ ~line.item /\ rest = <<>>) -> config
       [] OTHER ->
            CASE line.indent = 0 -> TopLevelLine(FlushParsedField(config), line, rest)
              [] line.indent > 0 /\ config.section = "fields" ->
                   FieldLine(config, line, rest)
              [] line.indent > 0 /\ config.section = "primary_key" /\ ~line.item ->
                   Assign(config, "primary_key", line.key,
                          PrimaryKeyValue(line.key, Unquote(rest)))
              [] OTHER -> Refused(config)

ParseSchemaFile(lines) ==
  LET After[i \in 0 .. Len(lines)] ==
        IF i = 0 THEN NewConfig ELSE ParseLine(After[i - 1], lines[i])
  IN {config \in {FlushParsedField(After[Len(lines)])} :
        /\ After[Len(lines)].ok /\ config.ok
        /\ "schema_version" \in DOMAIN config.top
        /\ {"name", "type"} \subseteq DOMAIN config.primary_key
        /\ config.primary_key.type = "kUInt64"
        /\ config.fields # <<>>}

-----------------------------------------------------------------------------
(* Writing. *)

Line(indent, item, key, text) ==
  [indent |-> indent, item |-> item, key |-> key,
   text |-> IF text = <<>> THEN <<>> ELSE <<32>> \o text]

FieldLines(f) ==
  <<Line(2, TRUE, "field_id", Decimal(f.field_id)), Line(4, FALSE, "name", f.name),
    Line(4, FALSE, "type", Word(FieldTypeName[f.type])),
    Line(4, FALSE, "is_list", Word(IF f.is_list THEN "true" ELSE "false")),
    Line(4, FALSE, "nullable", Word(IF f.nullable THEN "true" ELSE "false")),
    Line(4, FALSE, "encoding", Word(FieldEncodingConfigName[f.encoding]))>>

WriteSchemaFile(config, spec) ==
  <<Line(0, FALSE, "schema_version", Decimal(spec.schema_version)),
    Line(0, FALSE, "shard_count", Decimal(spec.shard_count)),
    Line(0, FALSE, "hash_seed", Decimal(spec.hash_seed)),
    Line(0, FALSE, "hash_version", Decimal(spec.hash_version)),
    Line(0, FALSE, "primary_key", <<>>),
    Line(2, FALSE, "name", config.primary_key.name),
    Line(2, FALSE, "type", Word("uint64")),
    Line(0, FALSE, "fields", <<>>)>>
  \o FlattenSeq([i \in DOMAIN config.fields |-> FieldLines(config.fields[i])])

===============================================================================
