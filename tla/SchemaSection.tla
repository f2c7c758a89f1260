---------------------------- MODULE SchemaSection ----------------------------
(***************************************************************************)
(* The schema section of an artifact: what SerializeSchema                 *)
(* (src/src/artifact/artifact_writer.cc) writes of the layout of the rows, *)
(* and the layout that ParseSchemaSection (artifact_format.cc) compiles    *)
(* from it.  Default values are not written.                               *)
(***************************************************************************)
EXTENDS RowLayout, ByteStream

FieldTypes == <<"kInt8", "kInt32", "kInt64", "kUInt64", "kBool", "kString">>

FieldEncodings ==
  <<"kFixed", "kArena", "kDictionary", "kListDictionary", "kElementDictionary">>

(* The number an enumerator is written as. *)
CodeOf(enumerators, name) ==
  CHOOSE code \in DOMAIN enumerators : enumerators[code] = name

Flag(b) == IF b THEN 1 ELSE 0

SerializeField(spec) ==
  <<spec.field_id, CodeOf(FieldTypes, spec.type), Flag(spec.is_list),
    Flag(spec.nullable), CodeOf(FieldEncodings, spec.encoding)>>
    \o AppendString(spec.name)

SerializeSchema(schema_version, lay) ==
  <<schema_version>>
    \o AppendCounted([i \in DOMAIN lay.fields |-> lay.fields[i].spec], SerializeField)

ReadField(bytes, r) ==
  LET fixed == ReadBytes(bytes, 5, r)
      name == ReadString(bytes, fixed)
      f == fixed.got
  IN IF /\ name.ok
        /\ f[2] \in DOMAIN FieldTypes /\ f[5] \in DOMAIN FieldEncodings
     THEN [name EXCEPT !.got =
             [field_id |-> f[1], type |-> FieldTypes[f[2]], is_list |-> f[3] # 0,
              nullable |-> f[4] # 0, encoding |-> FieldEncodings[f[5]],
              name |-> name.got, default |-> None]]
     ELSE Failed

(* Fields that AddField takes one after the other. *)
Addable(specs) ==
  /\ \A i \in DOMAIN specs : ValidateEncodingPolicy(specs[i])
  /\ \A i, j \in DOMAIN specs : specs[i].field_id = specs[j].field_id => i = j

(* Mutant: the fingerprint in the header is not compared. *)
ParseSchemaUnchecked(section, schema_version, fingerprint) ==
  LET version == ReadInteger(section, Reader)
      specs == ReadCounted(section, version, ReadField)
  IN {lay \in {Compile(ToSet(specs.got))} :
        /\ version.ok /\ version.got = schema_version
        /\ AtEnd(section, specs)
        /\ Addable(specs.got)}

(* The layout a loader gets, if any.  The fingerprint covers the defaults  *)
(* too, so that a layout with one is refused.                              *)
ParseSchemaSection(section, schema_version, fingerprint) ==
  LET version == ReadInteger(section, Reader)
      specs == ReadCounted(section, version, ReadField)
  IN {lay \in {Compile(ToSet(specs.got))} :
        /\ version.ok /\ version.got = schema_version
        /\ AtEnd(section, specs)
        /\ Addable(specs.got)
        /\ BuildFingerprint(lay) = fingerprint}

===============================================================================
