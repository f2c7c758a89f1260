------------------------------ MODULE RowStorage ------------------------------
(***************************************************************************)
(* Encoded rows and the evolution of their schema.                         *)
(*                                                                         *)
(* A RuntimeSchema gains and loses fields (src/src/model/schema.cc).  An   *)
(* update target compiles the schema of the day into its layout and keeps  *)
(* it; the update applier decodes one payload, encodes its row for the     *)
(* layout of every target and publishes the rows target by target          *)
(* (src/src/ingest/update_applier.cc); readers find the fields of a row    *)
(* through the layout of its target (src/src/model/row_storage.cc).        *)
(*                                                                         *)
(* Rows of one key are enough: tables and their positions are modelled in  *)
(* RealtimeDeltaTable and ShardGenerations.  Of the positions, what counts *)
(* here is whether a target has the message at hand already, and whether   *)
(* its row comes from another partition.                                   *)
(***************************************************************************)
EXTENDS RowEncoding, SchemaSection, WirePayload

CONSTANTS
  Deployments,    \* for each name [fields, additions, retired, payloads,
                  \* partitions, targets, maxChanges]: the schema at first, the fields that
                  \* may be added, the ids that may be deleted, the payloads
                  \* that arrive and the partitions they arrive from, the
                  \* sequence of update target routes, and maxChanges, a
                  \* bound on the changes of the schema
  Targets,        \* the update target routes of all deployments
  SchemaVersion   \* the version of the schema, which no operation changes

ASSUME RowStorageAssumption ==
  /\ SchemaVersion \in Nat
  /\ \A name \in DOMAIN Deployments :
       /\ Deployments[name].targets \in Seq(Targets)
       /\ IsFiniteSet(Deployments[name].fields)
       /\ \A f, g \in Deployments[name].fields : f.field_id = g.field_id => f = g
       /\ \A f \in Deployments[name].fields \cup Deployments[name].additions :
            f.field_id \in Nat /\ f.type \in DOMAIN FieldTypeSize

VARIABLES
  deployment,  \* the name of the deployment; never changes
  active,      \* active_fields_ of the schema
  deleted,     \* deleted_fields_
  changes,     \* changes of the schema so far
  layout,      \* layout of each target, or None
  row,         \* the row each target has of the key, or None
  applied,     \* the message that row was made from, and its partition
  full,        \* the targets whose tables have no slot left for a new key
  pending,     \* the message that is applied or has to be delivered again,
               \* with the route that comes next (0: Apply has returned),
               \* or None
  reached,     \* the targets that have published the pending message
  due          \* history: the targets of the last message that was
               \* acknowledged, unless they are new since

(* What the deployment is like. *)
Here == Deployments[deployment]

schemaVars == <<deployment, active, deleted, changes>>

vars == <<schemaVars, layout, row, applied, full, pending, reached, due>>

-----------------------------------------------------------------------------
(* Encoding. *)

WriteArenaValue(field, value, r) ==
  LET spec == field.spec
      scalars == ScalarListBytes(spec.type, value)
  IN CASE ~spec.is_list ->
            WriteArena(field, value, Len(value), 0, r)
       [] spec.is_list /\ spec.type = "kString" ->
            WriteArena(field, StringListBytes(value, Len(r.arena)),
                       16 * Len(value), Len(value), r)
       [] OTHER -> WriteArena(field, scalars, Len(scalars), Len(value), r)

WriteDictionaryValue(field, value, r) ==
  WriteSlot(field, ValueRef16(Len(r.string_dictionary), 0, 0),
            [r EXCEPT !.string_dictionary = Append(@, value)])

WriteListDictionaryValue(field, value, r) ==
  IF field.spec.type = "kString"
  THEN WriteSlot(field, ValueRef16(Len(r.string_list_dictionary), 0, Len(value)),
                 [r EXCEPT !.string_list_dictionary = Append(@, value)])
  ELSE WriteSlot(field, ValueRef16(Len(r.scalar_list_dictionary), 0, Len(value)),
                 [r EXCEPT !.scalar_list_dictionary =
                    Append(@, ScalarListBytes(field.spec.type, value))])

(* Every element is a new entry of the dictionary; its ids go to the arena. *)
WriteElementDictionaryValue(field, value, r) ==
  LET first == Len(r.string_element_dictionary)
      ids == [i \in DOMAIN value |-> LittleEndian(first + i - 1, 4)]
  IN WriteArena(field, FlattenSeq(ids), 4 * Len(value), Len(value),
                [r EXCEPT !.string_element_dictionary = @ \o value])

Write(field, value, r) ==
  CASE field.spec.encoding = "kFixed" ->
         WriteSlot(field, LittleEndian(value[1], field.value_width), r)
    [] field.spec.encoding = "kArena" -> WriteArenaValue(field, value, r)
    [] field.spec.encoding = "kDictionary" -> WriteDictionaryValue(field, value, r)
    [] field.spec.encoding = "kListDictionary" ->
         WriteListDictionaryValue(field, value, r)
    [] field.spec.encoding = "kElementDictionary" ->
         WriteElementDictionaryValue(field, value, r)

-----------------------------------------------------------------------------
(* Messages.  A payload is the bytes that arrive, with the message that    *)
(* its producer meant: a sequence of decoded fields.  The bytes of a cut   *)
(* payload are the beginning of the message's.                             *)

(* The payloads of a deployment that can be decoded. *)
Decodable ==
  [name \in DOMAIN Deployments |->
     {p \in Deployments[name].payloads : DecodePayload(p.bytes).ok}]

(* The fields of a message that a layout has, in the message's order. *)
KnownFields(message, lay) ==
  SelectSeq(message, LAMBDA d : FindField(lay, d.field_id) # {})

Named(message) == {message[i].field_id : i \in DOMAIN message}

Required(lay) ==
  {lay.fields[i].spec.field_id : i \in
     {j \in DOMAIN lay.fields : /\ ~lay.fields[j].spec.nullable
                                /\ lay.fields[j].spec.default = None}}

(* The row for a layout can be made: no null and no other type for a field *)
(* of the layout, and MaterializeRow finds every required field present.   *)
Encodes(message, lay) ==
  /\ \A i \in DOMAIN message : \A f \in FindField(lay, message[i].field_id) :
       message[i].type = f.spec.type /\ message[i].is_list = f.spec.is_list
  /\ Required(lay) \subseteq Named(message)

EncodeForLayout(message, lay) ==
  FoldLeft(LAMBDA r, d : Write(CHOOSE f \in FindField(lay, d.field_id) : TRUE,
                               d.value, r),
           CreateEncodedRow(lay), KnownFields(message, lay))

(* Reading a field of a target's row by id, with the type it has there. *)
Get(t, id) ==
  LET fields == FindField(layout[t], id)
  IN IF fields = {} THEN Error("kNotFound")
     ELSE ReadValue(CHOOSE f \in fields : TRUE, row[t])

-----------------------------------------------------------------------------
(* Operations. *)

Init ==
  /\ deployment \in DOMAIN Deployments
  /\ active = Here.fields
  /\ deleted = {}
  /\ changes = 0
  /\ layout = [t \in Targets |-> None]
  /\ row = [t \in Targets |-> None]
  /\ applied = [t \in Targets |-> None]
  /\ full = {}
  /\ pending = None
  /\ reached = {}
  /\ due = {}

Ids(specs) == {f.field_id : f \in specs}

(* Mutant: the ids of deleted fields are free again. *)
AddFieldReusingIds(spec) ==
  /\ changes < Here.maxChanges
  /\ spec.field_id \notin Ids(active)
  /\ ValidateEncodingPolicy(spec)
  /\ active' = active \cup {spec}
  /\ changes' = changes + 1
  /\ UNCHANGED <<deployment, deleted, layout, row, applied, full, pending, reached, due>>

AddField(spec) ==
  /\ changes < Here.maxChanges
  /\ spec.field_id \notin Ids(active) \cup Ids(deleted)
  /\ ValidateEncodingPolicy(spec)
  /\ active' = active \cup {spec}
  /\ changes' = changes + 1
  /\ UNCHANGED <<deployment, deleted, layout, row, applied, full, pending, reached, due>>

DeleteField(spec) ==
  /\ changes < Here.maxChanges
  /\ active' = active \ {spec}
  /\ deleted' = deleted \cup {spec}
  /\ changes' = changes + 1
  /\ UNCHANGED <<deployment, layout, row, applied, full, pending, reached, due>>

Applying == pending # None /\ pending.at # 0

(* A target with the layout of the present schema, and an empty table; the *)
(* routes of an applier do not change while it applies a message.          *)
NewTarget(t) ==
  /\ ~Applying
  /\ layout' = [layout EXCEPT ![t] = Compile(active)]
  /\ row' = [row EXCEPT ![t] = None]
  /\ applied' = [applied EXCEPT ![t] = None]
  /\ full' = full \ {t}
  /\ reached' = reached \ {t}
  /\ due' = due \ {t}
  /\ UNCHANGED <<schemaVars, pending>>

(* Other keys take the last slots of a table. *)
FillUp(t) ==
  /\ ~Applying
  /\ layout[t] # None /\ row[t] = None
  /\ full' = full \cup {t}
  /\ UNCHANGED <<schemaVars, layout, row, applied, pending, reached, due>>

(* options_.targets *)
Routes == SelectSeq(Here.targets, LAMBDA t : layout[t] # None)

Accepts(t, payload) == Encodes(DecodePayload(payload.bytes).got, layout[t])

(* Apply up to the first publication: the message is refused unless every  *)
(* target's row can be encoded.  A message that was not acknowledged is    *)
(* delivered again before any later one.                                   *)
Apply(payload, partition) ==
  /\ pending = None \/ pending = [payload |-> payload, partition |-> partition, at |-> 0]
  /\ Routes # <<>>
  /\ \A t \in Range(Routes) : Accepts(t, payload)
  /\ pending' = [payload |-> payload, partition |-> partition, at |-> 1]
  /\ UNCHANGED <<schemaVars, layout, row, applied, full, reached, due>>

(* The table of a target refuses the message: it has no slot for the key,  *)
(* or its row of the key comes from another partition.                     *)
Refuses(t) ==
  IF row[t] = None THEN t \in full ELSE applied[t].partition # pending.partition

(* The loop goes to the next route, or Apply returns Ok and the message is *)
(* acknowledged.                                                           *)
Advance(published) ==
  IF pending.at < Len(Routes)
  THEN /\ pending' = [pending EXCEPT !.at = @ + 1]
       /\ reached' = published
       /\ UNCHANGED due
  ELSE /\ pending' = None
       /\ reached' = {}
       /\ due' = Range(Routes)

(* One publication.  A target that has the message already keeps its row. *)
PublishTo(t) ==
  /\ Applying /\ t = Routes[pending.at]
  /\ ~Refuses(t)
  /\ row' = [row EXCEPT ![t] = IF t \in reached THEN @ ELSE
                EncodeForLayout(DecodePayload(pending.payload.bytes).got, layout[t])]
  /\ applied' = [applied EXCEPT ![t] = [message |-> pending.payload.message,
                                        partition |-> pending.partition]]
  /\ Advance(reached \cup {t})
  /\ UNCHANGED <<schemaVars, layout, full>>

(* Mutant: the refusal of one target does not end the loop. *)
PublishRefusedGoesOn(t) ==
  /\ Applying /\ t = Routes[pending.at]
  /\ Refuses(t)
  /\ Advance(reached)
  /\ UNCHANGED <<schemaVars, layout, row, applied, full>>

(* The first refusal is the result of Apply: the targets before keep the   *)
(* row, the targets behind are not tried.                                  *)
PublishRefused(t) ==
  /\ Applying /\ t = Routes[pending.at]
  /\ Refuses(t)
  /\ pending' = [pending EXCEPT !.at = 0]
  /\ UNCHANGED <<schemaVars, layout, row, applied, full, reached, due>>

Next ==
  \/ \E spec \in Here.additions : AddField(spec)
  \/ \E spec \in active : spec.field_id \in Here.retired /\ DeleteField(spec)
  \/ \E t \in Range(Here.targets) : NewTarget(t) \/ FillUp(t)
  \/ \E payload \in Decodable[deployment], partition \in Here.partitions :
       Apply(payload, partition)
  \/ \E t \in Targets : PublishTo(t) \/ PublishRefused(t)

Spec == Init /\ [][Next]_vars

-----------------------------------------------------------------------------
(* Properties. *)

Layouts == {layout[t] : t \in {u \in Targets : layout[u] # None}}

TargetsWithRow == {t \in Targets : row[t] # None}

FieldIdsOf(lay) == {lay.fields[i].spec.field_id : i \in DOMAIN lay.fields}

(* In the layout of every schema that AddField and DeleteField can lead    *)
(* to, each field has its own presence bit and its own aligned bytes       *)
(* within the row slot (CompiledRowLayout::Compile, schema.cc:329-382).    *)
LayoutIsSound == \A lay \in Layouts : IsSound(lay)

(* What a reader should get of a field: the value in the message the row   *)
(* was made from, or else its default, or the answer that it is absent.    *)
Expected(t, field) ==
  LET message == applied[t].message
      sent == {message[i].value : i \in
                 {j \in DOMAIN message : message[j].field_id = field.spec.field_id}}
  IN IF sent # {} THEN Ok(CHOOSE v \in sent : TRUE)
     ELSE IF field.spec.default # None THEN Ok(field.spec.default.value)
     ELSE Error("kNotFound")

(* Every field of a published row reads back what the message said of it,  *)
(* whatever other fields were written before or after it into the same     *)
(* slot, arena and dictionaries, in any order of the message, and a        *)
(* payload that was cut somewhere makes no row (DecodePayload).            *)
RowsReadBack ==
  \A t \in TargetsWithRow : \A i \in DOMAIN layout[t].fields :
    Get(t, layout[t].fields[i].spec.field_id) = Expected(t, layout[t].fields[i])

(* Targets with different layouts never drift apart, although a message is *)
(* published to one after the other and any of them may refuse it.  Every  *)
(* target of an acknowledged message has a row, and rows of two of them    *)
(* read alike in the fields of both layouts, unless one target has already *)
(* taken a message that is not acknowledged.  A target that has not taken  *)
(* it yet can: its layout accepts the message (UpdateApplier::Apply        *)
(* encodes for all targets first), so that delivering it again is of use.  *)
TargetsAgree ==
  \A t, u \in due :
    /\ row[t] # None
    /\ (t \in reached <=> u \in reached) =>
         \A id \in FieldIdsOf(layout[t]) \cap FieldIdsOf(layout[u]) :
           Get(t, id) = Get(u, id)
    /\ t \in reached /\ u \notin reached => Accepts(u, pending.payload)

(* An id means one field for ever: layouts compiled at any two times agree *)
(* on the type, shape, encoding and default of the ids they share          *)
(* (RuntimeSchema::AddField refuses the ids of deleted fields).            *)
FieldIdKeepsItsMeaning ==
  \A lay \in Layouts : \A i \in DOMAIN lay.fields : \A spec \in active :
    lay.fields[i].spec.field_id = spec.field_id => lay.fields[i].spec = spec

(* A loader never reads rows with another layout than the one they were    *)
(* written with: what ParseArtifact compiles from the schema section is    *)
(* that layout or an error, and no error when no field has a default.      *)
ArtifactLayoutIsExact ==
  \A lay \in Layouts :
    LET parsed == ParseSchemaSection(SerializeSchema(SchemaVersion, lay), SchemaVersion,
                                     BuildFingerprint(lay))
    IN /\ parsed \subseteq {lay}
       /\ (\A i \in DOMAIN lay.fields : lay.fields[i].spec.default = None)
            => parsed = {lay}

=============================================================================
