------------------------------ MODULE RowLayout ------------------------------
(***************************************************************************)
(* The compiled row layout: where the presence bit and the value of every  *)
(* field of a schema lie in the fixed-size slot of a row                   *)
(* (src/src/model/schema.cc, src/include/kv_index/schema.h).  A row slot   *)
(* is a presence bitmap, then the fixed scalars, each at its alignment,    *)
(* then one 16-byte value reference per string or list.                    *)
(*                                                                         *)
(* A field specification is a record with field_id, name, type, is_list,   *)
(* nullable, encoding and default, which is None or a record with type,    *)
(* is_list and value.  The schema version, which AddField and DeleteField  *)
(* never change, is left out.                                              *)
(***************************************************************************)
EXTENDS Integers, Sequences, FiniteSets

CONSTANT None

FieldTypeSize ==
  [kInt8 |-> 1, kBool |-> 1, kInt32 |-> 4, kInt64 |-> 8, kUInt64 |-> 8,
   kString |-> 16]

FieldTypeAlignment ==
  [kInt8 |-> 1, kBool |-> 1, kInt32 |-> 4, kInt64 |-> 8, kUInt64 |-> 8,
   kString |-> 8]

kValueRef16Size == 16

AlignUp(value, alignment) ==
  LET remainder == value % alignment
  IN IF remainder = 0 THEN value ELSE value + (alignment - remainder)

IsRefField(field) == field.is_list \/ field.type = "kString"

DefaultMatchesField(field) ==
  field.default # None =>
    /\ field.default.type = field.type
    /\ field.default.is_list = field.is_list

(* The encodings a field of a given shape and type may have. *)
Encodings(field) ==
  IF field.is_list
  THEN {"kArena", "kListDictionary"}
         \cup {e \in {"kElementDictionary"} : field.type = "kString"}
  ELSE IF field.type = "kString" THEN {"kArena", "kDictionary"} ELSE {"kFixed"}

ValidateEncodingPolicy(field) ==
  /\ field.name # <<>>
  /\ DefaultMatchesField(field)
  /\ field.encoding \in Encodings(field)

-----------------------------------------------------------------------------

(* The specifications in the order of their ids. *)
Sorted(specs) ==
  [i \in 1 .. Cardinality(specs) |->
     CHOOSE f \in specs :
       Cardinality({g \in specs : g.field_id < f.field_id}) = i - 1]

(* Mutant: one word of presence bits, however many fields there are. *)
OneWordBitmap(count) == 8

PresenceBitmapBytes(count) == AlignUp((count + 7) \div 8, 8)

(* Where a fixed scalar starts when the ones before it end at the cursor. *)
FixedStart(field, cursor) == AlignUp(cursor, FieldTypeAlignment[field.type])

(* fixed_cursor, before the first field and after each of them. *)
FixedCursor(fields) ==
  LET cursor[i \in 0 .. Len(fields)] ==
        IF i = 0 THEN PresenceBitmapBytes(Len(fields))
        ELSE IF IsRefField(fields[i]) THEN cursor[i - 1]
        ELSE FixedStart(fields[i], cursor[i - 1]) + FieldTypeSize[fields[i].type]
  IN cursor

(* ref_cursor when the loop comes to field i. *)
RefCursor(fields, refArea, i) ==
  refArea + kValueRef16Size * Cardinality({j \in 1 .. i - 1 : IsRefField(fields[j])})

LayOut(fields) ==
  LET fixed == FixedCursor(fields)
      refArea == AlignUp(fixed[Len(fields)], 8)
  IN [presence_bitmap_bytes |-> PresenceBitmapBytes(Len(fields)),
      ref_area_offset |-> refArea,
      row_slot_size |-> AlignUp(RefCursor(fields, refArea, Len(fields) + 1), 8),
      fields |->
        [i \in DOMAIN fields |->
           [spec |-> fields[i],
            presence_bit_index |-> i - 1,
            slot_offset |-> IF IsRefField(fields[i]) THEN RefCursor(fields, refArea, i)
                            ELSE FixedStart(fields[i], fixed[i - 1]),
            value_width |-> IF IsRefField(fields[i]) THEN kValueRef16Size
                            ELSE FieldTypeSize[fields[i].type]]]]

Compile(specs) == LayOut(Sorted(specs))

(* The 64-bit hash of everything in a layout, taken to be injective. *)
BuildFingerprint(layout) == layout

(* The fields of a layout with an id: none or one. *)
FindField(layout, id) ==
  {f \in {layout.fields[i] : i \in DOMAIN layout.fields} :
     f.spec.field_id = id}

-----------------------------------------------------------------------------

(* The bytes of the row slot that hold a field's value. *)
BytesOf(field) ==
  field.slot_offset .. field.slot_offset + field.value_width - 1

(* What a layout must be: a bit for every field in a bitmap that no value  *)
(* touches, values that lie in the slot, at their alignment, and apart.    *)
IsSound(layout) ==
  LET fields == {layout.fields[i] : i \in DOMAIN layout.fields}
  IN /\ layout.row_slot_size % 8 = 0
     /\ \A f \in fields :
          /\ f.presence_bit_index < 8 * layout.presence_bitmap_bytes
          /\ BytesOf(f) \subseteq
               layout.presence_bitmap_bytes .. layout.row_slot_size - 1
          /\ f.slot_offset % (IF IsRefField(f.spec) THEN 8 ELSE f.value_width) = 0
     /\ \A f, g \in fields :
          f # g => /\ f.presence_bit_index # g.presence_bit_index
                   /\ BytesOf(f) \cap BytesOf(g) = {}

=============================================================================
