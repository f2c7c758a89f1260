----------------------------- MODULE RowEncoding -----------------------------
(***************************************************************************)
(* Encoded rows (src/src/model/row_storage.cc, src/base/byte_io.h): the    *)
(* slot, the arena and the dictionaries of a row, how a value is stored    *)
(* into them and how a reader gets it back.  The update applier and the    *)
(* offline builder choose among these writers in code of their own.        *)
(*                                                                         *)
(* Bytes are numbers.  A value is a sequence: the bytes of a string, the   *)
(* elements of a list, or the one number of a scalar; numbers are below    *)
(* 2^16, so that a little-endian number of any width has two bytes that    *)
(* matter.                                                                 *)
(***************************************************************************)
EXTENDS RowLayout, SequencesExt

-----------------------------------------------------------------------------
(* Bytes. *)

LittleEndian(value, width) ==
  [k \in 1 .. width |->
     CASE k = 1 -> value % 256 [] k = 2 -> value \div 256 [] OTHER -> 0]

(* 2^16 stands for every larger number. *)
ReadLittleEndian(bytes, offset, width) ==
  IF \E k \in 3 .. width : bytes[offset + k] # 0 THEN 65536
  ELSE bytes[offset + 1] + (IF width > 1 THEN 256 * bytes[offset + 2] ELSE 0)

Overwritten(bytes, offset, new) ==
  SubSeq(bytes, 1, offset) \o new \o SubSeq(bytes, offset + Len(new) + 1, Len(bytes))

ValueRef16(offset, byte_length, count) ==
  LittleEndian(offset, 8) \o LittleEndian(byte_length, 4) \o LittleEndian(count, 4)

DecodeValueRef16(bytes, offset) ==
  [offset |-> ReadLittleEndian(bytes, offset, 8),
   byte_length |-> ReadLittleEndian(bytes, offset + 8, 4),
   count |-> ReadLittleEndian(bytes, offset + 12, 4)]

ScalarListBytes(type, values) ==
  FlattenSeq([i \in DOMAIN values |-> LittleEndian(values[i], FieldTypeSize[type])])

-----------------------------------------------------------------------------
(* Encoding. *)

CreateEncodedRow(lay) ==
  [layout_fingerprint |-> BuildFingerprint(lay),
   row_slot |-> [i \in 1 .. lay.row_slot_size |-> 0],
   arena |-> <<>>,
   string_dictionary |-> <<>>,
   scalar_list_dictionary |-> <<>>,
   string_list_dictionary |-> <<>>,
   string_element_dictionary |-> <<>>]

PresenceByte(field) == field.presence_bit_index \div 8 + 1

PresenceBit(field) == 2 ^ (field.presence_bit_index % 8)

FieldPresent(field, r) ==
  (r.row_slot[PresenceByte(field)] \div PresenceBit(field)) % 2 = 1

SetFieldPresent(field, r) ==
  IF FieldPresent(field, r) THEN r
  ELSE [r EXCEPT !.row_slot[PresenceByte(field)] = @ + PresenceBit(field)]

WriteSlot(field, bytes, r) ==
  SetFieldPresent(field,
    [r EXCEPT !.row_slot = Overwritten(@, field.slot_offset, bytes)])

(* Append bytes to the arena and refer to the first refBytes of them. *)
WriteArena(field, bytes, refBytes, count, r) ==
  WriteSlot(field, ValueRef16(Len(r.arena), refBytes, count),
            [r EXCEPT !.arena = @ \o bytes])

(* Mutant: references are relative to the list. *)
RelativeStringListBytes(values, start) ==
  LET n == Len(values)
      Before(i) == Len(FlattenSeq(SubSeq(values, 1, i - 1)))
      refs == [i \in 1 .. n |-> ValueRef16(16 * n + Before(i), Len(values[i]), 0)]
  IN FlattenSeq(refs) \o FlattenSeq(values)

(* One reference per string, then the strings; the references are offsets  *)
(* into the whole arena.                                                   *)
StringListBytes(values, start) ==
  LET n == Len(values)
      Before(i) == Len(FlattenSeq(SubSeq(values, 1, i - 1)))
      refs == [i \in 1 .. n |->
                 ValueRef16(start + 16 * n + Before(i), Len(values[i]), 0)]
  IN FlattenSeq(refs) \o FlattenSeq(values)

-----------------------------------------------------------------------------
(* Reading. *)

Ok(value) == [code |-> "kOk", value |-> value]

Error(code) == [code |-> code, value |-> <<>>]

DefaultValue(field) ==
  IF field.spec.default # None THEN Ok(field.spec.default.value)
  ELSE IF field.spec.nullable THEN Error("kNotFound")
       ELSE Error("kFailedPrecondition")

InBounds(ref, bytes) == ref.offset + ref.byte_length <= Len(bytes)

BytesAt(bytes, ref) == SubSeq(bytes, ref.offset + 1, ref.offset + ref.byte_length)

DecodeScalarList(type, bytes, count) ==
  LET width == FieldTypeSize[type]
      values == [i \in 1 .. count |-> ReadLittleEndian(bytes, (i - 1) * width, width)]
  IN IF \/ Len(bytes) # count * width
        \/ type = "kBool" /\ \E i \in 1 .. count : values[i] > 1
     THEN Error("kInvalidArgument") ELSE Ok(values)

DecodeArenaStringList(ref, arena) ==
  LET refs == [i \in 1 .. ref.count |->
                 DecodeValueRef16(arena, ref.offset + 16 * (i - 1))]
  IN IF \/ ref.byte_length # 16 * ref.count
        \/ \E i \in 1 .. ref.count : ~InBounds(refs[i], arena)
     THEN Error("kInvalidArgument")
     ELSE Ok([i \in 1 .. ref.count |-> BytesAt(arena, refs[i])])

ReadArenaValue(spec, ref, arena) ==
  CASE ~InBounds(ref, arena) -> Error("kInvalidArgument")
    [] OTHER ->
         IF ~spec.is_list THEN Ok(BytesAt(arena, ref))
         ELSE IF spec.type = "kString" THEN DecodeArenaStringList(ref, arena)
         ELSE DecodeScalarList(spec.type, BytesAt(arena, ref), ref.count)

Entry(dictionary, id) ==
  IF id < Len(dictionary) THEN Ok(dictionary[id + 1])
  ELSE Error("kInvalidArgument")

ReadListDictionaryValue(spec, ref, r) ==
  LET entry == IF spec.type = "kString" THEN Entry(r.string_list_dictionary, ref.offset)
               ELSE Entry(r.scalar_list_dictionary, ref.offset)
  IN CASE entry.code # "kOk" -> entry
       [] spec.type # "kString" ->
            DecodeScalarList(spec.type, entry.value, ref.count)
       [] OTHER -> IF Len(entry.value) = ref.count THEN entry
                   ELSE Error("kInvalidArgument")

ReadElementDictionaryValue(ref, r) ==
  LET values == [i \in 1 .. ref.count |->
                   Entry(r.string_element_dictionary,
                         ReadLittleEndian(r.arena, ref.offset + 4 * (i - 1), 4))]
  IN IF \/ ~InBounds(ref, r.arena)
        \/ ref.byte_length # 4 * ref.count
        \/ \E i \in 1 .. ref.count : values[i].code # "kOk"
     THEN Error("kInvalidArgument")
     ELSE Ok([i \in 1 .. ref.count |-> values[i].value])

ReadFixedValue(field, r) ==
  LET number == ReadLittleEndian(r.row_slot, field.slot_offset, field.value_width)
  IN IF field.spec.type = "kBool" /\ number > 1
     THEN Error("kInvalidArgument") ELSE Ok(<<number>>)

ReadValue(field, r) ==
  LET ref == DecodeValueRef16(r.row_slot, field.slot_offset)
      encoding == field.spec.encoding
  IN CASE ~FieldPresent(field, r) -> DefaultValue(field)
       [] OTHER ->
            CASE encoding = "kFixed" -> ReadFixedValue(field, r)
              [] encoding = "kArena" -> ReadArenaValue(field.spec, ref, r.arena)
              [] encoding = "kDictionary" -> Entry(r.string_dictionary, ref.offset)
              [] encoding = "kListDictionary" ->
                   ReadListDictionaryValue(field.spec, ref, r)
              [] encoding = "kElementDictionary" ->
                   ReadElementDictionaryValue(ref, r)

=============================================================================
