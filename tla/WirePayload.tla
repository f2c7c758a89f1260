----------------------------- MODULE WirePayload -----------------------------
(***************************************************************************)
(* The payload of an update message and its decoder                        *)
(* (src/src/ingest/update_applier.cc).  A payload is a header (magic,      *)
(* version, flags), a count and that many fields: id, wire kind, length    *)
(* and the bytes of the value.  Numbers are read as ByteStream says; a     *)
(* scalar therefore has length 1.                                          *)
(*                                                                         *)
(* A decoded field is a record with field_id, type, is_list and value; a   *)
(* null field has the type kNull.                                          *)
(***************************************************************************)
EXTENDS ByteStream, FiniteSets

kMagic == 75

kWireVersion == 1

(* The wire kinds of the scalars and strings; a list's kind is 16 more. *)
WireKinds == <<"kInt8", "kInt32", "kInt64", "kUInt64", "kBool", "kString">>

kNull == 0

kFirstList == 16

(* ReadScalarList, ReadBoolList, ReadStringList: a count, the elements, and *)
(* nothing behind them.                                                    *)
DecodeList(type, bytes) ==
  LET values == IF type = "kString" THEN ReadCounted(bytes, Reader, ReadString)
                ELSE ReadCounted(bytes, Reader, ReadInteger)
  IN IF /\ AtEnd(bytes, values)
        /\ type = "kBool" => \A i \in DOMAIN values.got : values.got[i] <= 1
     THEN values ELSE Failed

(* ReadExactInteger, ReadBool; a string is the bytes themselves. *)
DecodeScalar(type, bytes) ==
  IF \/ type = "kString"
     \/ Len(bytes) = 1 /\ (type = "kBool" => bytes[1] <= 1)
  THEN [Reader EXCEPT !.got = bytes] ELSE Failed

DecodeValue(id, kind, bytes) ==
  LET is_list == kind > kFirstList
      code == IF is_list THEN kind - kFirstList ELSE kind
      value == IF is_list THEN DecodeList(WireKinds[code], bytes)
               ELSE DecodeScalar(WireKinds[code], bytes)
      Field(type, list, v) ==
        [Reader EXCEPT !.got =
           [field_id |-> id, type |-> type, is_list |-> list, value |-> v]]
  IN CASE kind = kNull -> IF bytes = <<>> THEN Field("kNull", FALSE, <<>>) ELSE Failed
       [] code \notin DOMAIN WireKinds -> Failed
       [] OTHER -> IF value.ok THEN Field(WireKinds[code], is_list, value.got) ELSE Failed

ReadPayloadField(bytes, r) ==
  LET fixed == ReadBytes(bytes, 2, r)
      data == ReadString(bytes, fixed)
      value == DecodeValue(fixed.got[1], fixed.got[2], data.got)
  IN IF data.ok /\ value.ok THEN [data EXCEPT !.got = value.got] ELSE Failed

(* The fields of a payload, all of them or none. *)
DecodePayload(bytes) ==
  LET header == ReadBytes(bytes, 3, Reader)
      fields == ReadCounted(bytes, header, ReadPayloadField)
  IN IF /\ header.ok /\ header.got = <<kMagic, kWireVersion, 0>>
        /\ AtEnd(bytes, fields)
        /\ \A i, j \in DOMAIN fields.got :
             fields.got[i].field_id = fields.got[j].field_id => i = j
     THEN fields ELSE Failed

-----------------------------------------------------------------------------
(* What producers send. *)

KindOf(field) ==
  IF field.type = "kNull" THEN kNull
  ELSE (CHOOSE code \in DOMAIN WireKinds : WireKinds[code] = field.type)
         + (IF field.is_list THEN kFirstList ELSE 0)

ValueBytes(field) ==
  IF ~field.is_list THEN field.value
  ELSE IF field.type = "kString" THEN AppendCounted(field.value, AppendString)
  ELSE AppendString(field.value)

EncodeField(field) == <<field.field_id, KindOf(field)>> \o AppendString(ValueBytes(field))

EncodePayload(message) ==
  <<kMagic, kWireVersion, 0>> \o AppendCounted(message, EncodeField)

===============================================================================
