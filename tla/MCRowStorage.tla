----------------------------- MODULE MCRowStorage -----------------------------
(***************************************************************************)
(* Instances of row storage for TLC: one target with a field of every      *)
(* encoding in schemas that fill the first word of presence bits, and two  *)
(* targets whose schemas differ.                                           *)
(***************************************************************************)
EXTENDS RowStorage

Field(id, type, isList, nullable, encoding, default) ==
  [field_id |-> id, type |-> type, is_list |-> isList, nullable |-> nullable,
   encoding |-> encoding, name |-> <<id % 7>>,
   default |-> IF default = <<>> THEN None
               ELSE [type |-> type, is_list |-> isList, value |-> default[1]]]

Scalar(id, type) == Field(id, type, FALSE, TRUE, "kFixed", <<>>)

Sent(id, type, isList, value) ==
  [field_id |-> id, type |-> type, is_list |-> isList, value |-> value]

Whole(message) == [message |-> message, bytes |-> EncodePayload(message)]

(* The payload of a message, whole or cut anywhere. *)
Cuts(message) ==
  {[message |-> message, bytes |-> SubSeq(EncodePayload(message), 1, n)] :
     n \in 0 .. Len(EncodePayload(message))}

Malformed(bytes) == [message |-> <<>>, bytes |-> bytes]

-----------------------------------------------------------------------------
(* A field of every encoding; strings are sequences of bytes. *)

EveryEncoding ==
  {Scalar(1, "kInt8"),
   Field(2, "kInt64", FALSE, FALSE, "kFixed", <<>>),
   Field(3, "kBool", FALSE, TRUE, "kFixed", << <<1>> >>),
   Field(4, "kInt32", FALSE, FALSE, "kFixed", << <<7>> >>),
   Field(5, "kString", FALSE, TRUE, "kArena", <<>>),
   Field(6, "kString", FALSE, TRUE, "kDictionary", << <<4, 2>> >>),
   Field(7, "kInt32", TRUE, TRUE, "kArena", <<>>),
   Field(8, "kString", TRUE, TRUE, "kArena", <<>>),
   Field(9, "kUInt64", TRUE, TRUE, "kListDictionary", <<>>),
   Field(10, "kString", TRUE, TRUE, "kListDictionary", <<>>),
   Field(11, "kString", TRUE, TRUE, "kElementDictionary", <<>>),
   Field(12, "kBool", TRUE, TRUE, "kArena", << <<1, 0>> >>)}

(* Sixty-three fields, and room for one more. *)
FullWord == EveryEncoding \cup {Scalar(100 + i, "kInt8") : i \in 1 .. 51}

(* Fields the policy accepts, and fields it refuses. *)
MoreFields ==
  {Field(0, "kBool", FALSE, TRUE, "kFixed", <<>>),
   Field(13, "kInt8", TRUE, TRUE, "kArena", <<>>),
   Field(14, "kInt32", TRUE, TRUE, "kElementDictionary", <<>>),
   Field(15, "kString", FALSE, TRUE, "kFixed", <<>>),
   [Scalar(16, "kInt64") EXCEPT
      !.default = [type |-> "kInt32", is_list |-> FALSE, value |-> <<1>>]]}

Everything ==
  <<Sent(0, "kBool", FALSE, <<0>>), Sent(1, "kInt8", FALSE, <<200>>),
    Sent(2, "kInt64", FALSE, <<40000>>), Sent(3, "kBool", FALSE, <<0>>),
    Sent(4, "kInt32", FALSE, <<515>>), Sent(5, "kString", FALSE, <<11, 12>>),
    Sent(6, "kString", FALSE, <<13>>), Sent(7, "kInt32", TRUE, <<300, 2>>),
    Sent(8, "kString", TRUE, << <<14>>, <<>>, <<15, 16>> >>),
    Sent(9, "kUInt64", TRUE, <<9, 1000>>),
    Sent(10, "kString", TRUE, << <<17>> >>),
    Sent(11, "kString", TRUE, << <<18, 19>>, <<20>> >>),
    Sent(12, "kBool", TRUE, <<0, 1, 1>>), Sent(13, "kInt8", TRUE, <<6>>),
    Sent(150, "kInt8", FALSE, <<21>>), Sent(151, "kInt8", FALSE, <<22>>)>>

(* The same fields from the last to the first, with other values. *)
Backwards ==
  <<Sent(12, "kBool", TRUE, <<>>), Sent(11, "kString", TRUE, <<>>),
    Sent(10, "kString", TRUE, <<>>), Sent(9, "kUInt64", TRUE, <<>>),
    Sent(8, "kString", TRUE, << <<21, 22, 23>> >>), Sent(7, "kInt32", TRUE, <<>>),
    Sent(6, "kString", FALSE, <<>>), Sent(5, "kString", FALSE, <<24>>),
    Sent(4, "kInt32", FALSE, <<0>>), Sent(3, "kBool", FALSE, <<1>>),
    Sent(2, "kInt64", FALSE, <<0>>), Sent(1, "kInt8", FALSE, <<255>>)>>

(* Two fields of one id, a value behind the last field, a wrong version, a *)
(* kind and flags that do not exist, a null and a scalar of a wrong length, *)
(* a boolean that is none and a list with bytes behind it.                 *)
MalformedPayloads ==
  {Whole(<<Sent(2, "kInt64", FALSE, <<5>>), Sent(2, "kInt64", FALSE, <<6>>)>>)}
  \cup {Malformed(b) : b \in
          {<<75, 1, 0, 1, 2, 3, 1, 5, 0>>, <<75, 2, 0, 1, 2, 3, 1, 5>>,
           <<75, 1, 0, 1, 2, 7, 1, 5>>, <<75, 1, 1, 1, 2, 3, 1, 5>>,
           <<75, 1, 0, 2, 2, 3, 1, 5, 1, 0, 1, 0>>, <<75, 1, 0, 1, 2, 3, 2, 5, 5>>,
           <<75, 1, 0, 2, 2, 3, 1, 5, 3, 5, 1, 2>>,
           <<75, 1, 0, 2, 2, 3, 1, 5, 7, 18, 3, 1, 9, 9>>}}

EveryEncodingOnce ==
  [fields |-> FullWord, additions |-> MoreFields, retired |-> {1, 2, 4, 5, 8, 11},
   partitions |-> {0}, targets |-> <<CHOOSE t \in Targets : TRUE>>, maxChanges |-> 2,
   payloads |-> Cuts(Everything) \cup Cuts(Backwards) \cup MalformedPayloads
     \cup Cuts(<<Sent(2, "kInt64", FALSE, <<5>>), Sent(5, "kString", FALSE, <<1, 2>>)>>)
     \cup {Whole(<<Sent(2, "kInt64", FALSE, <<5>>), Sent(99, "kNull", FALSE, <<>>)>>),
           Whole(<<Sent(7, "kInt32", TRUE, <<1>>)>>)}]

-----------------------------------------------------------------------------
(* Two targets: a field is deleted, others are added, one of them required. *)

OldFields ==
  {Field(1, "kInt32", FALSE, FALSE, "kFixed", <<>>), Scalar(2, "kInt64")}

NewFields ==
  {Field(2, "kInt64", FALSE, TRUE, "kFixed", << <<9>> >>),
   Field(3, "kBool", FALSE, TRUE, "kFixed", << <<1>> >>),
   Field(4, "kString", FALSE, FALSE, "kDictionary", <<>>)}

TargetMessages ==
  {<<Sent(1, "kInt32", FALSE, <<5>>)>>,
   <<Sent(1, "kInt32", FALSE, <<6>>), Sent(2, "kInt64", FALSE, <<7>>)>>,
   <<Sent(4, "kString", FALSE, <<1>>), Sent(1, "kInt32", FALSE, <<8>>)>>,
   <<Sent(1, "kInt32", FALSE, <<5>>), Sent(3, "kNull", FALSE, <<>>)>>}

TwoLayouts ==
  [fields |-> OldFields, additions |-> NewFields, retired |-> 1 .. 4,
   partitions |-> {0, 1}, targets |-> SetToSeq(Targets), maxChanges |-> 3,
   payloads |-> {Whole(message) : message \in TargetMessages}]

TwoDeployments == [encodings |-> EveryEncodingOnce, layouts |-> TwoLayouts]

=============================================================================
