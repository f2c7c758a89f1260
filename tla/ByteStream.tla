------------------------------ MODULE ByteStream ------------------------------
(***************************************************************************)
(* Reading and writing of length-prefixed data, as update payloads         *)
(* (src/src/ingest/update_applier.cc) and artifact sections                *)
(* (src/src/artifact) use it.  An integer of any width is one number of    *)
(* the sequence, a byte of a string is another.                            *)
(*                                                                         *)
(* A reader is a record: whether every read so far succeeded, the next     *)
(* position, and what the last read got.                                   *)
(***************************************************************************)
EXTENDS Integers, SequencesExt

Reader == [ok |-> TRUE, next |-> 1, got |-> <<>>]

Failed == [ok |-> FALSE, next |-> 0, got |-> <<>>]

AtEnd(bytes, r) == r.ok /\ r.next = Len(bytes) + 1

ReadInteger(bytes, r) ==
  IF r.ok /\ r.next <= Len(bytes)
  THEN [ok |-> TRUE, next |-> r.next + 1, got |-> bytes[r.next]] ELSE Failed

ReadBytes(bytes, n, r) ==
  IF r.ok /\ r.next + n <= Len(bytes) + 1
  THEN [ok |-> TRUE, next |-> r.next + n,
        got |-> SubSeq(bytes, r.next, r.next + n - 1)]
  ELSE Failed

ReadString(bytes, r) ==
  LET size == ReadInteger(bytes, r)
  IN IF size.ok THEN ReadBytes(bytes, size.got, size) ELSE Failed

(* n values, one after the other, each read by Read. *)
ReadEach(bytes, n, r, Read(_, _)) ==
  LET After[i \in 0 .. n] ==
        IF i = 0 THEN [r EXCEPT !.got = <<>>]
        ELSE LET so_far == After[i - 1]
                 value == Read(bytes, so_far)
             IN IF so_far.ok /\ value.ok
                THEN [value EXCEPT !.got = Append(so_far.got, @)] ELSE Failed
  IN After[n]

(* A count, and that many values. *)
ReadCounted(bytes, r, Read(_, _)) ==
  LET count == ReadInteger(bytes, r)
  IN IF count.ok THEN ReadEach(bytes, count.got, count, Read) ELSE Failed

AppendString(value) == <<Len(value)>> \o value

AppendCounted(values, Append1(_)) ==
  <<Len(values)>> \o FlattenSeq([i \in DOMAIN values |-> Append1(values[i])])

===============================================================================
