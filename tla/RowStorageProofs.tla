--------------------------- MODULE RowStorageProofs ---------------------------
(***************************************************************************)
(* Proofs about compiled layouts and the evolution of schemas.             *)
(***************************************************************************)
EXTENDS RowStorage, FiniteSetTheorems, NumberFacts, TLAPS

(* A field whose type the layout compiler knows. *)
Typed(field) == field.type \in DOMAIN FieldTypeSize

-----------------------------------------------------------------------------
(* Alignment. *)

LEMMA AlignUpByte ==
  ASSUME NEW v \in Nat PROVE AlignUp(v, 1) = v
<1>1. v % 1 = 0
  OBVIOUS
<1>2. QED
  BY <1>1 DEF AlignUp

LEMMA AlignUpFour ==
  ASSUME NEW v \in Nat
  PROVE  AlignUp(v, 4) \in Nat /\ AlignUp(v, 4) >= v /\ AlignUp(v, 4) % 4 = 0
BY DEF AlignUp

LEMMA AlignUpEight ==
  ASSUME NEW v \in Nat
  PROVE  AlignUp(v, 8) \in Nat /\ AlignUp(v, 8) >= v /\ AlignUp(v, 8) % 8 = 0
BY DEF AlignUp

(* A fixed scalar starts behind the cursor, at a multiple of its size. *)
LEMMA FixedStartIsAligned ==
  ASSUME NEW field, Typed(field), ~IsRefField(field), NEW cursor \in Nat
  PROVE  /\ FieldTypeSize[field.type] \in Nat \ {0}
         /\ FixedStart(field, cursor) \in Nat
         /\ FixedStart(field, cursor) >= cursor
         /\ FixedStart(field, cursor) % FieldTypeSize[field.type] = 0
<1>1. field.type \in {"kInt8", "kBool", "kInt32", "kInt64", "kUInt64"}
  BY DEF Typed, FieldTypeSize, IsRefField
<1>2. CASE field.type \in {"kInt8", "kBool"}
  <2>1. FieldTypeSize[field.type] = 1 /\ FieldTypeAlignment[field.type] = 1
    BY <1>2 DEF FieldTypeSize, FieldTypeAlignment
  <2>2. FixedStart(field, cursor) = cursor
    BY <2>1, AlignUpByte DEF FixedStart
  <2>3. cursor % 1 = 0
    OBVIOUS
  <2>4. QED
    BY <2>1, <2>2, <2>3
<1>3. CASE field.type = "kInt32"
  <2>1. FieldTypeSize[field.type] = 4 /\ FieldTypeAlignment[field.type] = 4
    BY <1>3 DEF FieldTypeSize, FieldTypeAlignment
  <2>2. QED
    BY <2>1, AlignUpFour DEF FixedStart
<1>4. CASE field.type \in {"kInt64", "kUInt64"}
  <2>1. FieldTypeSize[field.type] = 8 /\ FieldTypeAlignment[field.type] = 8
    BY <1>4 DEF FieldTypeSize, FieldTypeAlignment
  <2>2. QED
    BY <2>1, AlignUpEight DEF FixedStart
<1>5. QED
  BY <1>1, <1>2, <1>3, <1>4

-----------------------------------------------------------------------------
(* The cursor of the fixed scalars, a recursive function. *)

LEMMA FixedCursorUnfolds ==
  ASSUME NEW fields, Len(fields) \in Nat,
         \A i \in 1 .. Len(fields) : Typed(fields[i])
  PROVE  FixedCursor(fields) =
           [i \in 0 .. Len(fields) |->
              IF i = 0 THEN PresenceBitmapBytes(Len(fields))
              ELSE IF IsRefField(fields[i]) THEN FixedCursor(fields)[i - 1]
              ELSE FixedStart(fields[i], FixedCursor(fields)[i - 1])
                     + FieldTypeSize[fields[i].type]]
<1> DEFINE n == Len(fields)
           Step(i, c) == IF IsRefField(fields[i]) THEN c
                         ELSE FixedStart(fields[i], c) + FieldTypeSize[fields[i].type]
           Unfolds(f) == f = [i \in 0 .. n |->
                                IF i = 0 THEN PresenceBitmapBytes(n)
                                ELSE IF IsRefField(fields[i]) THEN f[i - 1]
                                ELSE FixedStart(fields[i], f[i - 1])
                                       + FieldTypeSize[fields[i].type]]
           step == [i \in 1 .. n |-> [c \in Nat |-> Step(i, c)]]
<1>1. PresenceBitmapBytes(n) \in Nat
  <2>1. (n + 7) \div 8 \in Nat
    OBVIOUS
  <2>2. QED
    BY <2>1, AlignUpEight DEF PresenceBitmapBytes
<1>2. \A i \in 1 .. n, c \in Nat : Step(i, c) \in Nat
  <2>1. ASSUME NEW i \in 1 .. n, NEW c \in Nat, ~IsRefField(fields[i])
        PROVE  FixedStart(fields[i], c) + FieldTypeSize[fields[i].type] \in Nat
    <3>1. Typed(fields[i])
      OBVIOUS
    <3>2. /\ FixedStart(fields[i], c) \in Nat
          /\ FieldTypeSize[fields[i].type] \in Nat
      BY <2>1, <3>1, FixedStartIsAligned
    <3>3. QED
      BY <3>2
  <2>2. QED
    BY <2>1
<1>3. \E g \in [0 .. n -> Nat] :
        g[0] = PresenceBitmapBytes(n) /\ \A i \in 1 .. n : g[i] = Step(i, g[i - 1])
  <2> HIDE DEF n, Step
  <2>1. step \in [1 .. n -> [Nat -> Nat]]
    BY <1>2
  <2>2. n \in Nat
    BY DEF n
  <2>3. PICK g \in [0 .. n -> Nat] :
          g[0] = PresenceBitmapBytes(n) /\ \A i \in 1 .. n : g[i] = step[i][g[i - 1]]
    <3> HIDE DEF step
    <3>1. QED
      BY <1>1, <2>1, <2>2, StepsUnwind
  <2>4. ASSUME NEW i \in 1 .. n PROVE g[i] = Step(i, g[i - 1])
    <3>1. g[i - 1] \in Nat
      BY <2>2, <2>3
    <3>2. step[i][g[i - 1]] = Step(i, g[i - 1])
      BY <3>1
    <3>3. QED
      BY <2>3, <3>2
  <2>5. QED
    BY <2>3, <2>4
<1>4. PICK g \in [0 .. n -> Nat] :
        g[0] = PresenceBitmapBytes(n) /\ \A i \in 1 .. n : g[i] = Step(i, g[i - 1])
  BY <1>3
<1>5. Unfolds(g)
  BY <1>4
<1>6. FixedCursor(fields) = CHOOSE f : Unfolds(f)
  BY DEF FixedCursor
<1> HIDE DEF Unfolds
<1>7. Unfolds(FixedCursor(fields))
  BY <1>5, <1>6
<1>8. QED
  BY <1>7 DEF Unfolds
(* The cursor is a number that never goes back, and goes past every fixed  *)
(* scalar that it meets.                                                   *)
LEMMA FixedCursorAdvances ==
  ASSUME NEW fields, Len(fields) \in Nat,
         \A i \in 1 .. Len(fields) : Typed(fields[i])
  PROVE  /\ FixedCursor(fields)[0] = PresenceBitmapBytes(Len(fields))
         /\ \A i \in 0 .. Len(fields) : FixedCursor(fields)[i] \in Nat
         /\ \A i \in 1 .. Len(fields) :
              /\ FixedCursor(fields)[i - 1] <= FixedCursor(fields)[i]
              /\ ~IsRefField(fields[i]) =>
                   FixedCursor(fields)[i] =
                     FixedStart(fields[i], FixedCursor(fields)[i - 1])
                       + FieldTypeSize[fields[i].type]
<1> DEFINE n == Len(fields)
           c == FixedCursor(fields)
           T == {i \in 0 .. n : c[i] \notin Nat}
<1>1. /\ c[0] = PresenceBitmapBytes(n)
      /\ \A i \in 1 .. n :
           c[i] = IF IsRefField(fields[i]) THEN c[i - 1]
                  ELSE FixedStart(fields[i], c[i - 1]) + FieldTypeSize[fields[i].type]
  <2> DEFINE F(f) == [i \in 0 .. n |->
                        IF i = 0 THEN PresenceBitmapBytes(n)
                        ELSE IF IsRefField(fields[i]) THEN f[i - 1]
                        ELSE FixedStart(fields[i], f[i - 1])
                               + FieldTypeSize[fields[i].type]]
  <2>1. c = F(c)
    BY FixedCursorUnfolds
  <2> HIDE DEF c
  <2>2. F(c)[0] = PresenceBitmapBytes(n)
    OBVIOUS
  <2>3. \A i \in 1 .. n :
          F(c)[i] = IF IsRefField(fields[i]) THEN c[i - 1]
                    ELSE FixedStart(fields[i], c[i - 1]) + FieldTypeSize[fields[i].type]
    OBVIOUS
  <2> HIDE DEF F
  <2>4. QED
    BY <2>1, <2>2, <2>3
<1>2. PresenceBitmapBytes(n) \in Nat
  <2>1. (n + 7) \div 8 \in Nat
    OBVIOUS
  <2>2. QED
    BY <2>1, AlignUpEight DEF PresenceBitmapBytes
<1> HIDE DEF c
<1>3. ASSUME NEW i \in 1 .. n, c[i - 1] \in Nat
      PROVE  c[i] \in Nat /\ c[i - 1] <= c[i]
  <2>1. CASE IsRefField(fields[i])
    <3>1. c[i] = c[i - 1]
      BY <1>1, <2>1
    <3>2. QED
      BY <1>3, <3>1
  <2>2. CASE ~IsRefField(fields[i])
    <3>1. c[i] = FixedStart(fields[i], c[i - 1]) + FieldTypeSize[fields[i].type]
      BY <1>1, <2>2
    <3>2. /\ FieldTypeSize[fields[i].type] \in Nat
          /\ FixedStart(fields[i], c[i - 1]) \in Nat
          /\ FixedStart(fields[i], c[i - 1]) >= c[i - 1]
      BY <1>3, <2>2, FixedStartIsAligned
    <3>3. QED
      BY <1>3, <3>1, <3>2
  <2>3. QED
    BY <2>1, <2>2
<1>4. \A i \in 0 .. n : c[i] \in Nat
  <2> SUFFICES ASSUME T # {} PROVE FALSE
    OBVIOUS
  <2>1. PICK m \in T : \A k \in T : m <= k
    <3>1. T \in SUBSET Nat
      OBVIOUS
    <3> HIDE DEF T
    <3>2. QED
      BY <3>1, LeastNumber
  <2>2. m \in 1 .. n
    BY <1>1, <1>2, <2>1
  <2>3. m - 1 \in 0 .. n /\ m - 1 < m /\ m - 1 \notin T
    BY <2>1, <2>2
  <2>4. c[m - 1] \in Nat
    BY <2>3
  <2>5. QED
    BY <1>3, <2>1, <2>2, <2>4
<1>5. ASSUME NEW i \in 1 .. n PROVE c[i - 1] <= c[i]
  <2>1. i - 1 \in 0 .. n
    OBVIOUS
  <2>2. QED
    BY <1>3, <1>4, <2>1
<1>6. QED
  BY <1>1, <1>4, <1>5 DEF c

LEMMA FixedCursorIsMonotone ==
  ASSUME NEW fields, Len(fields) \in Nat,
         \A i \in 1 .. Len(fields) : Typed(fields[i]),
         NEW i \in 0 .. Len(fields), NEW j \in i .. Len(fields)
  PROVE  FixedCursor(fields)[i] <= FixedCursor(fields)[j]
<1> DEFINE n == Len(fields)
           c == FixedCursor(fields)
           T == {k \in i .. n : ~(c[i] <= c[k])}
<1>1. /\ \A k \in 0 .. n : c[k] \in Nat
      /\ \A k \in 1 .. n : c[k - 1] <= c[k]
  BY FixedCursorAdvances
<1> HIDE DEF c
<1> SUFFICES ASSUME T # {} PROVE FALSE
  BY DEF c
<1>2. PICK m \in T : \A k \in T : m <= k
  <2>1. T \in SUBSET Nat
    OBVIOUS
  <2> HIDE DEF T
  <2>2. QED
    BY <2>1, LeastNumber
<1>3. m # i
  BY <1>1, <1>2
<1>4. m - 1 \in i .. n /\ m \in 1 .. n /\ m - 1 < m
  BY <1>2, <1>3
<1>5. c[i] <= c[m - 1]
  BY <1>2, <1>4
<1>6. c[m - 1] <= c[m] /\ c[i] \in Nat /\ c[m] \in Nat /\ c[m - 1] \in Nat
  BY <1>1, <1>4
<1>7. QED
  BY <1>2, <1>5, <1>6

-----------------------------------------------------------------------------
(* The value references. *)

(* References lie behind the fixed scalars, at multiples of eight, each    *)
(* sixteen bytes behind the one before it.                                 *)
LEMMA RefCursorAdvances ==
  ASSUME NEW fields, NEW refArea \in Nat, refArea % 8 = 0, NEW i \in Nat \ {0}
  PROVE  /\ RefCursor(fields, refArea, i) \in Nat
         /\ RefCursor(fields, refArea, i) >= refArea
         /\ RefCursor(fields, refArea, i) % 8 = 0
         /\ \A j \in Nat : i < j /\ IsRefField(fields[i]) =>
              RefCursor(fields, refArea, i) + 16 <= RefCursor(fields, refArea, j)
<1> DEFINE Refs(j) == {k \in 1 .. j - 1 : IsRefField(fields[k])}
<1>1. ASSUME NEW j \in Nat PROVE IsFiniteSet(Refs(j)) /\ Cardinality(Refs(j)) \in Nat
  <2>1. IsFiniteSet(1 .. j - 1) /\ Refs(j) \in SUBSET (1 .. j - 1)
    BY FS_Interval
  <2> HIDE DEF Refs
  <2>2. QED
    BY <2>1, FS_Subset, FS_CardinalityType
<1>2. ASSUME NEW j \in Nat
      PROVE  RefCursor(fields, refArea, j) = refArea + 16 * Cardinality(Refs(j))
  BY DEF RefCursor, kValueRef16Size
<1>3. ASSUME NEW j \in Nat, i < j, IsRefField(fields[i])
      PROVE  Cardinality(Refs(i)) + 1 <= Cardinality(Refs(j))
  <2>1. Refs(i) \cup {i} \in SUBSET Refs(j) /\ i \notin Refs(i)
    BY <1>3
  <2> HIDE DEF Refs
  <2>2. Cardinality(Refs(i) \cup {i}) = Cardinality(Refs(i)) + 1
    BY <1>1, <2>1, FS_AddElement
  <2>3. Cardinality(Refs(i) \cup {i}) <= Cardinality(Refs(j))
    BY <1>1, <2>1, FS_Subset
  <2>4. QED
    BY <2>2, <2>3
<1> HIDE DEF Refs
<1>4. \A q \in Nat : (refArea + 16 * q) % 8 = 0
  OBVIOUS
<1>5. QED
  BY <1>1, <1>2, <1>3, <1>4

-----------------------------------------------------------------------------
(* Layouts. *)

(* Where the value of a field of a layout lies: the fixed scalars between  *)
(* the bitmap and the references, in the order of the cursor, then the     *)
(* references, and all of them within the row slot.                        *)
LEMMA LayOutPlaces ==
  ASSUME NEW fields, Len(fields) \in Nat, DOMAIN fields = 1 .. Len(fields),
         \A i \in 1 .. Len(fields) : Typed(fields[i]),
         NEW i \in 1 .. Len(fields)
  PROVE  LET lay == LayOut(fields)
             f == lay.fields[i]
         IN /\ lay.presence_bitmap_bytes \in Nat
            /\ lay.row_slot_size \in Nat
            /\ f.slot_offset \in Nat /\ f.value_width \in Nat \ {0}
            /\ lay.presence_bitmap_bytes <= f.slot_offset
            /\ f.slot_offset + f.value_width <= lay.row_slot_size
            /\ IsRefField(fields[i]) =>
                 /\ lay.ref_area_offset <= f.slot_offset
                 /\ f.slot_offset % 8 = 0
                 /\ \A j \in 1 .. Len(fields) : i < j /\ IsRefField(fields[j]) =>
                      f.slot_offset + f.value_width <= lay.fields[j].slot_offset
            /\ ~IsRefField(fields[i]) =>
                 /\ f.slot_offset + f.value_width <= lay.ref_area_offset
                 /\ f.slot_offset % f.value_width = 0
                 /\ \A j \in 1 .. Len(fields) : i < j /\ ~IsRefField(fields[j]) =>
                      f.slot_offset + f.value_width <= lay.fields[j].slot_offset
<1> DEFINE n == Len(fields)
           c == FixedCursor(fields)
           refArea == AlignUp(c[n], 8)
           size == AlignUp(RefCursor(fields, refArea, n + 1), 8)
           Slot(j) == IF IsRefField(fields[j]) THEN RefCursor(fields, refArea, j)
                      ELSE FixedStart(fields[j], c[j - 1])
           Width(j) == IF IsRefField(fields[j]) THEN kValueRef16Size
                       ELSE FieldTypeSize[fields[j].type]
<1>1. /\ LayOut(fields).presence_bitmap_bytes = PresenceBitmapBytes(n)
      /\ LayOut(fields).ref_area_offset = refArea
      /\ LayOut(fields).row_slot_size = size
      /\ \A j \in 1 .. n : /\ LayOut(fields).fields[j].slot_offset = Slot(j)
                           /\ LayOut(fields).fields[j].value_width = Width(j)
  BY DEF LayOut
<1>2. /\ c[0] = PresenceBitmapBytes(n)
      /\ \A j \in 0 .. n : c[j] \in Nat
      /\ \A j \in 1 .. n : ~IsRefField(fields[j]) =>
           c[j] = FixedStart(fields[j], c[j - 1]) + FieldTypeSize[fields[j].type]
  BY FixedCursorAdvances
<1>3. \A j \in 0 .. n : \A k \in j .. n : c[j] <= c[k]
  BY FixedCursorIsMonotone
<1> HIDE DEF c
<1>4. /\ refArea \in Nat /\ c[n] <= refArea /\ refArea % 8 = 0 /\ c[n] \in Nat
      /\ c[0] \in Nat /\ c[0] <= c[n]
  <2>1. 0 \in 0 .. n /\ n \in 0 .. n
    OBVIOUS
  <2>2. c[n] \in Nat /\ c[0] \in Nat /\ c[0] <= c[n]
    BY <1>2, <1>3, <2>1
  <2>3. QED
    BY <2>2, AlignUpEight
<1> HIDE DEF refArea
<1>5. /\ \A j \in 1 .. n + 1 : /\ RefCursor(fields, refArea, j) \in Nat
                               /\ RefCursor(fields, refArea, j) >= refArea
                               /\ RefCursor(fields, refArea, j) % 8 = 0
      /\ \A j \in 1 .. n : \A k \in j + 1 .. n + 1 : IsRefField(fields[j]) =>
           RefCursor(fields, refArea, j) + 16 <= RefCursor(fields, refArea, k)
  <2>1. \A j \in 1 .. n + 1 : j \in Nat \ {0}
    OBVIOUS
  <2>2. \A j \in 1 .. n : \A k \in j + 1 .. n + 1 : j \in Nat \ {0} /\ k \in Nat /\ j < k
    OBVIOUS
  <2>3. QED
    BY <1>4, <2>1, <2>2, RefCursorAdvances
<1>6. /\ size \in Nat /\ size >= RefCursor(fields, refArea, n + 1) /\ size >= refArea
  <2>1. RefCursor(fields, refArea, n + 1) \in Nat /\ RefCursor(fields, refArea, n + 1) >= refArea
    BY <1>5
  <2>2. size \in Nat /\ size >= RefCursor(fields, refArea, n + 1)
    BY <2>1, AlignUpEight
  <2>3. QED
    BY <1>4, <2>1, <2>2
<1> HIDE DEF size
<1>7. CASE IsRefField(fields[i])
  <2>1. Slot(i) = RefCursor(fields, refArea, i) /\ Width(i) = 16
    BY <1>7 DEF kValueRef16Size
  <2>2. /\ Slot(i) \in Nat /\ Slot(i) >= refArea /\ Slot(i) % 8 = 0
        /\ Slot(i) + 16 <= RefCursor(fields, refArea, n + 1)
    <3>1. i \in 1 .. n + 1 /\ n + 1 \in i + 1 .. n + 1
      OBVIOUS
    <3> HIDE DEF Slot, Width
    <3>2. QED
      BY <1>5, <1>7, <2>1, <3>1
  <2>3. c[0] <= Slot(i) /\ Slot(i) + 16 <= size
    <3>1. RefCursor(fields, refArea, n + 1) \in Nat
      BY <1>5
    <3> HIDE DEF Slot, Width, n
    <3>2. QED
      BY <1>4, <1>6, <2>2, <3>1
  <2>4. ASSUME NEW j \in 1 .. n, i < j, IsRefField(fields[j])
        PROVE  Slot(i) + 16 <= Slot(j)
    BY <1>5, <1>7, <2>1, <2>4
  <2> HIDE DEF Slot, Width
  <2>5. /\ \A j \in 1 .. n : LayOut(fields).fields[j].slot_offset = Slot(j)
        /\ LayOut(fields).fields[i].slot_offset = Slot(i)
        /\ LayOut(fields).fields[i].value_width = 16
    BY <1>1, <2>1
  <2>6. \A j \in 1 .. n : i < j /\ IsRefField(fields[j]) =>
          LayOut(fields).fields[i].slot_offset + LayOut(fields).fields[i].value_width
            <= LayOut(fields).fields[j].slot_offset
    BY <2>4, <2>5
  <2>7. /\ LayOut(fields).presence_bitmap_bytes = c[0]
        /\ LayOut(fields).ref_area_offset = refArea
        /\ LayOut(fields).row_slot_size = size
    BY <1>1, <1>2
  <2>8. 16 \in Nat \ {0}
    OBVIOUS
  <2> HIDE DEF n
  <2>9. QED
    BY <1>4, <1>6, <1>7, <2>2, <2>3, <2>5, <2>6, <2>7, <2>8 DEF n
<1>8. CASE ~IsRefField(fields[i])
  <2>1. /\ Slot(i) = FixedStart(fields[i], c[i - 1])
        /\ Width(i) = FieldTypeSize[fields[i].type]
    BY <1>8
  <2>2. c[i - 1] \in Nat /\ c[i] \in Nat /\ c[i] <= c[n] /\ c[0] <= c[i - 1]
    BY <1>2, <1>3
  <2>3. /\ Slot(i) \in Nat /\ Width(i) \in Nat \ {0} /\ Slot(i) >= c[i - 1]
        /\ Slot(i) % Width(i) = 0
    BY <1>8, <2>1, <2>2, FixedStartIsAligned
  <2>4. c[i] = Slot(i) + Width(i)
    BY <1>2, <1>8, <2>1
  <2>5. /\ c[0] <= Slot(i) /\ Slot(i) + Width(i) <= refArea
        /\ Slot(i) + Width(i) <= size
    <3> HIDE DEF Slot, Width, n
    <3>1. Slot(i) \in Nat /\ Width(i) \in Nat /\ Slot(i) >= c[i - 1]
      BY <2>3
    <3>2. c[0] <= Slot(i)
      BY <1>4, <2>2, <3>1
    <3>3. Slot(i) + Width(i) <= refArea
      BY <1>4, <2>2, <2>4, <3>1
    <3>4. refArea \in Nat /\ size \in Nat /\ refArea <= size
      BY <1>4, <1>6
    <3>5. QED
      BY <3>1, <3>2, <3>3, <3>4
  <2>6. ASSUME NEW j \in 1 .. n, i < j, ~IsRefField(fields[j])
        PROVE  Slot(i) + Width(i) <= Slot(j)
    <3>1. c[j - 1] \in Nat /\ c[i] <= c[j - 1]
      BY <1>2, <1>3, <2>6
    <3>2. Slot(j) = FixedStart(fields[j], c[j - 1])
      BY <2>6
    <3>3. Slot(j) \in Nat /\ Slot(j) >= c[j - 1]
      BY <2>6, <3>1, <3>2, FixedStartIsAligned
    <3> HIDE DEF Slot, Width
    <3>4. QED
      BY <2>2, <2>4, <3>1, <3>3
  <2> HIDE DEF Slot, Width
  <2>7. QED
    BY <1>1, <1>2, <1>4, <1>6, <1>8, <2>3, <2>5, <2>6
<1>9. QED
  BY <1>7, <1>8

LEMMA IntervalsAreApart ==
  ASSUME NEW a \in Nat, NEW b \in Nat, NEW c \in Nat, NEW d \in Nat,
         a + b <= c \/ c + d <= a
  PROVE  (a .. a + b - 1) \cap (c .. c + d - 1) = {}
<1> SUFFICES ASSUME NEW x \in (a .. a + b - 1) \cap (c .. c + d - 1) PROVE FALSE
  OBVIOUS
<1>1. x \in Int /\ a <= x /\ x <= a + b - 1 /\ c <= x /\ x <= c + d - 1
  OBVIOUS
<1>2. QED
  BY <1>1

LEMMA LayOutIsSound ==
  ASSUME NEW fields, Len(fields) \in Nat, DOMAIN fields = 1 .. Len(fields),
         \A i \in 1 .. Len(fields) : Typed(fields[i])
  PROVE  IsSound(LayOut(fields))
<1> DEFINE n == Len(fields)
           lay == LayOut(fields)
<1>1. /\ DOMAIN lay.fields = 1 .. n
      /\ lay.presence_bitmap_bytes = PresenceBitmapBytes(n)
      /\ \A i \in 1 .. n : /\ lay.fields[i].spec = fields[i]
                           /\ lay.fields[i].presence_bit_index = i - 1
  BY DEF LayOut
<1>2. lay.row_slot_size % 8 = 0
  <2> DEFINE c == FixedCursor(fields)
             refArea == AlignUp(c[n], 8)
  <2>1. c[n] \in Nat
    BY FixedCursorAdvances
  <2> HIDE DEF c
  <2>2. refArea \in Nat /\ refArea % 8 = 0
    BY <2>1, AlignUpEight
  <2> HIDE DEF refArea
  <2>3. n + 1 \in Nat \ {0}
    OBVIOUS
  <2>4. RefCursor(fields, refArea, n + 1) \in Nat
    BY <2>2, <2>3, RefCursorAdvances
  <2>5. lay.row_slot_size = AlignUp(RefCursor(fields, refArea, n + 1), 8)
    BY DEF LayOut, refArea, c
  <2> HIDE DEF lay
  <2>6. QED
    BY <2>4, <2>5, AlignUpEight
<1>3. n <= 8 * PresenceBitmapBytes(n) /\ PresenceBitmapBytes(n) \in Nat
  <2>1. (n + 7) \div 8 \in Nat /\ n <= 8 * ((n + 7) \div 8)
    OBVIOUS
  <2>2. /\ AlignUp((n + 7) \div 8, 8) \in Nat
        /\ AlignUp((n + 7) \div 8, 8) >= (n + 7) \div 8
    BY <2>1, AlignUpEight
  <2>3. QED
    BY <2>1, <2>2 DEF PresenceBitmapBytes
<1>4. ASSUME NEW i \in 1 .. n
      PROVE  LET f == lay.fields[i] IN
             /\ f.presence_bit_index < 8 * lay.presence_bitmap_bytes
             /\ BytesOf(f) \subseteq lay.presence_bitmap_bytes .. lay.row_slot_size - 1
             /\ f.slot_offset % (IF IsRefField(f.spec) THEN 8 ELSE f.value_width) = 0
  <2> DEFINE f == lay.fields[i]
  <2>1. /\ lay.presence_bitmap_bytes \in Nat /\ lay.row_slot_size \in Nat
        /\ f.slot_offset \in Nat /\ f.value_width \in Nat \ {0}
        /\ lay.presence_bitmap_bytes <= f.slot_offset
        /\ f.slot_offset + f.value_width <= lay.row_slot_size
    BY LayOutPlaces
  <2>2. /\ IsRefField(fields[i]) => f.slot_offset % 8 = 0
        /\ ~IsRefField(fields[i]) => f.slot_offset % f.value_width = 0
    BY LayOutPlaces
  <2>3. f.spec = fields[i] /\ f.presence_bit_index = i - 1
    BY <1>1
  <2> HIDE DEF f, lay
  <2>4. f.presence_bit_index < 8 * lay.presence_bitmap_bytes
    BY <1>1, <1>3, <2>3
  <2>5. BytesOf(f) \subseteq lay.presence_bitmap_bytes .. lay.row_slot_size - 1
    BY <2>1 DEF BytesOf
  <2>6. f.slot_offset % (IF IsRefField(f.spec) THEN 8 ELSE f.value_width) = 0
    BY <2>2, <2>3
  <2>7. QED
    BY <2>4, <2>5, <2>6 DEF f
<1>5. ASSUME NEW i \in 1 .. n, NEW j \in 1 .. n, i < j
      PROVE  BytesOf(lay.fields[i]) \cap BytesOf(lay.fields[j]) = {}
  <2> DEFINE f == lay.fields[i]
             g == lay.fields[j]
  <2>1. /\ f.slot_offset \in Nat /\ f.value_width \in Nat
        /\ g.slot_offset \in Nat /\ g.value_width \in Nat
    BY LayOutPlaces
  <2>2. SUFFICES \/ f.slot_offset + f.value_width <= g.slot_offset
                 \/ g.slot_offset + g.value_width <= f.slot_offset
    <3> HIDE DEF f, g
    <3>1. BytesOf(f) \cap BytesOf(g) = {}
      BY <2>1, <2>2, IntervalsAreApart DEF BytesOf
    <3>2. QED
      BY <3>1 DEF f, g
  <2>3. lay.ref_area_offset \in Nat
    <3> DEFINE c == FixedCursor(fields)
    <3>1. c[n] \in Nat
      BY FixedCursorAdvances
    <3>2. lay.ref_area_offset = AlignUp(c[n], 8)
      BY DEF LayOut
    <3> HIDE DEF c, lay
    <3>3. QED
      BY <3>1, <3>2, AlignUpEight
  <2>4. CASE IsRefField(fields[i]) /\ IsRefField(fields[j])
    BY <1>5, <2>4, LayOutPlaces
  <2>5. CASE ~IsRefField(fields[i]) /\ ~IsRefField(fields[j])
    BY <1>5, <2>5, LayOutPlaces
  <2>6. CASE ~IsRefField(fields[i]) /\ IsRefField(fields[j])
    <3>1. /\ f.slot_offset + f.value_width <= lay.ref_area_offset
          /\ lay.ref_area_offset <= g.slot_offset
      BY <2>6, LayOutPlaces
    <3> HIDE DEF f, g, lay
    <3>2. QED
      BY <2>1, <2>3, <3>1
  <2>7. CASE IsRefField(fields[i]) /\ ~IsRefField(fields[j])
    <3>1. /\ g.slot_offset + g.value_width <= lay.ref_area_offset
          /\ lay.ref_area_offset <= f.slot_offset
      BY <2>7, LayOutPlaces
    <3> HIDE DEF f, g, lay
    <3>2. QED
      BY <2>1, <2>3, <3>1
  <2>8. QED
    BY <2>4, <2>5, <2>6, <2>7
<1> HIDE DEF lay
<1>6. ASSUME NEW i \in 1 .. n, NEW j \in 1 .. n, lay.fields[i] # lay.fields[j]
      PROVE  /\ lay.fields[i].presence_bit_index # lay.fields[j].presence_bit_index
             /\ BytesOf(lay.fields[i]) \cap BytesOf(lay.fields[j]) = {}
  <2>1. i # j
    BY <1>6
  <2>2. lay.fields[i].presence_bit_index # lay.fields[j].presence_bit_index
    BY <1>1, <2>1
  <2>3. CASE i < j
    BY <1>5, <2>2, <2>3
  <2>4. CASE j < i
    BY <1>5, <2>2, <2>4
  <2>5. QED
    BY <2>1, <2>3, <2>4
<1>7. IsSound(lay)
  <2> DEFINE all == {lay.fields[i] : i \in DOMAIN lay.fields}
  <2>1. ASSUME NEW f \in all PROVE \E i \in 1 .. n : f = lay.fields[i]
    BY <1>1
  <2> HIDE DEF all
  <2>2. ASSUME NEW f \in all
        PROVE  /\ f.presence_bit_index < 8 * lay.presence_bitmap_bytes
               /\ BytesOf(f) \subseteq lay.presence_bitmap_bytes .. lay.row_slot_size - 1
               /\ f.slot_offset % (IF IsRefField(f.spec) THEN 8 ELSE f.value_width) = 0
    <3>1. PICK i \in 1 .. n : f = lay.fields[i]
      BY <2>1
    <3> HIDE DEF n
    <3>2. QED
      BY <1>4, <3>1
  <2>3. ASSUME NEW f \in all, NEW g \in all, f # g
        PROVE  /\ f.presence_bit_index # g.presence_bit_index
               /\ BytesOf(f) \cap BytesOf(g) = {}
    <3>1. PICK i \in 1 .. n : f = lay.fields[i]
      BY <2>1
    <3>2. PICK j \in 1 .. n : g = lay.fields[j]
      BY <2>1
    <3> HIDE DEF n
    <3>3. QED
      BY <1>6, <2>3, <3>1, <3>2
  <2>4. QED
    BY <1>2, <2>2, <2>3, Zenon DEF IsSound, all
<1>8. QED
  BY <1>7 DEF lay

-----------------------------------------------------------------------------
(* Schemas. *)

(* A set of field specifications that Compile can be given. *)
IsSchema(specs) ==
  /\ IsFiniteSet(specs)
  /\ \A f \in specs : f.field_id \in Nat /\ Typed(f)
  /\ \A f, g \in specs : f.field_id = g.field_id => f = g

(* Sorted enumerates the specifications: the ids below its own number the  *)
(* fields of a schema from zero, one by one.                               *)
LEMMA SortedIsOfSpecs ==
  ASSUME NEW specs, IsSchema(specs)
  PROVE  /\ Len(Sorted(specs)) = Cardinality(specs)
         /\ Cardinality(specs) \in Nat
         /\ DOMAIN Sorted(specs) = 1 .. Cardinality(specs)
         /\ \A i \in 1 .. Cardinality(specs) : Sorted(specs)[i] \in specs
<1> DEFINE n == Cardinality(specs)
           Below(f) == {g \in specs : g.field_id < f.field_id}
           Rank(f) == Cardinality(Below(f))
           rank == [f \in specs |-> Rank(f)]
<1>1. IsFiniteSet(specs) /\ n \in Nat
  BY FS_CardinalityType DEF IsSchema
<1>2. ASSUME NEW f \in specs PROVE IsFiniteSet(Below(f)) /\ Rank(f) \in Nat
  <2>1. Below(f) \in SUBSET specs
    OBVIOUS
  <2> HIDE DEF Below
  <2>2. QED
    BY <1>1, <2>1, FS_Subset, FS_CardinalityType
<1>3. ASSUME NEW f \in specs PROVE Rank(f) < n
  <2>1. Below(f) \in SUBSET specs /\ Below(f) # specs
    BY DEF IsSchema
  <2> HIDE DEF Below
  <2>2. Cardinality(Below(f)) <= n /\ (n = Cardinality(Below(f)) => specs = Below(f))
    BY <1>1, <2>1, FS_Subset
  <2>3. QED
    BY <1>1, <1>2, <2>1, <2>2
<1>4. ASSUME NEW f \in specs, NEW g \in specs, f.field_id < g.field_id
      PROVE  Rank(f) < Rank(g)
  <2>1. Below(f) \in SUBSET Below(g) /\ f \in Below(g) /\ f \notin Below(f)
    BY <1>4 DEF IsSchema
  <2> HIDE DEF Below
  <2>2. /\ Cardinality(Below(f)) <= Cardinality(Below(g))
        /\ Cardinality(Below(g)) = Cardinality(Below(f)) => Below(g) = Below(f)
    BY <1>2, <2>1, FS_Subset
  <2>3. QED
    BY <1>2, <2>1, <2>2
<1>5. ASSUME NEW f \in specs, NEW g \in specs, Rank(f) = Rank(g) PROVE f = g
  <2> HIDE DEF Rank
  <2>1. f.field_id \in Nat /\ g.field_id \in Nat /\ Rank(f) \in Nat /\ Rank(g) \in Nat
    BY <1>2 DEF IsSchema
  <2>2. ~(f.field_id < g.field_id)
    BY <1>4, <1>5, <2>1
  <2>3. ~(g.field_id < f.field_id)
    BY <1>4, <1>5, <2>1
  <2>4. f.field_id = g.field_id
    BY <2>1, <2>2, <2>3
  <2>5. QED
    BY <2>4 DEF IsSchema
<1>6. rank \in Injection(specs, 0 .. n - 1)
  <2> HIDE DEF Rank
  <2>1. ASSUME NEW f \in specs PROVE Rank(f) \in 0 .. n - 1
    <3>1. Rank(f) \in Nat /\ n \in Nat /\ Rank(f) < n
      BY <1>1, <1>2, <1>3, Zenon
    <3> HIDE DEF n
    <3>2. QED
      BY <3>1
  <2>2. rank \in [specs -> 0 .. n - 1]
    BY <2>1
  <2>3. QED
    BY <1>5, <2>2 DEF Injection, IsInjective
<1>7. rank \in Surjection(specs, 0 .. n - 1)
  <2>1. IsFiniteSet(0 .. n - 1) /\ Cardinality(0 .. n - 1) = n
    BY <1>1, FS_Interval
  <2> HIDE DEF rank
  <2>2. QED
    BY <1>6, <2>1, FS_Injection
<1>8. ASSUME NEW i \in 1 .. n
      PROVE  \E f \in specs : Cardinality({g \in specs : g.field_id < f.field_id}) = i - 1
  <2>1. i - 1 \in 0 .. n - 1
    BY <1>1
  <2> HIDE DEF Rank
  <2>2. PICK f \in specs : rank[f] = i - 1
    BY <1>7, <2>1 DEF Surjection
  <2>3. Rank(f) = i - 1
    BY <2>2
  <2>4. QED
    BY <2>3 DEF Rank
<1>9. \A i \in 1 .. n : Sorted(specs)[i] \in specs
  BY <1>8 DEF Sorted
<1>10. DOMAIN Sorted(specs) = 1 .. n
  BY DEF Sorted
<1>11. Len(Sorted(specs)) = n
  BY <1>1, <1>10
<1>12. QED
  BY <1>1, <1>9, <1>10, <1>11

(* Every layout that a schema compiles to is sound. *)
LEMMA CompileIsSound ==
  ASSUME NEW specs, IsSchema(specs)
  PROVE  /\ IsSound(Compile(specs))
         /\ \A i \in DOMAIN Compile(specs).fields : Compile(specs).fields[i].spec \in specs
<1> DEFINE fields == Sorted(specs)
<1>1. /\ Len(fields) \in Nat
      /\ DOMAIN fields = 1 .. Len(fields)
      /\ \A i \in 1 .. Len(fields) : fields[i] \in specs
  BY SortedIsOfSpecs
<1>2. \A i \in 1 .. Len(fields) : Typed(fields[i])
  BY <1>1 DEF IsSchema
<1> HIDE DEF fields
<1>3. IsSound(LayOut(fields))
  BY <1>1, <1>2, LayOutIsSound
<1>4. \A i \in DOMAIN LayOut(fields).fields : LayOut(fields).fields[i].spec \in specs
  BY <1>1 DEF LayOut
<1>5. QED
  BY <1>3, <1>4 DEF Compile, fields

-----------------------------------------------------------------------------
(* The invariant. *)

(* Deleted fields count as long as the schema lives, since AddField looks  *)
(* at them: active and deleted fields together have distinct ids.          *)
SchemaOK ==
  /\ deployment \in DOMAIN Deployments
  /\ IsFiniteSet(active) /\ IsFiniteSet(deleted)
  /\ IsSchema(active \cup deleted)

(* A layout was compiled from fields the schema has, or had. *)
LayoutsOK ==
  /\ DOMAIN layout = Targets
  /\ \A t \in Targets : layout[t] # None =>
       \E specs \in SUBSET (active \cup deleted) : layout[t] = Compile(specs)

SchemaInv == SchemaOK /\ LayoutsOK

LEMMA PartOfSchema ==
  ASSUME NEW all, IsSchema(all), NEW specs \in SUBSET all PROVE IsSchema(specs)
BY FS_Subset DEF IsSchema

LEMMA InitSchemaInv == Init => SchemaInv
<1> SUFFICES ASSUME Init PROVE SchemaInv
  OBVIOUS
<1>1. active \cup deleted = active /\ active = Deployments[deployment].fields
  BY DEF Init, Here
<1>2. IsSchema(active)
  BY <1>1, RowStorageAssumption DEF Init, IsSchema, Typed
<1>3. SchemaOK
  BY <1>1, <1>2, FS_EmptySet DEF Init, SchemaOK, IsSchema
<1>4. LayoutsOK
  BY DEF Init, LayoutsOK
<1>5. QED
  BY <1>3, <1>4 DEF SchemaInv

(* Layouts stay in order when the fields the schema knows only grow. *)
LEMMA LayoutsStay ==
  ASSUME LayoutsOK, UNCHANGED layout,
         active \cup deleted \subseteq active' \cup deleted'
  PROVE  LayoutsOK'
<1>1. ASSUME NEW t \in Targets, layout'[t] # None
      PROVE  \E specs \in SUBSET (active' \cup deleted') : layout'[t] = Compile(specs)
  <2>1. PICK specs \in SUBSET (active \cup deleted) : layout[t] = Compile(specs)
    BY <1>1 DEF LayoutsOK
  <2>2. QED
    BY <2>1
<1>2. QED
  BY <1>1 DEF LayoutsOK

LEMMA NextSchemaInv == SchemaInv /\ [Next]_vars => SchemaInv'
<1> SUFFICES ASSUME SchemaInv, [Next]_vars PROVE SchemaInv'
  OBVIOUS
<1>0. SchemaOK /\ LayoutsOK
  BY DEF SchemaInv
<1>1. ASSUME NEW spec \in Here.additions, AddField(spec) PROVE SchemaInv'
  <2>1. /\ spec.field_id \in Nat /\ Typed(spec)
        /\ deployment' = deployment /\ deleted' = deleted /\ layout' = layout
        /\ active' = active \cup {spec}
        /\ \A f \in active \cup deleted : f.field_id # spec.field_id
    BY <1>0, <1>1, RowStorageAssumption DEF AddField, Here, SchemaOK, Ids, Typed
  <2>2. IsFiniteSet(active') /\ IsFiniteSet(deleted') /\ IsFiniteSet(active' \cup deleted')
    BY <1>0, <2>1, FS_AddElement, FS_Union DEF SchemaOK
  <2>3. active' \cup deleted' = (active \cup deleted) \cup {spec}
    BY <2>1
  <2>4. IsSchema(active' \cup deleted')
    BY <1>0, <2>1, <2>2, <2>3 DEF IsSchema, SchemaOK
  <2>5. SchemaOK'
    BY <1>0, <2>1, <2>2, <2>4 DEF SchemaOK
  <2>6. LayoutsOK'
    BY <1>0, <2>1, <2>3, LayoutsStay
  <2>7. QED
    BY <2>5, <2>6 DEF SchemaInv
<1>2. ASSUME NEW spec \in active, DeleteField(spec) PROVE SchemaInv'
  <2>1. /\ deployment' = deployment /\ layout' = layout
        /\ active' = active \ {spec} /\ deleted' = deleted \cup {spec}
    BY <1>2 DEF DeleteField
  <2>2. active' \cup deleted' = active \cup deleted
    BY <2>1
  <2>3. IsFiniteSet(active') /\ IsFiniteSet(deleted')
    BY <1>0, <2>1, FS_RemoveElement, FS_AddElement DEF SchemaOK
  <2>4. SchemaOK'
    BY <1>0, <2>1, <2>2, <2>3 DEF SchemaOK
  <2>5. LayoutsOK'
    BY <1>0, <2>1, <2>2, LayoutsStay
  <2>6. QED
    BY <2>4, <2>5 DEF SchemaInv
<1>3. ASSUME NEW t, NewTarget(t) PROVE SchemaInv'
  <2>1. /\ UNCHANGED <<deployment, active, deleted>>
        /\ layout' = [layout EXCEPT ![t] = Compile(active)]
    BY <1>3 DEF NewTarget, schemaVars
  <2>2. SchemaOK'
    BY <1>0, <2>1 DEF SchemaOK
  <2>3. ASSUME NEW u \in Targets, layout'[u] # None
        PROVE  \E specs \in SUBSET (active \cup deleted) : layout'[u] = Compile(specs)
    <3>1. CASE u = t
      <4>1. layout'[u] = Compile(active) /\ active \in SUBSET (active \cup deleted)
        BY <1>0, <2>1, <3>1 DEF LayoutsOK
      <4>2. QED
        BY <4>1
    <3>2. CASE u # t
      <4>1. layout'[u] = layout[u]
        BY <1>0, <2>1, <3>2 DEF LayoutsOK
      <4>2. QED
        BY <1>0, <2>3, <4>1 DEF LayoutsOK
    <3>3. QED
      BY <3>1, <3>2
  <2>4. LayoutsOK'
    BY <1>0, <2>1, <2>3 DEF LayoutsOK
  <2>5. QED
    BY <2>2, <2>4 DEF SchemaInv
<1>4. ASSUME UNCHANGED <<deployment, active, deleted, layout>> PROVE SchemaInv'
  BY <1>0, <1>4 DEF SchemaInv, SchemaOK, LayoutsOK
<1>5. ASSUME NEW t, FillUp(t) PROVE SchemaInv'
  BY <1>4, <1>5 DEF FillUp, schemaVars
<1>6. ASSUME NEW payload, NEW partition, Apply(payload, partition) PROVE SchemaInv'
  BY <1>4, <1>6 DEF Apply, schemaVars
<1>7. ASSUME NEW t, PublishTo(t) \/ PublishRefused(t) PROVE SchemaInv'
  BY <1>4, <1>7 DEF PublishTo, PublishRefused, schemaVars
<1>8. CASE UNCHANGED vars
  BY <1>4, <1>8 DEF vars, schemaVars
<1>9. QED
  BY <1>1, <1>2, <1>3, <1>5, <1>6, <1>7, <1>8 DEF Next

-----------------------------------------------------------------------------
(* Theorems. *)

(* Through every AddField, DeleteField and new target, the fields a schema *)
(* ever had keep distinct ids, and every layout in use was compiled from   *)
(* some of them (RuntimeSchema, CompiledRowLayout::Compile).               *)
THEOREM SchemaInvariant == Spec => []SchemaInv
BY InitSchemaInv, NextSchemaInv, PTL DEF Spec

(* The layouts of schemas of any size never let two fields share a byte or *)
(* a presence bit, and keep every value aligned and within the row slot.   *)
THEOREM LayoutsSound == Spec => []LayoutIsSound
<1>1. SchemaInv => LayoutIsSound
  <2> SUFFICES ASSUME SchemaInv, NEW t \in Targets, layout[t] # None
               PROVE  IsSound(layout[t])
    BY DEF LayoutIsSound, Layouts
  <2>1. PICK specs \in SUBSET (active \cup deleted) : layout[t] = Compile(specs)
    BY DEF SchemaInv, LayoutsOK
  <2>2. IsSchema(specs)
    BY <2>1, PartOfSchema DEF SchemaInv, SchemaOK
  <2>3. QED
    BY <2>1, <2>2, CompileIsSound
<1>2. QED
  BY <1>1, SchemaInvariant, PTL

(* An id keeps its type, shape, encoding and default for ever, in layouts  *)
(* of any age, however fields are added and deleted.                       *)
THEOREM IdsKeepTheirMeaning == Spec => []FieldIdKeepsItsMeaning
<1>1. SchemaInv => FieldIdKeepsItsMeaning
  <2> SUFFICES ASSUME SchemaInv, NEW t \in Targets, layout[t] # None,
                      NEW i \in DOMAIN layout[t].fields, NEW spec \in active,
                      layout[t].fields[i].spec.field_id = spec.field_id
               PROVE  layout[t].fields[i].spec = spec
    BY DEF FieldIdKeepsItsMeaning, Layouts
  <2>1. PICK specs \in SUBSET (active \cup deleted) : layout[t] = Compile(specs)
    BY DEF SchemaInv, LayoutsOK
  <2>2. IsSchema(active \cup deleted) /\ IsSchema(specs)
    BY <2>1, PartOfSchema DEF SchemaInv, SchemaOK
  <2>3. layout[t].fields[i].spec \in active \cup deleted
    BY <2>1, <2>2, CompileIsSound
  <2>4. QED
    BY <2>2, <2>3 DEF IsSchema
<1>2. QED
  BY <1>1, SchemaInvariant, PTL

=============================================================================
