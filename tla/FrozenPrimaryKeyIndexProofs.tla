--------------------- MODULE FrozenPrimaryKeyIndexProofs ---------------------
(***************************************************************************)
(* Proofs about the frozen primary key index, for every set of keys, every *)
(* hash function, every number of rows and any number of changed bytes.    *)
(***************************************************************************)
EXTENDS FrozenPrimaryKeyIndex, FiniteSetTheorems, NumberFacts, TLAPS

-----------------------------------------------------------------------------
(* The inductive invariant. *)

EntryType == [primary_key : Keys, row_offset : Nat]

(* An index of c slots, whatever its bytes. *)
IndexType(c) ==
  [row_count : Nat, capacity : {c}, control : [0 .. c + GroupWidth - 1 -> Nat],
   key : [0 .. c - 1 -> Keys], row_offset : [0 .. c - 1 -> Nat]]

BuildTypes ==
  /\ entries \in Seq(EntryType) /\ Len(entries) <= MaxRows
  /\ pc \in {"adding", "inserting", "stored"}
  /\ inserted \in 0 .. Len(entries) /\ changes \in Nat
  /\ pc = "adding" => inserted = 0
  /\ pc = "stored" => inserted = Len(entries)
  /\ pc # "stored" => changes = 0
  /\ pc # "adding" => \E c \in Capacities : index \in IndexType(c)

(* A key has one row. *)
KeysAreDistinct ==
  \A i, j \in DOMAIN entries : entries[i].primary_key = entries[j].primary_key => i = j

(* Slot s holds entry i. *)
Holds(s, i) ==
  /\ index.key[s] = entries[i].primary_key
  /\ index.row_offset[s] = entries[i].row_offset

(* The occupied slots are those of the entries inserted so far, each where *)
(* a lookup finds it.                                                      *)
SlotsHoldEntries ==
  /\ index.row_count = Len(entries)
  /\ Len(entries) <= (index.capacity \div 8) * 7
  /\ Cardinality(Occupied(index)) = inserted
  /\ \A s \in Occupied(index) :
       /\ index.control[s] = H2(Hash[index.key[s]])
       /\ ReachableSlot(index, s)
       /\ \E i \in 1 .. inserted : Holds(s, i)
  /\ \A i \in 1 .. inserted : \E s \in Occupied(index) : Holds(s, i)
  /\ \A s, t \in Occupied(index) : index.key[s] = index.key[t] => s = t

IsMirrored == \A i \in 0 .. GroupWidth - 1 : index.control[index.capacity + i] = index.control[i]

BuildInv ==
  /\ BuildTypes /\ KeysAreDistinct
  /\ pc # "adding" /\ changes = 0 => SlotsHoldEntries
  /\ pc = "stored" /\ changes = 0 => IsMirrored
-----------------------------------------------------------------------------
(* Capacities, hashes and probes. *)

LEMMA MinFacts ==
  ASSUME NEW T \in SUBSET Nat, T # {}
  PROVE  Min(T) \in T /\ \A n \in T : Min(T) <= n
<1>1. \E n \in T : \A m \in T : n <= m
  BY LeastNumber
<1>2. QED
  BY <1>1 DEF Min

(* Capacities are multiples of eight, and of at least one group. *)
LEMMA CapacityFacts ==
  ASSUME NEW c \in Capacities
  PROVE  /\ c \in Nat \ {0} /\ c >= GroupWidth
         /\ \E q \in Nat \ {0} : c = 8 * q
<1>1. PICK j \in 0 .. MaxDoublings : c = GroupWidth * 2^j
  BY DEF Capacities, CapacityOf
<1>2. PICK p \in Nat \ {0} : p = 2^j
  BY IndexAssumption
<1>3. PICK m \in Nat \ {0} : GroupWidth = 8 * m
  <2>1. /\ GroupWidth \in Nat \ {0} /\ GroupWidth % 8 = 0
        /\ GroupWidth = 8 * (GroupWidth \div 8) + (GroupWidth % 8)
        /\ GroupWidth \div 8 \in Nat
    BY IndexAssumption
  <2>2. QED
    BY <2>1
<1>4. c = (8 * m) * p
  BY <1>1, <1>2, <1>3
<1>5. m * p \in Nat \ {0} /\ c = 8 * (m * p)
  BY <1>4
<1>6. PICK q \in Nat \ {0} : c = 8 * q
  BY <1>5
<1>7. c >= GroupWidth
  <2>1. GroupWidth \in Nat /\ c = GroupWidth * p
    BY <1>1, <1>2, IndexAssumption
  <2>2. PICK g \in Nat : g = GroupWidth
    BY <2>1
  <2>3. PICK e \in Nat : p = 1 + e
    <3>1. p - 1 \in Nat /\ p = 1 + (p - 1)
      OBVIOUS
    <3>2. QED
      BY <3>1
  <2>4. g * p = g + g * e /\ g * e \in Nat
    BY <2>3
  <2>5. QED
    BY <2>1, <2>2, <2>4
<1>8. QED
  BY <1>6, <1>7

LEMMA HashFacts ==
  ASSUME NEW k \in Keys
  PROVE  Hash[k] \in Nat /\ H2(Hash[k]) \in 0 .. 127
<1>1. Hash[k] \in Nat /\ H2Divisor \in Nat \ {0}
  BY IndexAssumption
<1>2. Hash[k] \div H2Divisor \in Nat
  BY <1>1
<1>3. (Hash[k] \div H2Divisor) % 128 \in 0 .. 127
  BY <1>2
<1>4. QED
  BY <1>1, <1>3 DEF H2

LEMMA SlotFacts ==
  ASSUME NEW c \in Capacities, NEW x \in IndexType(c)
  PROVE  /\ x.capacity = c /\ Slots(x) = 0 .. c - 1
         /\ IsFiniteSet(Slots(x)) /\ Cardinality(Slots(x)) = c
         /\ Occupied(x) \subseteq Slots(x) /\ IsFiniteSet(Occupied(x))
         /\ Cardinality(Occupied(x)) \in Nat
         /\ \A h \in Nat, i \in Slots(x) : Probe(x, h, i) \in Slots(x)
         /\ \A h \in Nat, s \in Slots(x) : \E i \in Slots(x) : Probe(x, h, i) = s
<1>1. c \in Nat \ {0}
  BY CapacityFacts
<1>2. x.capacity = c /\ Slots(x) = 0 .. c - 1
  BY DEF IndexType, Slots
<1>3. IsFiniteSet(Slots(x)) /\ Cardinality(Slots(x)) = c
  BY <1>1, <1>2, FS_Interval
<1>4. Occupied(x) \subseteq Slots(x)
  BY DEF Occupied
<1>5. IsFiniteSet(Occupied(x))
  BY <1>3, <1>4, FS_Subset
<1>6. \A h \in Nat, i \in Slots(x) : Probe(x, h, i) \in Slots(x)
  BY <1>1, <1>2 DEF Probe
<1>7. \A h \in Nat, s \in Slots(x) : \E i \in Slots(x) : Probe(x, h, i) = s
  <2>1. TAKE h \in Nat, s \in Slots(x)
  <2>2. s \in 0 .. c - 1
    BY <1>2
  <2>3. \E i \in 0 .. c - 1 : (h + i) % c = s
    BY <1>1, <2>2, RoundReaches
  <2>4. QED
    BY <1>2, <2>3 DEF Probe
<1>8. QED
  BY <1>2, <1>3, <1>4, <1>5, <1>6, <1>7, FS_CardinalityType

(* An index with fewer entries than slots has an empty slot. *)
LEMMA SomeSlotIsEmpty ==
  ASSUME NEW c \in Capacities, NEW x \in IndexType(c), Cardinality(Occupied(x)) < c
  PROVE  \E s \in Slots(x) : x.control[s] = kEmptyControl
<1> SUFFICES ASSUME \A s \in Slots(x) : x.control[s] # kEmptyControl PROVE FALSE
  OBVIOUS
<1>1. Occupied(x) = Slots(x)
  BY DEF Occupied
<1>2. QED
  BY <1>1, SlotFacts, CapacityFacts

(* The load factor leaves room. *)
LEMMA RoomIsLeft ==
  ASSUME NEW c \in Capacities, NEW n \in Nat, n <= (c \div 8) * 7
  PROVE  n < c
<1>1. PICK q \in Nat \ {0} : c = 8 * q
  BY CapacityFacts
<1>2. c \div 8 = q
  BY <1>1
<1>3. QED
  BY <1>1, <1>2

-----------------------------------------------------------------------------
(* Lookups of an index that Validate accepts. *)

(* FrozenPrimaryKeyIndexView::Lookup answers, and with what an enumeration *)
(* of the index finds for the key.                                         *)
LEMMA LookupAnswers ==
  ASSUME NEW c \in Capacities, NEW x \in IndexType(c), Validate(x), NEW k \in Keys
  PROVE  Lookup(x, k) =
           [status |-> "kOk",
            found |-> {e.row_offset : e \in {f \in Entries(x) : f.primary_key = k}}]
<1> DEFINE h == Hash[k]
           stops == {i \in Slots(x) : StopsAt(x, k, Probe(x, h, i))}
           all == {e.row_offset : e \in {f \in Entries(x) : f.primary_key = k}}
<1>1. h \in Nat /\ H2(h) \in 0 .. 127 /\ Slots(x) \subseteq Nat /\ c \in Nat
      /\ Slots(x) = 0 .. c - 1
  <2>1. c \in Nat /\ Slots(x) = 0 .. c - 1
    BY SlotFacts, CapacityFacts
  <2>2. QED
    BY <2>1, HashFacts
<1>2. PICK e \in Slots(x) : x.control[e] = kEmptyControl
  <2>1. x.row_count \in Nat /\ x.row_count <= (c \div 8) * 7
        /\ Cardinality(Occupied(x)) = x.row_count
    BY SlotFacts DEF Validate, ValidMetadata, IndexType
  <2>2. QED
    BY <2>1, RoomIsLeft, SomeSlotIsEmpty
<1>3. stops # {}
  <2>1. PICK i \in Slots(x) : Probe(x, h, i) = e
    BY <1>1, SlotFacts
  <2>2. QED
    BY <1>2, <2>1 DEF StopsAt
<1>4. PICK n \in stops : n = Min(stops) /\ \A i \in stops : n <= i
  BY <1>1, <1>3, MinFacts
<1>5. PICK slot \in Slots(x) : slot = Probe(x, h, n) /\ StopsAt(x, k, slot)
  BY <1>1, <1>4, SlotFacts
<1>6. \A o : o \in all <=> \E s \in Occupied(x) : x.key[s] = k /\ o = x.row_offset[s]
  <2> DEFINE E(s) == [primary_key |-> x.key[s], row_offset |-> x.row_offset[s]]
  <2>1. \A s : E(s).primary_key = x.key[s] /\ E(s).row_offset = x.row_offset[s]
    OBVIOUS
  <2>2. Entries(x) = {E(s) : s \in Occupied(x)}
    BY DEF Entries
  <2> HIDE DEF E
  <2>3. QED
    BY <2>1, <2>2
<1>7. \A s \in Occupied(x) : x.control[s] = H2(Hash[x.key[s]]) /\ ReachableSlot(x, s)
  BY DEF Validate
<1>8. CASE x.control[slot] = kEmptyControl
  <2>1. ASSUME NEW s \in Occupied(x), x.key[s] = k PROVE FALSE
    <3>1. PICK j \in 0 .. n : Probe(x, h, j) = s
      BY <1>4, <1>5, <1>7, <1>8, <2>1 DEF ReachableSlot
    <3>2. s \in Slots(x) /\ x.control[s] # kEmptyControl /\ StopsAt(x, k, s)
      BY <1>7, <2>1 DEF Occupied, StopsAt
    <3>3. j \in Slots(x) /\ j # n
      <4>1. n \in 0 .. c - 1
        BY <1>1, <1>4
      <4>2. j \in 0 .. c - 1
        BY <1>1, <3>1, <4>1
      <4>3. QED
        BY <1>1, <1>5, <1>8, <3>1, <3>2, <4>2
    <3>4. j \in stops
      BY <3>1, <3>2, <3>3
    <3>5. QED
      BY <1>1, <1>4, <3>1, <3>3, <3>4
  <2>2. all = {}
    BY <1>6, <2>1
  <2>3. Lookup(x, k) = [status |-> "kOk", found |-> {}]
    BY <1>3, <1>4, <1>5, <1>8 DEF Lookup
  <2>4. QED
    BY <2>2, <2>3
<1>9. CASE x.control[slot] # kEmptyControl
  <2>1. slot \in Occupied(x) /\ x.key[slot] = k
    BY <1>5, <1>9 DEF StopsAt, Occupied
  <2>2. \A s \in Occupied(x) : x.key[s] = k => s = slot
    <3>1. \A s, t \in Occupied(x) : t < s => x.key[t] # x.key[s]
      BY DEF Validate
    <3>2. \A s \in Occupied(x) : s \in Nat
      BY <1>1, SlotFacts
    <3>3. QED
      BY <2>1, <3>1, <3>2
  <2>3. all = {x.row_offset[slot]}
    BY <1>6, <2>1, <2>2
  <2>4. Lookup(x, k) = [status |-> "kOk", found |-> {x.row_offset[slot]}]
    BY <1>3, <1>4, <1>5, <1>9 DEF Lookup
  <2>5. QED
    BY <2>3, <2>4
<1>10. QED
  BY <1>8, <1>9

-----------------------------------------------------------------------------
(* Building. *)

LEMMA CalculatedCapacity ==
  ASSUME NEW n \in Nat, n <= MaxRows
  PROVE  /\ CalculateCapacity(n) \in Capacities
         /\ n <= (CalculateCapacity(n) \div 8) * 7
<1> DEFINE fits == {c \in Capacities : c >= (n * 8 + 6) \div 7}
<1>1. PICK m \in Capacities : m >= (MaxRows * 8 + 6) \div 7
  BY IndexAssumption
<1>2. m \in Nat /\ MaxRows \in Nat
  BY <1>1, CapacityFacts, IndexAssumption
<1>3. m \in fits
  BY <1>1, <1>2
<1>4. fits \in SUBSET Nat
  BY CapacityFacts
<1>5. PICK c \in fits : c = Min(fits)
  BY <1>3, <1>4, MinFacts
<1>6. CalculateCapacity(n) = c
  BY <1>5 DEF CalculateCapacity
<1>7. PICK q \in Nat \ {0} : c = 8 * q
  BY <1>5, CapacityFacts
<1>8. c \div 8 = q /\ 8 * q >= (n * 8 + 6) \div 7
  BY <1>5, <1>7
<1>9. n <= q * 7
  BY <1>8
<1>10. QED
  BY <1>5, <1>6, <1>8, <1>9

LEMMA InitBuildInv == Init => BuildInv
<1> SUFFICES ASSUME Init PROVE BuildInv
  OBVIOUS
<1>1. entries = <<>> /\ pc = "adding" /\ inserted = 0 /\ changes = 0 /\ MaxRows \in Nat
  BY IndexAssumption DEF Init
<1>2. BuildTypes
  BY <1>1 DEF BuildTypes
<1>3. KeysAreDistinct
  BY <1>1 DEF KeysAreDistinct
<1>4. QED
  BY <1>1, <1>2, <1>3 DEF BuildInv

LEMMA AddRowBuildInv ==
  ASSUME BuildInv, NEW k \in Keys, AddRow(k)
  PROVE  BuildInv'
<1> DEFINE e == [primary_key |-> k, row_offset |-> Len(entries) * RowSlotSize]
<1>1. /\ entries \in Seq(EntryType) /\ Len(entries) < MaxRows /\ pc = "adding"
      /\ inserted = 0 /\ changes = 0 /\ Len(entries) \in Nat
      /\ entries' = Append(entries, e) /\ UNCHANGED <<pc, inserted, index, changes>>
  BY DEF AddRow, BuildInv, BuildTypes
<1>2. Len(entries) * RowSlotSize \in Nat
  BY <1>1, IndexAssumption
<1>3. e \in EntryType
  BY <1>2 DEF EntryType
<1>4. /\ entries' \in Seq(EntryType) /\ Len(entries') = Len(entries) + 1
      /\ \A i \in 1 .. Len(entries) : entries'[i] = entries[i]
      /\ entries'[Len(entries) + 1] = e
  BY <1>1, <1>3
<1>5. BuildTypes'
  BY <1>1, <1>4, IndexAssumption DEF BuildTypes
<1>6. KeysAreDistinct'
  <2>1. \A i \in 1 .. Len(entries) : entries[i].primary_key # k
    BY <1>1 DEF AddRow, AddedKeys
  <2>2. DOMAIN entries' = 1 .. Len(entries) + 1 /\ DOMAIN entries = 1 .. Len(entries)
    BY <1>1, <1>4
  <2>3. \A i \in 1 .. Len(entries) : entries'[i].primary_key # k
    BY <1>4, <2>1
  <2>4. entries'[Len(entries) + 1].primary_key = k
    BY <1>4
  <2>5. \A i \in DOMAIN entries' : i \in 1 .. Len(entries) \/ i = Len(entries) + 1
    BY <1>1, <2>2
  <2>6. QED
    BY <1>4, <2>2, <2>3, <2>4, <2>5 DEF BuildInv, KeysAreDistinct
<1>7. QED
  BY <1>1, <1>5, <1>6 DEF BuildInv

LEMMA BeginBuildInv ==
  ASSUME BuildInv, BeginBuild
  PROVE  BuildInv'
<1>1. /\ entries \in Seq(EntryType) /\ Len(entries) <= MaxRows /\ Len(entries) \in Nat
      /\ pc = "adding" /\ pc' = "inserting" /\ inserted = 0 /\ changes = 0
      /\ UNCHANGED <<entries, inserted, changes>>
  BY DEF BeginBuild, BuildInv, BuildTypes
<1>2. PICK c \in Capacities : c = CalculateCapacity(Len(entries)) /\ Len(entries) <= (c \div 8) * 7
  BY <1>1, CalculatedCapacity
<1>3. index' = [row_count |-> Len(entries), capacity |-> c,
                control |-> [i \in 0 .. c + GroupWidth - 1 |-> kEmptyControl],
                key |-> [s \in 0 .. c - 1 |-> 0],
                row_offset |-> [s \in 0 .. c - 1 |-> 0]]
  BY <1>2 DEF BeginBuild
<1>4. index' \in IndexType(c)
  BY <1>1, <1>3, IndexAssumption DEF IndexType, kEmptyControl
<1>5. Occupied(index') = {}
  <2>1. c \in Nat /\ GroupWidth \in Nat
    BY CapacityFacts, IndexAssumption
  <2>2. \A s \in 0 .. c - 1 : index'.control[s] = kEmptyControl
    BY <1>3, <2>1
  <2>3. Slots(index') = 0 .. c - 1
    BY <1>4, SlotFacts
  <2>4. QED
    BY <2>2, <2>3 DEF Occupied
<1>6. SlotsHoldEntries'
  <2>1. index'.row_count = Len(entries) /\ index'.capacity = c
    BY <1>3
  <2>2. Occupied(index)' = {} /\ Cardinality(Occupied(index)') = 0
    BY <1>5, FS_EmptySet
  <2>3. QED
    BY <1>1, <1>2, <2>1, <2>2 DEF SlotsHoldEntries
<1>7. BuildTypes'
  BY <1>1, <1>4 DEF BuildInv, BuildTypes
<1>8. QED
  BY <1>1, <1>6, <1>7 DEF BuildInv, KeysAreDistinct

(* A slot stays reachable when an empty one is occupied. *)
LEMMA StaysReachable ==
  ASSUME NEW x, NEW y, NEW s, ReachableSlot(x, s),
         y.capacity = x.capacity, y.key[s] = x.key[s],
         \A t \in Slots(x) : y.control[t] = x.control[t] \/ y.control[t] # kEmptyControl,
         \A i \in Slots(x) : Probe(x, Hash[x.key[s]], i) \in Slots(x)
  PROVE  ReachableSlot(y, s)
<1>1. Slots(y) = Slots(x) /\ \A h, i : Probe(y, h, i) = Probe(x, h, i)
  BY DEF Slots, Probe
<1>2. QED
  BY <1>1 DEF ReachableSlot

(* The slot that the next entry gets. *)
LEMMA FreeSlotFacts ==
  ASSUME NEW c \in Capacities, index \in IndexType(c), Cardinality(Occupied(index)) < c,
         NEW h \in Nat
  PROVE  \E n \in Slots(index) :
           /\ FreeSlot(h) = Probe(index, h, n)
           /\ index.control[Probe(index, h, n)] = kEmptyControl
           /\ \A i \in Slots(index) : i < n => index.control[Probe(index, h, i)] # kEmptyControl
<1> DEFINE free == {i \in Slots(index) : index.control[Probe(index, h, i)] = kEmptyControl}
<1>1. PICK e \in Slots(index) : index.control[e] = kEmptyControl
  BY SomeSlotIsEmpty
<1>2. free # {}
  <2>1. PICK i \in Slots(index) : Probe(index, h, i) = e
    BY SlotFacts
  <2>2. QED
    BY <1>1, <2>1
<1>3. Slots(index) = 0 .. c - 1 /\ c \in Nat
  BY SlotFacts, CapacityFacts
<1>4. free \in SUBSET Nat
  BY <1>3
<1>5. PICK n \in free : n = Min(free) /\ \A i \in free : n <= i
  BY <1>2, <1>4, MinFacts
<1>6. FreeSlot(h) = Probe(index, h, n)
  BY <1>5 DEF FreeSlot
<1>7. \A i \in Slots(index) : i < n => i \notin free
  <2>1. SUFFICES ASSUME NEW i \in free, i < n PROVE FALSE
    OBVIOUS
  <2>2. i \in Nat /\ n \in Nat /\ n <= i
    BY <1>4, <1>5
  <2>3. QED
    BY <2>1, <2>2
<1>8. QED
  BY <1>5, <1>6, <1>7

LEMMA InsertEntryInv ==
  ASSUME BuildInv, InsertEntry
  PROVE  BuildInv'
<1>1. PICK c \in Capacities : index \in IndexType(c)
  BY DEF BuildInv, BuildTypes, InsertEntry
<1>2. /\ entries \in Seq(EntryType) /\ inserted \in Nat /\ inserted < Len(entries)
      /\ pc = "inserting" /\ changes = 0 /\ inserted' = inserted + 1
      /\ UNCHANGED <<entries, pc, changes>> /\ SlotsHoldEntries
  BY DEF BuildInv, BuildTypes, InsertEntry
<1>3. Len(entries) \in Nat /\ inserted + 1 \in 1 .. Len(entries)
  BY <1>2
<1>4. PICK e \in EntryType : e = entries[inserted + 1]
  BY <1>2, <1>3
<1>5. PICK k \in Keys : k = e.primary_key /\ Hash[k] \in Nat /\ H2(Hash[k]) \in 0 .. 127
  BY HashFacts DEF EntryType
<1>6. /\ c \in Nat \ {0} /\ Slots(index) = 0 .. c - 1 /\ index.capacity = c
      /\ Occupied(index) \subseteq Slots(index) /\ IsFiniteSet(Occupied(index))
      /\ \A h \in Nat, i \in Slots(index) : Probe(index, h, i) \in Slots(index)
  BY <1>1, SlotFacts, CapacityFacts
<1>7. Cardinality(Occupied(index)) < c
  <2>1. Len(entries) < c
    BY <1>1, <1>2, <1>3, <1>6, RoomIsLeft DEF SlotsHoldEntries
  <2>2. QED
    BY <1>2, <1>3, <1>6, <2>1 DEF SlotsHoldEntries
<1>8. PICK n \in Slots(index) :
        /\ FreeSlot(Hash[k]) = Probe(index, Hash[k], n)
        /\ index.control[Probe(index, Hash[k], n)] = kEmptyControl
        /\ \A i \in Slots(index) :
             i < n => index.control[Probe(index, Hash[k], i)] # kEmptyControl
  BY <1>1, <1>5, <1>7, FreeSlotFacts
<1>9. PICK slot \in 0 .. c - 1 : slot = Probe(index, Hash[k], n) /\ index.control[slot] = kEmptyControl
  BY <1>5, <1>6, <1>8
<1>10. index' = [index EXCEPT !.control[slot] = H2(Hash[k]), !.key[slot] = k,
                              !.row_offset[slot] = e.row_offset]
  BY <1>4, <1>5, <1>8, <1>9 DEF InsertEntry
<1>11. /\ index.control \in [0 .. c + GroupWidth - 1 -> Nat]
       /\ index.key \in [0 .. c - 1 -> Keys] /\ index.row_offset \in [0 .. c - 1 -> Nat]
       /\ slot \in 0 .. c + GroupWidth - 1 /\ e.row_offset \in Nat
  <2>1. GroupWidth \in Nat /\ c \in Nat
    BY <1>6, IndexAssumption
  <2>2. slot \in 0 .. c + GroupWidth - 1
    BY <1>9, <2>1
  <2>3. QED
    BY <1>1, <2>2 DEF IndexType, EntryType
<1>12. /\ index'.control = [index.control EXCEPT ![slot] = H2(Hash[k])]
       /\ index'.key = [index.key EXCEPT ![slot] = k]
       /\ index'.row_offset = [index.row_offset EXCEPT ![slot] = e.row_offset]
       /\ index'.row_count = index.row_count /\ index'.capacity = index.capacity
  BY <1>1, <1>10 DEF IndexType
<1>13. index' \in IndexType(c)
  <2>1. /\ [index.control EXCEPT ![slot] = H2(Hash[k])] \in [0 .. c + GroupWidth - 1 -> Nat]
        /\ [index.key EXCEPT ![slot] = k] \in [0 .. c - 1 -> Keys]
        /\ [index.row_offset EXCEPT ![slot] = e.row_offset] \in [0 .. c - 1 -> Nat]
    <3>1. H2(Hash[k]) \in Nat
      BY <1>5
    <3>2. QED
      BY <1>11, <3>1
  <2>2. index' = [row_count |-> index.row_count, capacity |-> index.capacity,
                  control |-> index'.control, key |-> index'.key, row_offset |-> index'.row_offset]
    BY <1>1, <1>10, <1>12 DEF IndexType
  <2>3. index.row_count \in Nat /\ index.capacity = c
    BY <1>1 DEF IndexType
  <2>4. QED
    BY <1>12, <2>1, <2>2, <2>3 DEF IndexType
<1>14. /\ index'.control[slot] = H2(Hash[k]) /\ index'.key[slot] = k
       /\ index'.row_offset[slot] = e.row_offset
       /\ \A s \in 0 .. c - 1 : s # slot => /\ index'.control[s] = index.control[s]
                                            /\ index'.key[s] = index.key[s]
                                            /\ index'.row_offset[s] = index.row_offset[s]
  <2>1. \A s \in 0 .. c - 1 : s \in 0 .. c + GroupWidth - 1
    <3>1. GroupWidth \in Nat /\ c \in Nat
      BY <1>6, IndexAssumption
    <3>2. QED
      BY <3>1
  <2>2. QED
    BY <1>9, <1>11, <1>12, <2>1
<1>15. H2(Hash[k]) # kEmptyControl
  BY <1>5 DEF kEmptyControl
<1>16. Slots(index') = 0 .. c - 1
  BY <1>13, SlotFacts
<1>17. slot \notin Occupied(index) /\ Occupied(index') = Occupied(index) \cup {slot}
  BY <1>6, <1>9, <1>14, <1>15, <1>16 DEF Occupied
<1>18. Cardinality(Occupied(index')) = inserted + 1
  <2>1. Cardinality(Occupied(index) \cup {slot}) = Cardinality(Occupied(index)) + 1
    BY <1>6, <1>17, FS_AddElement
  <2>2. QED
    BY <1>2, <1>17, <2>1 DEF SlotsHoldEntries
<1>19. \A s \in Occupied(index) : \E i \in 1 .. inserted : Holds(s, i)
  BY <1>2 DEF SlotsHoldEntries
<1>20. \A s \in Occupied(index) : s \in 0 .. c - 1 /\ s # slot /\ index.key[s] # k
  <2>1. ASSUME NEW s \in Occupied(index) PROVE index.key[s] # k
    <3>1. PICK i \in 1 .. inserted : Holds(s, i)
      BY <1>19
    <3>2. i \in 1 .. Len(entries) /\ i # inserted + 1
      BY <1>2, <1>3
    <3>3. entries[i].primary_key # entries[inserted + 1].primary_key
      BY <1>2, <1>3, <3>2 DEF BuildInv, KeysAreDistinct
    <3>4. QED
      BY <1>4, <1>5, <3>1, <3>3 DEF Holds
  <2>2. QED
    BY <1>6, <1>17, <2>1
<1>21. ReachableSlot(index', slot)
  <2> SUFFICES ASSUME NEW i \in 0 .. c - 1, \A j \in 0 .. i : Probe(index', Hash[k], j) # slot
               PROVE  index'.control[Probe(index', Hash[k], i)] # kEmptyControl
    BY <1>14, <1>16 DEF ReachableSlot
  <2>1. \A h, j : Probe(index', h, j) = Probe(index, h, j)
    BY <1>12 DEF Probe
  <2>2. n \in Nat /\ i \in Nat
    BY <1>6, <1>8
  <2>3. i < n
    BY <1>9, <2>1, <2>2
  <2>4. index.control[Probe(index, Hash[k], i)] # kEmptyControl
    BY <1>6, <1>8, <2>3
  <2>5. Probe(index, Hash[k], i) \in 0 .. c - 1
    BY <1>5, <1>6
  <2>6. QED
    BY <1>9, <1>14, <2>1, <2>4, <2>5
<1>22. ASSUME NEW s \in Occupied(index) PROVE ReachableSlot(index', s)
  <2>1. ReachableSlot(index, s) /\ index.key[s] \in Keys /\ index'.key[s] = index.key[s]
    BY <1>2, <1>11, <1>14, <1>20 DEF SlotsHoldEntries
  <2>2. \A t \in Slots(index) : index'.control[t] = index.control[t] \/ index'.control[t] # kEmptyControl
    BY <1>6, <1>14, <1>15
  <2>3. \A i \in Slots(index) : Probe(index, Hash[index.key[s]], i) \in Slots(index)
    BY <1>6, <2>1, HashFacts
  <2>4. QED
    BY <1>12, <2>1, <2>2, <2>3, StaysReachable
<1>23. \A s \in Occupied(index), i \in 1 .. inserted : Holds(s, i)' <=> Holds(s, i)
  BY <1>2, <1>14, <1>20 DEF Holds
<1>24. PICK m \in Nat : m = inserted + 1 /\ Holds(slot, m)'
  <2>1. PICK m \in Nat : m = inserted + 1
    BY <1>2
  <2>2. Holds(slot, m)'
    BY <1>2, <1>4, <1>5, <1>14, <2>1 DEF Holds
  <2>3. QED
    BY <2>1, <2>2
<1>25. 1 .. inserted' = (1 .. inserted) \cup {m}
  BY <1>2, <1>24
<1>26. SlotsHoldEntries'
  <2>1. /\ index'.row_count = Len(entries') /\ Len(entries') <= (index'.capacity \div 8) * 7
        /\ Cardinality(Occupied(index')) = inserted'
    BY <1>2, <1>12, <1>18 DEF SlotsHoldEntries
  <2>2. ASSUME NEW s \in Occupied(index')
        PROVE  /\ index'.control[s] = H2(Hash[index'.key[s]])
               /\ ReachableSlot(index', s)
               /\ \E i \in 1 .. inserted' : Holds(s, i)'
    <3>1. CASE s = slot
      BY <1>14, <1>21, <1>24, <1>25, <3>1
    <3>2. CASE s \in Occupied(index)
      <4>1. index'.control[s] = H2(Hash[index'.key[s]])
        BY <1>2, <1>14, <1>20, <3>2 DEF SlotsHoldEntries
      <4>2. QED
        BY <1>19, <1>22, <1>23, <1>25, <3>2, <4>1
    <3>3. QED
      BY <1>17, <3>1, <3>2
  <2>3. ASSUME NEW i \in 1 .. inserted' PROVE \E s \in Occupied(index') : Holds(s, i)'
    <3>1. CASE i = m
      BY <1>17, <1>24, <3>1
    <3>2. CASE i \in 1 .. inserted
      BY <1>2, <1>17, <1>23, <3>2 DEF SlotsHoldEntries
    <3>3. QED
      BY <1>25, <3>1, <3>2
  <2>4. \A s, t \in Occupied(index') : index'.key[s] = index'.key[t] => s = t
    BY <1>2, <1>14, <1>17, <1>20 DEF SlotsHoldEntries
  <2>5. QED
    BY <2>1, <2>2, <2>3, <2>4 DEF SlotsHoldEntries
<1>27. BuildTypes'
  BY <1>2, <1>3, <1>13 DEF BuildInv, BuildTypes
<1>28. QED
  BY <1>2, <1>26, <1>27 DEF BuildInv, KeysAreDistinct

LEMMA MirrorControlInv ==
  ASSUME BuildInv, MirrorControl
  PROVE  BuildInv'
<1>1. PICK c \in Capacities : index \in IndexType(c)
  BY DEF BuildInv, BuildTypes, MirrorControl
<1>2. /\ pc = "inserting" /\ pc' = "stored" /\ inserted = Len(entries) /\ changes = 0
      /\ UNCHANGED <<entries, inserted, changes>> /\ SlotsHoldEntries
  BY DEF BuildInv, BuildTypes, MirrorControl
<1>3. /\ c \in Nat \ {0} /\ GroupWidth \in Nat \ {0} /\ c >= GroupWidth
      /\ index.capacity = c /\ Slots(index) = 0 .. c - 1
      /\ Mirror(index) = c .. c + GroupWidth - 1
  BY <1>1, CapacityFacts, SlotFacts, IndexAssumption DEF Mirror
<1>4. PICK control : control = [i \in 0 .. c + GroupWidth - 1 |->
                                  IF i \in c .. c + GroupWidth - 1 THEN index.control[i - c]
                                  ELSE index.control[i]]
  OBVIOUS
<1>5. index.control \in [0 .. c + GroupWidth - 1 -> Nat]
  BY <1>1 DEF IndexType
<1>6. index' = [index EXCEPT !.control = control]
  BY <1>3, <1>4, <1>5 DEF MirrorControl
<1>7. /\ index'.control = control /\ index'.key = index.key
      /\ index'.row_offset = index.row_offset
      /\ index'.row_count = index.row_count /\ index'.capacity = index.capacity
  BY <1>1, <1>6 DEF IndexType
<1>8. control \in [0 .. c + GroupWidth - 1 -> Nat]
  <2>1. \A i \in c .. c + GroupWidth - 1 : i - c \in 0 .. c + GroupWidth - 1
    BY <1>3
  <2>2. QED
    BY <1>4, <1>5, <2>1
<1>9. index' \in IndexType(c)
  BY <1>1, <1>6, <1>8 DEF IndexType
<1>10. \A s \in 0 .. c - 1 : control[s] = index.control[s]
  <2>1. \A s \in 0 .. c - 1 : s \in 0 .. c + GroupWidth - 1 /\ s \notin c .. c + GroupWidth - 1
    BY <1>3
  <2>2. QED
    BY <1>4, <2>1
<1>11. Slots(index') = Slots(index) /\ Occupied(index') = Occupied(index)
  BY <1>3, <1>7, <1>10 DEF Slots, Occupied
<1>12. \A s \in Occupied(index) : s \in 0 .. c - 1 /\ index.key[s] \in Keys
  BY <1>1, <1>3, SlotFacts DEF IndexType
<1>13. ASSUME NEW s \in Occupied(index) PROVE ReachableSlot(index', s)
  <2>1. ReachableSlot(index, s)
    BY <1>2 DEF SlotsHoldEntries
  <2>2. \A i \in Slots(index) : Probe(index, Hash[index.key[s]], i) \in Slots(index)
    BY <1>1, <1>12, HashFacts, SlotFacts
  <2>3. QED
    BY <1>3, <1>7, <1>10, <2>1, <2>2, StaysReachable
<1>14. SlotsHoldEntries'
  <2>1. \A s, i : Holds(s, i)' <=> Holds(s, i)
    BY <1>2, <1>7 DEF Holds
  <2>2. \A s \in Occupied(index) : index'.control[s] = index.control[s]
    BY <1>7, <1>10, <1>12
  <2>3. QED
    BY <1>2, <1>7, <1>11, <1>13, <2>1, <2>2 DEF SlotsHoldEntries
<1>15. IsMirrored'
  <2> SUFFICES ASSUME NEW i \in 0 .. GroupWidth - 1 PROVE control[c + i] = control[i]
    BY <1>3, <1>7 DEF IsMirrored
  <2>1. /\ c + i \in c .. c + GroupWidth - 1 /\ c + i \in 0 .. c + GroupWidth - 1
        /\ (c + i) - c = i /\ i \in 0 .. c - 1
    BY <1>3
  <2>2. QED
    BY <1>4, <1>10, <2>1
<1>16. BuildTypes'
  BY <1>2, <1>9 DEF BuildInv, BuildTypes
<1>17. QED
  BY <1>2, <1>14, <1>15, <1>16 DEF BuildInv, KeysAreDistinct

(* A changed byte leaves the sections what they are. *)
LEMMA StoredByteChangesInv ==
  ASSUME BuildInv, StoredByteChanges
  PROVE  BuildInv'
<1>1. PICK c \in Capacities : index \in IndexType(c)
  BY DEF BuildInv, BuildTypes, StoredByteChanges
<1>2. /\ pc = "stored" /\ inserted = Len(entries) /\ changes \in Nat /\ changes' = changes + 1
      /\ UNCHANGED <<entries, pc, inserted>>
  BY DEF BuildInv, BuildTypes, StoredByteChanges
<1>3. Slots(index) = 0 .. c - 1 /\ Len(entries) \in Nat
  BY <1>1, SlotFacts DEF BuildInv, BuildTypes
<1>4. index' \in IndexType(c)
  <2>1. CASE \E i \in DOMAIN index.control, b \in {H2(Hash[k]) : k \in ChangedKeys}
                                                   \cup {kEmptyControl, kEmptyControl + 1} :
               index' = [index EXCEPT !.control[i] = b]
    <3>1. PICK i \in DOMAIN index.control, b \in Nat : index' = [index EXCEPT !.control[i] = b]
      <4>1. \A k \in ChangedKeys : H2(Hash[k]) \in Nat
        BY HashFacts, IndexAssumption
      <4>2. kEmptyControl \in Nat /\ kEmptyControl + 1 \in Nat
        BY DEF kEmptyControl
      <4>3. {H2(Hash[k]) : k \in ChangedKeys} \cup {kEmptyControl, kEmptyControl + 1} \subseteq Nat
        BY <4>1, <4>2
      <4>4. QED
        BY <2>1, <4>3, Zenon
    <3>2. QED
      BY <1>1, <3>1 DEF IndexType
  <2>2. CASE \E s \in Slots(index), k \in ChangedKeys : index' = [index EXCEPT !.key[s] = k]
    <3>1. PICK s \in 0 .. c - 1, k \in Keys : index' = [index EXCEPT !.key[s] = k]
      BY <1>3, <2>2, IndexAssumption
    <3>2. QED
      BY <1>1, <3>1 DEF IndexType
  <2>3. CASE \E s \in Slots(index) : index' = [index EXCEPT !.row_offset[s] = @ + 1]
    <3>1. PICK s \in 0 .. c - 1 : index' = [index EXCEPT !.row_offset[s] = @ + 1]
      BY <1>3, <2>3
    <3>2. index.row_offset[s] + 1 \in Nat
      <4>1. index.row_offset[s] \in Nat
        BY <1>1 DEF IndexType
      <4>2. QED
        BY <4>1
    <3>3. QED
      BY <1>1, <3>1, <3>2 DEF IndexType
  <2>4. CASE \E n \in 0 .. Len(entries) + 1 : index' = [index EXCEPT !.row_count = n]
    BY <1>1, <1>3, <2>4 DEF IndexType
  <2>5. QED
    BY <2>1, <2>2, <2>3, <2>4 DEF StoredByteChanges
<1>5. BuildTypes'
  BY <1>2, <1>4 DEF BuildInv, BuildTypes
<1>6. changes' # 0
  BY <1>2
<1>7. QED
  BY <1>2, <1>5, <1>6 DEF BuildInv, KeysAreDistinct

LEMMA NextBuildInv == BuildInv /\ [Next]_vars => BuildInv'
<1> SUFFICES ASSUME BuildInv, [Next]_vars PROVE BuildInv'
  OBVIOUS
<1>1. CASE UNCHANGED vars
  BY <1>1 DEF vars, BuildInv, BuildTypes, KeysAreDistinct, SlotsHoldEntries, Holds, IsMirrored,
              Occupied, Slots, ReachableSlot, Probe
<1>2. CASE Next
  BY <1>2, AddRowBuildInv, BeginBuildInv, InsertEntryInv, MirrorControlInv,
     StoredByteChangesInv DEF Next
<1>3. QED
  BY <1>1, <1>2

(* The invariant of the builds: the occupied slots are exactly those of    *)
(* the rows inserted so far, each reachable from its home.                 *)
THEOREM BuildInvariant == Spec => []BuildInv
<1>1. QED
  BY InitBuildInv, NextBuildInv, PTL DEF Spec

(* The unbounded search of BuildFrozenPrimaryKeyIndex for an empty slot    *)
(* ends for every number of rows: the load factor of 7/8 leaves one.       *)
THEOREM EmptySlotLeft == Spec => []BuildLeavesAnEmptySlot
<1>1. BuildInv => BuildLeavesAnEmptySlot
  <2> SUFFICES ASSUME BuildInv, pc # "adding", changes = 0
               PROVE  Cardinality(Occupied(index)) < Cardinality(Slots(index))
    BY DEF BuildLeavesAnEmptySlot
  <2>1. PICK c \in Capacities : index \in IndexType(c)
    BY DEF BuildInv, BuildTypes
  <2>2. /\ inserted \in Nat /\ inserted <= Len(entries) /\ Len(entries) \in Nat
        /\ SlotsHoldEntries
    BY DEF BuildInv, BuildTypes
  <2>3. index.capacity = c /\ Cardinality(Slots(index)) = c /\ c \in Nat
    BY <2>1, SlotFacts, CapacityFacts
  <2>4. Len(entries) < c
    BY <2>1, <2>2, <2>3, RoomIsLeft DEF SlotsHoldEntries
  <2>5. QED
    BY <2>2, <2>3, <2>4 DEF SlotsHoldEntries
<1>2. QED
  BY <1>1, BuildInvariant, PTL

(* What FrozenPrimaryKeyIndexView::Validate accepts, however the bytes     *)
(* came about, answers every lookup and agrees with its own enumeration.   *)
THEOREM AcceptedConsistent == Spec => []AcceptedIndexIsConsistent
<1>1. BuildInv => AcceptedIndexIsConsistent
  <2> SUFFICES ASSUME BuildInv, pc = "stored", Validate(index), NEW k \in Keys
               PROVE  Lookup(index, k) =
                        [status |-> "kOk",
                         found |-> {e.row_offset : e \in {f \in Entries(index) : f.primary_key = k}}]
    BY DEF AcceptedIndexIsConsistent
  <2>1. PICK c \in Capacities : index \in IndexType(c)
    BY DEF BuildInv, BuildTypes
  <2>2. QED
    BY <2>1, LookupAnswers
<1>2. QED
  BY <1>1, BuildInvariant, PTL

(* Every index that BuildFrozenPrimaryKeyIndex writes is accepted, holds   *)
(* exactly the rows that were added, and finds each of them and no other.  *)
THEOREM BuiltExact == Spec => []BuiltIndexIsExact
<1>1. BuildInv => BuiltIndexIsExact
  <2> SUFFICES ASSUME BuildInv, pc = "stored", changes = 0
               PROVE  /\ Validate(index)
                      /\ Entries(index) = {entries[i] : i \in DOMAIN entries}
                      /\ \A k \in Keys :
                           Lookup(index, k) =
                             [status |-> "kOk",
                              found |-> {e.row_offset :
                                           e \in {f \in Entries(index) : f.primary_key = k}}]
    BY DEF BuiltIndexIsExact
  <2>1. PICK c \in Capacities : index \in IndexType(c)
    BY DEF BuildInv, BuildTypes
  <2>2. /\ entries \in Seq(EntryType) /\ inserted = Len(entries) /\ SlotsHoldEntries /\ IsMirrored
    BY DEF BuildInv, BuildTypes
  <2>3. c \in Nat /\ index.capacity = c /\ Slots(index) = 0 .. c - 1
        /\ Occupied(index) \subseteq 0 .. c - 1
    <3>1. c \in Nat
      BY CapacityFacts
    <3>2. QED
      BY <2>1, <3>1, SlotFacts
  <2>4. Validate(index)
    <3>1. ValidMetadata(index)
      BY <2>2, <2>3 DEF ValidMetadata, SlotsHoldEntries
    <3>2. \A i \in 0 .. GroupWidth - 1 : index.control[index.capacity + i] = index.control[i]
      BY <2>2 DEF IsMirrored
    <3>3. ASSUME NEW s \in Occupied(index)
          PROVE  /\ index.control[s] < kEmptyControl
                 /\ \A t \in Occupied(index) : t < s => index.key[t] # index.key[s]
                 /\ index.control[s] = H2(Hash[index.key[s]])
                 /\ ReachableSlot(index, s)
      <4>1. s \in 0 .. c - 1 /\ index.key[s] \in Keys
        BY <2>1, <2>3 DEF IndexType
      <4>2. index.control[s] = H2(Hash[index.key[s]]) /\ ReachableSlot(index, s)
        BY <2>2 DEF SlotsHoldEntries
      <4>3. index.control[s] < kEmptyControl
        BY <4>1, <4>2, HashFacts DEF kEmptyControl
      <4>4. \A t \in Occupied(index) : t < s => t \in Int /\ t # s
        BY <2>3, <4>1
      <4>5. QED
        BY <2>2, <4>2, <4>3, <4>4 DEF SlotsHoldEntries
    <3>4. Cardinality(Occupied(index)) = index.row_count
      BY <2>2 DEF SlotsHoldEntries
    <3>5. QED
      BY <3>1, <3>2, <3>3, <3>4 DEF Validate
  <2>5. Entries(index) = {entries[i] : i \in DOMAIN entries}
    <3> DEFINE E(s) == [primary_key |-> index.key[s], row_offset |-> index.row_offset[s]]
    <3>1. Entries(index) = {E(s) : s \in Occupied(index)} /\ DOMAIN entries = 1 .. Len(entries)
      BY <2>2 DEF Entries
    <3>2. \A s, i : i \in 1 .. Len(entries) /\ Holds(s, i) => E(s) = entries[i]
      <4> SUFFICES ASSUME NEW s, NEW i \in 1 .. Len(entries), Holds(s, i) PROVE E(s) = entries[i]
        OBVIOUS
      <4>1. entries[i] \in EntryType
        BY <2>2
      <4>2. entries[i] = [primary_key |-> entries[i].primary_key,
                          row_offset |-> entries[i].row_offset]
        BY <4>1 DEF EntryType
      <4>3. QED
        BY <4>2 DEF Holds
    <3> HIDE DEF E
    <3>3. \A s \in Occupied(index) : \E i \in 1 .. Len(entries) : E(s) = entries[i]
      BY <2>2, <3>2 DEF SlotsHoldEntries
    <3>4. \A i \in 1 .. Len(entries) : \E s \in Occupied(index) : E(s) = entries[i]
      BY <2>2, <3>2 DEF SlotsHoldEntries
    <3>5. QED
      BY <3>1, <3>3, <3>4
  <2>6. QED
    BY <2>1, <2>4, <2>5, LookupAnswers
<1>2. QED
  BY <1>1, BuildInvariant, PTL


=============================================================================
