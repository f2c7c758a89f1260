------------------------ MODULE FrozenPrimaryKeyIndex ------------------------
(***************************************************************************)
(* The open-addressing index of an immutable snapshot                      *)
(* (src/store/frozen_primary_key_index.cc) and the snapshot builder that   *)
(* feeds it (src/store/snapshot_builder.cc).  Rows are added, the index is *)
(* built entry by entry, and the finished bytes are stored; before they    *)
(* are validated and read again some of them may have changed.             *)
(* The header is the record of its fields, a section is a function.        *)
(***************************************************************************)
EXTENDS Integers, Sequences, FiniteSets, FiniteSetsExt

CONSTANTS Keys,          \* primary keys; an unused slot holds key 0
          HashWidth,     \* 2^64 in the code
          H2Divisor,     \* 2^57 in the code: H2 is the top seven bits
          Hash,          \* StableHash64 for the seed and version of the header
          GroupWidth,    \* kDefaultGroupWidth
          RowSlotSize,   \* layout->row_slot_size()
          MaxRows,       \* bound: rows of one snapshot
          MaxDoublings,  \* bound: doublings of the capacity
          MaxChanges,    \* bound: stored bytes that change
          ChangedKeys    \* bound: keys of the snapshots whose bytes change

CapacityOf(j) == GroupWidth * 2^j

Capacities == {CapacityOf(j) : j \in 0 .. MaxDoublings}

(* The group width is 16 in the code; MaxDoublings admits MaxRows rows. *)
ASSUME IndexAssumption ==
  /\ Keys \subseteq Nat /\ 0 \in Keys
  /\ HashWidth \in Nat \ {0} /\ H2Divisor \in Nat \ {0}
  /\ HashWidth \div H2Divisor <= 128
  /\ Hash \in [Keys -> 0 .. HashWidth - 1]
  /\ GroupWidth \in Nat \ {0} /\ GroupWidth % 8 = 0 /\ RowSlotSize \in Nat \ {0}
  /\ MaxRows \in Nat /\ MaxDoublings \in Nat /\ MaxChanges \in Nat
  /\ \A j \in 0 .. MaxDoublings : 2^j \in Nat \ {0}
  /\ \E c \in Capacities : c >= (MaxRows * 8 + 6) \div 7
  /\ ChangedKeys \subseteq Keys

kEmptyControl == 128

H2(hash) == (hash \div H2Divisor) % 128

(* Mutant: room for the rows and no more. *)
CalculateCapacityTight(row_count) == Min({c \in Capacities : c >= row_count})

(* The smallest doubling of the group width with room for 8/7 of the rows. *)
CalculateCapacity(row_count) ==
  Min({c \in Capacities : c >= (row_count * 8 + 6) \div 7})

Slots(index) == 0 .. index.capacity - 1

Mirror(index) == index.capacity .. index.capacity + GroupWidth - 1

(* The i-th slot that a probe for a key with this hash visits; the         *)
(* capacity is a power of two, so that masking is the remainder.           *)
Probe(index, hash, i) == (hash + i) % index.capacity

VARIABLES entries,   \* SnapshotBuilder::index_entries_, in the order added
          pc,        \* "adding", "inserting", "stored"
          inserted,  \* how many entries the build has inserted
          index,     \* the bytes of the index
          changes    \* stored bytes changed so far

vars == <<entries, pc, inserted, index, changes>>

NoIndex == [row_count |-> 0, capacity |-> 0, control |-> <<>>, key |-> <<>>,
            row_offset |-> <<>>]

Init ==
  /\ entries = <<>>
  /\ pc = "adding"
  /\ inserted = 0
  /\ index = NoIndex
  /\ changes = 0

-----------------------------------------------------------------------------
(* Building *)

AddedKeys == {entries[i].primary_key : i \in DOMAIN entries}

(* A row takes the next row slot; a second row of a key is refused and     *)
(* leaves the builder as it is.                                            *)
AddRow(k) ==
  /\ pc = "adding"
  /\ Len(entries) < MaxRows
  /\ k \notin AddedKeys
  /\ entries' = Append(entries, [primary_key |-> k,
                                 row_offset |-> Len(entries) * RowSlotSize])
  /\ UNCHANGED <<pc, inserted, index, changes>>

(* Seal, up to the header and the empty control bytes. *)
BeginBuild ==
  LET capacity == CalculateCapacity(Len(entries)) IN
  /\ pc = "adding"
  /\ index' = [row_count |-> Len(entries),
               capacity |-> capacity,
               control |-> [i \in 0 .. capacity + GroupWidth - 1 |-> kEmptyControl],
               key |-> [s \in 0 .. capacity - 1 |-> 0],
               row_offset |-> [s \in 0 .. capacity - 1 |-> 0]]
  /\ pc' = "inserting"
  /\ UNCHANGED <<entries, inserted, changes>>

(* Mutant: the home slot itself is left out. *)
FreeSlotAfterHome(hash) ==
  Probe(index, hash,
        Min({i \in Slots(index) \ {0} :
               index.control[Probe(index, hash, i)] = kEmptyControl}))

(* The next entry goes into the first empty slot of its probe sequence. *)
FreeSlot(hash) ==
  Probe(index, hash,
        Min({i \in Slots(index) : index.control[Probe(index, hash, i)] = kEmptyControl}))

InsertEntry ==
  LET entry == entries[inserted + 1]
      hash == Hash[entry.primary_key]
      slot == FreeSlot(hash) IN
  /\ pc = "inserting"
  /\ inserted < Len(entries)
  /\ index' = [index EXCEPT !.control[slot] = H2(hash),
                            !.key[slot] = entry.primary_key,
                            !.row_offset[slot] = entry.row_offset]
  /\ inserted' = inserted + 1
  /\ UNCHANGED <<entries, pc, changes>>

(* The first control bytes are repeated behind the last one. *)
MirrorControl ==
  /\ pc = "inserting"
  /\ inserted = Len(entries)
  /\ index' = [index EXCEPT
       !.control = [i \in DOMAIN index.control |->
                      IF i \in Mirror(index) THEN index.control[i - index.capacity]
                      ELSE index.control[i]]]
  /\ pc' = "stored"
  /\ UNCHANGED <<entries, inserted, changes>>

(* A control byte, a key, a row offset or the row count of the stored bytes *)
(* is no longer what was written.                                          *)
StoredByteChanges ==
  /\ pc = "stored"
  /\ changes < MaxChanges
  /\ AddedKeys \subseteq ChangedKeys
  /\ \/ \E i \in DOMAIN index.control, c \in {H2(Hash[k]) : k \in ChangedKeys}
                                              \cup {kEmptyControl, kEmptyControl + 1} :
          index' = [index EXCEPT !.control[i] = c]
     \/ \E s \in Slots(index), k \in ChangedKeys : index' = [index EXCEPT !.key[s] = k]
     \/ \E s \in Slots(index) : index' = [index EXCEPT !.row_offset[s] = @ + 1]
     \/ \E n \in 0 .. Len(entries) + 1 : index' = [index EXCEPT !.row_count = n]
  /\ changes' = changes + 1
  /\ UNCHANGED <<entries, pc, inserted>>

Next ==
  \/ \E k \in Keys : AddRow(k)
  \/ BeginBuild \/ InsertEntry \/ MirrorControl
  \/ StoredByteChanges

Spec == Init /\ [][Next]_vars

-----------------------------------------------------------------------------
(* Reading *)

(* ValidateMetadata; the section offsets follow from the capacity. *)
ValidMetadata(x) ==
  /\ x.capacity \in Capacities
  /\ x.row_count <= (x.capacity \div 8) * 7

Occupied(x) == {s \in Slots(x) : x.control[s] # kEmptyControl}

(* Mutant: reachability is not validated. *)
ReachableUnchecked(x, s) == s \in Slots(x)

(* No empty slot lies between the home of the key of s and s. *)
ReachableSlot(x, s) ==
  \A i \in Slots(x) :
    (\A j \in 0 .. i : Probe(x, Hash[x.key[s]], j) # s)
      => x.control[Probe(x, Hash[x.key[s]], i)] # kEmptyControl

Validate(x) ==
  /\ ValidMetadata(x)
  /\ \A i \in 0 .. GroupWidth - 1 : x.control[x.capacity + i] = x.control[i]
  /\ \A s \in Occupied(x) :
       /\ x.control[s] < kEmptyControl
       /\ \A t \in Occupied(x) : t < s => x.key[t] # x.key[s]
       /\ x.control[s] = H2(Hash[x.key[s]])
       /\ ReachableSlot(x, s)
  /\ Cardinality(Occupied(x)) = x.row_count

(* The probe ends at an empty slot or at the key; [found] is then empty or *)
(* the key's row offset.  A probe that does neither is an error.           *)
StopsAt(x, k, s) ==
  \/ x.control[s] = kEmptyControl
  \/ x.control[s] = H2(Hash[k]) /\ x.key[s] = k

Lookup(x, k) ==
  LET stops == {i \in Slots(x) : StopsAt(x, k, Probe(x, Hash[k], i))}
      slot == Probe(x, Hash[k], Min(stops)) IN
  IF stops = {} THEN [status |-> "kInvalidArgument", found |-> {}]
  ELSE [status |-> "kOk",
        found |-> IF x.control[slot] = kEmptyControl THEN {} ELSE {x.row_offset[slot]}]

Entries(x) ==
  {[primary_key |-> x.key[s], row_offset |-> x.row_offset[s]] : s \in Occupied(x)}

-----------------------------------------------------------------------------
(* Properties *)

(* The search of the build for an empty slot, a loop with no bound, always *)
(* ends, and even the full index keeps an empty slot, at which lookups of  *)
(* other keys stop.                                                        *)
BuildLeavesAnEmptySlot ==
  pc # "adding" /\ changes = 0
    => Cardinality(Occupied(index)) < Cardinality(Slots(index))

(* What BuildFrozenPrimaryKeyIndex writes, Validate accepts, and a lookup  *)
(* then answers with the row slot that the key was added with, and misses  *)
(* every other key.                                                        *)
BuiltIndexIsExact ==
  pc = "stored" /\ changes = 0 =>
    /\ Validate(index)
    /\ Entries(index) = {entries[i] : i \in DOMAIN entries}
    /\ \A k \in Keys :
         Lookup(index, k) =
           [status |-> "kOk",
            found |-> {e.row_offset : e \in {f \in Entries(index) : f.primary_key = k}}]

(* Whatever happened to the stored bytes: an index that Validate accepts   *)
(* answers every lookup, never by "exhausted every slot", and point        *)
(* lookups agree with the enumeration that compaction and rebase use.      *)
AcceptedIndexIsConsistent ==
  pc = "stored" /\ Validate(index) =>
    \A k \in Keys :
      Lookup(index, k) =
        [status |-> "kOk",
         found |-> {e.row_offset : e \in {f \in Entries(index) : f.primary_key = k}}]

=============================================================================
