------------------------ MODULE ShardGenerationsProofs ------------------------
(***************************************************************************)
(* Proofs about the generations of a shard, for every number of keys,      *)
(* partitions, messages, generations and rewinds and every capacity of the *)
(* realtime tables.                                                        *)
(***************************************************************************)
EXTENDS ShardGenerations, FiniteSetTheorems, NumberFacts, TLAPS

-----------------------------------------------------------------------------
(* The structural invariant: types, the agreement of the two parts of each *)
(* realtime table, and the places of the tables.                           *)

Entries == [row : UpdateRows, sealed_visible : BOOLEAN]

Tables == [rows : Seq(Entries), latest : [Keys -> UpdateRows \cup {NoRow}]]

SealedRowsOf(table, k) == SealedRows(table, Len(table.rows), k)

(* The map has the newest of the sealed rows of a key, which are all of    *)
(* one partition.                                                          *)
LatestIsNewestSealed(table) ==
  \A k \in Keys :
    /\ table.latest[k] = NoRow => SealedRowsOf(table, k) = {}
    /\ table.latest[k] # NoRow =>
         /\ table.latest[k] \in SealedRowsOf(table, k)
         /\ \A s \in SealedRowsOf(table, k) :
              /\ s.partition = table.latest[k].partition
              /\ s.offset <= table.latest[k].offset

TablesOK ==
  /\ tables \in [Generations -> Tables]
  /\ \A g \in Generations : /\ LatestIsNewestSealed(tables[g])
                            /\ KeyCount(tables[g]) <= Capacity
                            /\ g >= next_generation => tables[g] = EmptyTable

StreamOK ==
  /\ log \in [Partitions -> Seq(Keys)]
  /\ next \in [Partitions -> Nat] /\ committed \in [Partitions -> Nat]
  /\ \A p \in Partitions : /\ committed[p] <= next[p]
                           /\ next[p] <= Len(log[p])
                           /\ Len(log[p]) <= MaxMessages
  /\ message \in UpdateRows \cup {NoRow}
  /\ apply_failed \in BOOLEAN

(* A key was updated, or is served as the first artifact has it. *)
AcknowledgedOK ==
  /\ acknowledged \in RowMaps
  /\ \A k \in Keys : \/ acknowledged[k] \in UpdateRows /\ acknowledged[k].primary_key = k
                     \/ acknowledged[k] = FirstFull[k]

Jobs ==
  [kind : {"none", "compaction", "rebase"}, built : BOOLEAN, boundary : Nat,
   successor : Generations \cup {NoGeneration}, previous : ShardStates,
   snapshot : RowMaps \cup {NoSnapshot}]

HistoryOK ==
  /\ folded \in [Partitions -> Nat]
  /\ \A p \in Partitions : folded[p] <= Len(log[p])
  /\ replayed \in BOOLEAN /\ loaded \in BOOLEAN

(* Generations are used once, in order. *)
GenerationsOK ==
  /\ next_generation \in 2 .. MaxGeneration + 1
  /\ serving \in ShardStates
  /\ serving.generation \in 1 .. next_generation - 1
  /\ job \in Jobs
  /\ job.kind = "none" => ~job.built
  /\ job.kind # "none" =>
       /\ job.previous.generation \in 1 .. job.successor - 1
       /\ job.successor \in Generations
       /\ job.successor < next_generation
       /\ job.successor # serving.generation
       /\ job.boundary <= Len(tables[job.previous.generation].rows)

(* The stream goes on writing where it did when a load has cut over. *)
TargetsOK ==
  /\ StreamTarget \in 1 .. next_generation - 1
  /\ ~loaded => StreamTarget = serving.generation
  /\ job.kind # "none" => StreamTarget # job.successor
  /\ targets = IF job.kind = "none" THEN <<StreamTarget>>
               ELSE <<StreamTarget, job.successor>>
  /\ message = NoRow => pending = <<>>
  /\ message # NoRow =>
       /\ ~apply_failed
       /\ \/ pending = targets
          \/ job.kind # "none" /\ pending = <<job.successor>>

(* The table of a load is nobody else's. *)
LoadOK ==
  /\ load \in [active : BOOLEAN, generation : Generations \cup {NoGeneration},
               position : [Partitions -> Nat]]
  /\ load.active =>
       /\ load.generation \in 1 .. next_generation - 1
       /\ load.generation # serving.generation
       /\ load.generation # StreamTarget
       /\ job.kind # "none" => /\ load.generation # job.successor
                               /\ load.generation # job.previous.generation

ShardInv ==
  /\ TablesOK /\ StreamOK /\ AcknowledgedOK /\ HistoryOK
  /\ GenerationsOK /\ TargetsOK /\ LoadOK

-----------------------------------------------------------------------------
(* What makes the shard serve every acknowledged update. *)

(* A row is a message of the log. *)
InLog(row) ==
  /\ row.offset < Len(log[row.partition])
  /\ log[row.partition][row.offset + 1] = row.primary_key

RowsAreInLog ==
  /\ \A g \in Generations : \A i \in 1 .. Len(tables[g].rows) : InLog(tables[g].rows[i].row)
  /\ \A k \in Keys : acknowledged[k] \in UpdateRows => InLog(acknowledged[k])
  /\ message # NoRow =>
       /\ InLog(message)
       /\ next[message.partition] = message.offset + 1
       /\ folded[message.partition] <= message.offset

(* A row that only a stream that goes back behind the last cutover could   *)
(* deliver again.                                                          *)
IsFolded(row) == row \in UpdateRows => row.offset < folded[row.partition]

LayersAreFolded ==
  \A k \in Keys : /\ IsFolded(SnapshotRow(serving.compact, k))
                  /\ IsFolded(SnapshotRow(serving.full, k))

StreamIsServed == StreamTarget = serving.generation

ServingRow(k) == tables[serving.generation].latest[k]

SuccessorRow(k) == tables[job.successor].latest[k]

(* The serving table has the message, a later target does not yet. *)
HalfApplied == message # NoRow /\ pending # targets

(* What a lookup finds while a message is on its way. *)
ServesTheStream ==
  \A k \in Keys :
    Get(serving, k) = IF HalfApplied /\ k = message.primary_key
                        THEN Newest(acknowledged[k], message) ELSE acknowledged[k]

HalfAppliedIsServed ==
  HalfApplied =>
    /\ ServingRow(message.primary_key) # NoRow
    /\ ServingRow(message.primary_key).partition = message.partition
    /\ message.offset <= ServingRow(message.primary_key).offset

(* The second target is never ahead of the first, so it refuses nothing    *)
(* that the first has accepted.                                            *)
SuccessorIsContained ==
  job.kind # "none" =>
    \A k \in Keys : SuccessorRow(k) # NoRow =>
      /\ ServingRow(k) # NoRow
      /\ SuccessorRow(k).partition = ServingRow(k).partition
      /\ SuccessorRow(k).offset <= ServingRow(k).offset

BoundaryRows == ScanVisibleRows(tables[job.previous.generation], job.boundary)

(* The successor's table over the rows up to the boundary is the serving   *)
(* table, ...                                                              *)
HasCaughtUp(k) ==
  ServingRow(k) = IF SuccessorRow(k) # NoRow THEN SuccessorRow(k) ELSE BoundaryRows[k]

(* ... or it is behind, by a row it is being given or that the consumer    *)
(* went back before.                                                       *)
WillCatchUp(k) ==
  /\ ServingRow(k) # NoRow
  /\ SuccessorRow(k) # NoRow =>
       /\ SuccessorRow(k).partition = ServingRow(k).partition
       /\ SuccessorRow(k).offset < ServingRow(k).offset
  /\ \/ message = ServingRow(k)
     \/ /\ SuccessorRow(k) # NoRow
        /\ next[ServingRow(k).partition] <= ServingRow(k).offset

SuccessorFollows ==
  job.kind # "none" /\ serving = job.previous =>
    \A k \in Keys : HasCaughtUp(k) \/ WillCatchUp(k)

SnapshotIsBuilt ==
  /\ job.built /\ job.kind = "compaction" =>
       job.snapshot = CompactedRows(job.previous, job.boundary)
  /\ job.built /\ job.kind = "rebase" =>
       /\ job.previous.full # NoSnapshot
       /\ job.snapshot = Over(RowsOf(job.previous.compact), job.previous.full)

(* The generation that a lookup holds on to is the serving one, or it is   *)
(* one that nobody writes to or will serve again.                          *)
ReaderOK ==
  reader.key # NoRow =>
    /\ reader.key \in Keys /\ reader.state \in ShardStates
    /\ reader.state.generation \in 1 .. next_generation - 1
    /\ job.kind # "none" => reader.state.generation # job.successor
    /\ load.active => reader.state.generation # load.generation
    /\ reader.state.generation = serving.generation => reader.state = serving

ServeInv ==
  /\ RowsAreInLog /\ LayersAreFolded /\ StreamIsServed
  /\ ServesTheStream /\ HalfAppliedIsServed
  /\ SuccessorIsContained /\ SuccessorFollows /\ SnapshotIsBuilt
  /\ ReaderOK

(* No load has cut over and the stream did not go back behind a cutover. *)
Undisturbed == ~replayed /\ ~loaded

ServeInvWhileUndisturbed == Undisturbed => ServeInv

-----------------------------------------------------------------------------
(* Rows and realtime tables. *)

LEMMA RowFacts ==
  /\ \A r \in UpdateRows : /\ r # NoRow /\ r.primary_key \in Keys
                           /\ r.partition \in Partitions /\ r.partition \in Nat
                           /\ r.offset \in Nat /\ r.offset < MaxMessages
  /\ \A r, s \in UpdateRows : r.primary_key = s.primary_key /\ r.partition = s.partition
                              /\ r.offset = s.offset => r = s
  /\ \A k \in Keys : /\ ArtifactRow(k) # NoRow /\ ArtifactRow(k) \notin UpdateRows
                     /\ ArtifactRow(k).partition = -1
<1>1. \A r \in UpdateRows : /\ r # NoRow /\ r.primary_key \in Keys
                            /\ r.partition \in Partitions /\ r.partition \in Nat
                            /\ r.offset \in Nat /\ r.offset < MaxMessages
  BY ShardAssumption DEF UpdateRows
<1>2. \A r, s \in UpdateRows : r.primary_key = s.primary_key /\ r.partition = s.partition
                              /\ r.offset = s.offset => r = s
  BY DEF UpdateRows
<1>3. \A k \in Keys : ArtifactRow(k) # NoRow /\ ArtifactRow(k).partition = -1
  BY ShardAssumption DEF ArtifactRow
<1>4. \A k \in Keys : ArtifactRow(k) \notin UpdateRows
  BY <1>1, <1>3
<1>5. QED
  BY <1>1, <1>2, <1>3, <1>4

LEMMA ClassifyFacts ==
  ASSUME NEW a \in UpdateRows, NEW b \in UpdateRows
  PROVE  /\ ClassifySourcePositionUpdate(a, b) = "kNewer"
              <=> a.partition = b.partition /\ a.offset < b.offset
         /\ ClassifySourcePositionUpdate(a, b) \in {"kStale", "kIdempotent"}
              <=> a.partition = b.partition /\ b.offset <= a.offset
<1>1. IsValidSourcePosition(a) /\ IsValidSourcePosition(b)
  BY RowFacts DEF IsValidSourcePosition
<1>2. a.offset \in Nat /\ b.offset \in Nat
  BY RowFacts
<1>3. QED
  BY <1>1, <1>2 DEF ClassifySourcePositionUpdate

Fits(table, row) ==
  \/ table.latest[row.primary_key] = NoRow /\ KeyCount(table) < Capacity
  \/ /\ table.latest[row.primary_key] # NoRow
     /\ table.latest[row.primary_key].partition = row.partition

Replaces(table, row) ==
  /\ Fits(table, row)
  /\ table.latest[row.primary_key] # NoRow =>
       table.latest[row.primary_key].offset < row.offset

(* What Publish does, in terms of partitions and offsets. *)
LEMMA PublishFacts ==
  ASSUME NEW table \in Tables, NEW row \in UpdateRows
  PROVE  /\ PublishSucceeds(table, row) <=> Fits(table, row)
         /\ (PublishAndReport(table, row) = "kTrue") <=> Replaces(table, row)
         /\ Publish(table, row) \in Tables
         /\ Publish(table, row).rows
              = Append(table.rows, [row |-> row, sealed_visible |-> Replaces(table, row)])
         /\ Len(Publish(table, row).rows) = Len(table.rows) + 1
         /\ \A k \in Keys :
              Publish(table, row).latest[k]
                = IF k = row.primary_key /\ Replaces(table, row) THEN row ELSE table.latest[k]
<1> DEFINE c == table.latest[row.primary_key]
<1>1. row.primary_key \in Keys /\ row # NoRow
  BY RowFacts
<1>2. c \in UpdateRows \cup {NoRow} /\ table.rows \in Seq(Entries)
  BY <1>1 DEF Tables
<1>3. (PublishAndReport(table, row) = "kTrue") <=> Replaces(table, row)
  <2>1. CASE c = NoRow
    BY <2>1 DEF PublishAndReport, Replaces, Fits
  <2>2. CASE c # NoRow
    <3>1. c \in UpdateRows
      BY <1>2, <2>2
    <3>2. QED
      BY <2>2, <3>1, ClassifyFacts DEF PublishAndReport, Replaces, Fits
  <2>3. QED
    BY <2>1, <2>2
<1>4. PublishSucceeds(table, row) <=> Fits(table, row)
  <2>1. CASE c = NoRow
    BY <2>1 DEF PublishSucceeds, PublishAndReport, Fits
  <2>2. CASE c # NoRow
    <3>1. c \in UpdateRows
      BY <1>2, <2>2
    <3>2. ClassifySourcePositionUpdate(c, row) \in {"kNewer", "kStale", "kIdempotent"}
            <=> c.partition = row.partition
      <4>1. c.offset \in Nat /\ row.offset \in Nat
        BY <3>1, RowFacts
      <4>2. QED
        BY <3>1, <4>1, ClassifyFacts
    <3>3. QED
      BY <2>2, <3>2 DEF PublishSucceeds, PublishAndReport, Fits
  <2>3. QED
    BY <2>1, <2>2
<1>5. Replaces(table, row) \in BOOLEAN
  BY DEF Replaces, Fits
<1> DEFINE e == [row |-> row, sealed_visible |-> Replaces(table, row)]
<1>6. Publish(table, row) = [rows |-> Append(table.rows, e),
        latest |-> IF Replaces(table, row) THEN [table.latest EXCEPT ![row.primary_key] = row]
                   ELSE table.latest]
  <2>1. (PublishAndReport(table, row) = "kTrue") = Replaces(table, row)
    BY <1>3, <1>5
  <2>2. QED
    BY <2>1 DEF Publish
<1>7. e \in Entries
  BY <1>5 DEF Entries
<1>8. Append(table.rows, e) \in Seq(Entries) /\ Len(Append(table.rows, e)) = Len(table.rows) + 1
  BY <1>2, <1>7
<1>9. table.latest \in [Keys -> UpdateRows \cup {NoRow}]
  BY DEF Tables
<1>10. [table.latest EXCEPT ![row.primary_key] = row] \in [Keys -> UpdateRows \cup {NoRow}]
  BY <1>1, <1>9
<1>11. Publish(table, row) \in Tables
  BY <1>6, <1>8, <1>9, <1>10 DEF Tables
<1>12. \A k \in Keys :
         Publish(table, row).latest[k]
           = IF k = row.primary_key /\ Replaces(table, row) THEN row ELSE table.latest[k]
  BY <1>6, <1>9
<1>13. QED
  BY <1>3, <1>4, <1>6, <1>8, <1>11, <1>12

LEMMA SealedMember ==
  ASSUME NEW table, NEW b, NEW k, NEW r
  PROVE  r \in SealedRows(table, b, k) <=>
           \E i \in 1 .. Len(table.rows) :
             /\ i <= b /\ table.rows[i].sealed_visible
             /\ table.rows[i].row.primary_key = k
             /\ r = table.rows[i].row
BY DEF SealedRows

(* Publish appends: the rows up to an earlier boundary stay, and a scan of *)
(* all rows finds the new one when it was sealed.                          *)
LEMMA SealedByPublish ==
  ASSUME NEW table \in Tables, NEW row \in UpdateRows, NEW k \in Keys
  PROVE  /\ \A b \in 0 .. Len(table.rows) :
              SealedRows(Publish(table, row), b, k) = SealedRows(table, b, k)
         /\ SealedRowsOf(Publish(table, row), k)
              = SealedRowsOf(table, k) \cup
                  (IF k = row.primary_key /\ Replaces(table, row) THEN {row} ELSE {})
<1> DEFINE new == Publish(table, row)
           n == Len(table.rows)
<1>1. table.rows \in Seq(Entries) /\ n \in Nat
  BY DEF Tables
<1>2. /\ Len(new.rows) = n + 1
      /\ \A i \in 1 .. n : new.rows[i] = table.rows[i]
      /\ new.rows[n + 1] = [row |-> row, sealed_visible |-> Replaces(table, row)]
  <2>1. new.rows = Append(table.rows, [row |-> row, sealed_visible |-> Replaces(table, row)])
    BY PublishFacts
  <2>2. QED
    BY <1>1, <2>1
<1> HIDE DEF new
<1>3. \A b \in 0 .. n : SealedRows(new, b, k) = SealedRows(table, b, k)
  <2> SUFFICES ASSUME NEW b \in 0 .. n PROVE SealedRows(new, b, k) = SealedRows(table, b, k)
    OBVIOUS
  <2>1. ASSUME NEW r PROVE r \in SealedRows(new, b, k) <=> r \in SealedRows(table, b, k)
    <3>1. r \in SealedRows(new, b, k) <=>
            \E i \in 1 .. (n + 1) : /\ i <= b /\ new.rows[i].sealed_visible
                                    /\ new.rows[i].row.primary_key = k
                                    /\ r = new.rows[i].row
      BY <1>2, SealedMember
    <3>2. r \in SealedRows(table, b, k) <=>
            \E i \in 1 .. n : /\ i <= b /\ table.rows[i].sealed_visible
                              /\ table.rows[i].row.primary_key = k
                              /\ r = table.rows[i].row
      BY SealedMember
    <3>3. \A i \in 1 .. (n + 1) : i <= b => i \in 1 .. n /\ new.rows[i] = table.rows[i]
      BY <1>1, <1>2
    <3>4. \A i \in 1 .. n : i \in 1 .. (n + 1) /\ new.rows[i] = table.rows[i]
      BY <1>1, <1>2
    <3> HIDE DEF n
    <3>5. QED
      BY <3>1, <3>2, <3>3, <3>4
  <2>2. QED
    BY <2>1
<1>4. SealedRowsOf(new, k) = SealedRows(new, n, k) \cup
        (IF new.rows[n + 1].sealed_visible /\ new.rows[n + 1].row.primary_key = k
           THEN {new.rows[n + 1].row} ELSE {})
  <2>1. 1 .. (n + 1) = 1 .. n \cup {n + 1}
    BY <1>1
  <2>2. QED
    BY <1>1, <1>2, <2>1 DEF SealedRowsOf, SealedRows
<1>5. QED
  BY <1>1, <1>2, <1>3, <1>4 DEF new, SealedRowsOf

LEMMA SealedAreUpdates ==
  ASSUME NEW table \in Tables, NEW b \in Nat, NEW k \in Keys, NEW r \in SealedRows(table, b, k)
  PROVE  /\ r \in UpdateRows /\ r.primary_key = k
         /\ \E i \in 1 .. Len(table.rows) : r = table.rows[i].row
         /\ r \in SealedRowsOf(table, k)
<1>1. table.rows \in Seq(Entries) /\ Len(table.rows) \in Nat
  BY DEF Tables
<1>2. PICK i \in 1 .. Len(table.rows) : /\ i <= b /\ table.rows[i].sealed_visible
                                        /\ table.rows[i].row.primary_key = k
                                        /\ r = table.rows[i].row
  BY SealedMember
<1>3. table.rows[i] \in Entries
  BY <1>1
<1>4. r \in UpdateRows
  BY <1>2, <1>3 DEF Entries
<1>5. i <= Len(table.rows)
  BY <1>1
<1>6. r \in SealedRowsOf(table, k)
  BY <1>2, <1>5, SealedMember DEF SealedRowsOf
<1>7. QED
  BY <1>2, <1>4, <1>6

(* The map stays the newest sealed row of each key, ... *)
LEMMA PublishKeepsLatest ==
  ASSUME NEW table \in Tables, NEW row \in UpdateRows, LatestIsNewestSealed(table)
  PROVE  LatestIsNewestSealed(Publish(table, row))
<1> DEFINE new == Publish(table, row)
           c == table.latest[row.primary_key]
<1>1. /\ \A k \in Keys : new.latest[k]
           = IF k = row.primary_key /\ Replaces(table, row) THEN row ELSE table.latest[k]
      /\ \A k \in Keys : SealedRowsOf(new, k) = SealedRowsOf(table, k) \cup
           (IF k = row.primary_key /\ Replaces(table, row) THEN {row} ELSE {})
  BY PublishFacts, SealedByPublish
<1>2. row.primary_key \in Keys /\ row \in UpdateRows /\ row # NoRow /\ row.offset \in Nat
  BY RowFacts
<1> HIDE DEF new
<1> SUFFICES ASSUME NEW k \in Keys
             PROVE  /\ new.latest[k] = NoRow => SealedRowsOf(new, k) = {}
                    /\ new.latest[k] # NoRow =>
                         /\ new.latest[k] \in SealedRowsOf(new, k)
                         /\ \A s \in SealedRowsOf(new, k) :
                              /\ s.partition = new.latest[k].partition
                              /\ s.offset <= new.latest[k].offset
  BY DEF LatestIsNewestSealed, new
<1>3. CASE ~(k = row.primary_key /\ Replaces(table, row))
  <2>1. new.latest[k] = table.latest[k] /\ SealedRowsOf(new, k) = SealedRowsOf(table, k)
    BY <1>1, <1>3
  <2>2. QED
    BY <2>1 DEF LatestIsNewestSealed
<1>4. CASE k = row.primary_key /\ Replaces(table, row)
  <2>1. new.latest[k] = row /\ SealedRowsOf(new, k) = SealedRowsOf(table, k) \cup {row}
    BY <1>1, <1>4
  <2>2. ASSUME NEW s \in SealedRowsOf(table, k)
        PROVE  s.partition = row.partition /\ s.offset <= row.offset
    <3>1. c # NoRow /\ s.partition = c.partition /\ s.offset <= c.offset
      BY <1>4 DEF LatestIsNewestSealed
    <3>2. c.partition = row.partition /\ c.offset < row.offset
      BY <1>4, <3>1 DEF Replaces, Fits
    <3>3. c \in UpdateRows
      BY <1>2, <3>1 DEF Tables
    <3>4. Len(table.rows) \in Nat
      BY DEF Tables
    <3>5. s \in UpdateRows
      BY <3>4, SealedAreUpdates DEF SealedRowsOf
    <3>6. s.offset \in Nat /\ c.offset \in Nat
      BY <3>3, <3>5, RowFacts
    <3>7. QED
      BY <1>2, <3>1, <3>2, <3>6
  <2>3. QED
    BY <1>2, <2>1, <2>2
<1>5. QED
  BY <1>3, <1>4

KeysOf(table) == {k \in Keys : table.latest[k] # NoRow}

LEMMA KeysOfFinite ==
  ASSUME NEW table
  PROVE  IsFiniteSet(KeysOf(table)) /\ KeyCount(table) = Cardinality(KeysOf(table))
         /\ KeyCount(table) \in Nat
<1>1. IsFiniteSet(KeysOf(table))
  BY ShardAssumption, FS_Subset DEF KeysOf
<1>2. QED
  BY <1>1, FS_CardinalityType DEF KeyCount, KeysOf

(* ... and a table never has more keys than its capacity. *)
LEMMA PublishKeepsKeyCount ==
  ASSUME NEW table \in Tables, NEW row \in UpdateRows, KeyCount(table) <= Capacity
  PROVE  KeyCount(Publish(table, row)) <= Capacity
<1> DEFINE new == Publish(table, row)
           k == row.primary_key
<1>1. \A j \in Keys : new.latest[j]
        = IF j = k /\ Replaces(table, row) THEN row ELSE table.latest[j]
  BY PublishFacts
<1>2. k \in Keys /\ row # NoRow
  BY RowFacts
<1> HIDE DEF new
<1>3. CASE Replaces(table, row) /\ table.latest[k] = NoRow
  <2>1. KeysOf(new) = KeysOf(table) \cup {k} /\ k \notin KeysOf(table)
    BY <1>1, <1>2, <1>3 DEF KeysOf
  <2>2. Cardinality(KeysOf(new)) = Cardinality(KeysOf(table)) + 1
    BY <2>1, KeysOfFinite, FS_AddElement
  <2>3. KeyCount(table) < Capacity
    BY <1>3 DEF Replaces, Fits
  <2>4. QED
    BY <2>2, <2>3, KeysOfFinite, ShardAssumption DEF new
<1>4. CASE ~(Replaces(table, row) /\ table.latest[k] = NoRow)
  <2>1. KeysOf(new) = KeysOf(table)
    BY <1>1, <1>2, <1>4 DEF KeysOf
  <2>2. QED
    BY <2>1, KeysOfFinite DEF new
<1>5. QED
  BY <1>3, <1>4

LEMMA EmptyTableOK ==
  /\ EmptyTable \in Tables /\ LatestIsNewestSealed(EmptyTable) /\ KeyCount(EmptyTable) <= Capacity
<1>1. EmptyTable \in Tables /\ EmptyTable.rows = <<>>
      /\ \A k \in Keys : EmptyTable.latest[k] = NoRow
  BY DEF EmptyTable, Tables
<1>2. LatestIsNewestSealed(EmptyTable)
  <2>1. \A k \in Keys : \A r : r \notin SealedRowsOf(EmptyTable, k)
    BY <1>1, SealedMember DEF SealedRowsOf
  <2>2. QED
    BY <1>1, <2>1 DEF LatestIsNewestSealed
<1>3. KeysOf(EmptyTable) = {}
  BY <1>1 DEF KeysOf
<1>4. KeyCount(EmptyTable) = 0
  BY <1>3, KeysOfFinite, FS_EmptySet
<1>5. QED
  BY <1>1, <1>2, <1>4, ShardAssumption

(* A scan of all rows finds what the map has. *)
LEMMA ScanFindsLatest ==
  ASSUME NEW table \in Tables, LatestIsNewestSealed(table)
  PROVE  /\ ScanSucceeds(table, Len(table.rows))
         /\ ScanVisibleRows(table, Len(table.rows)) = table.latest
<1>0. Len(table.rows) \in Nat /\ table.latest \in [Keys -> UpdateRows \cup {NoRow}]
  BY DEF Tables
<1>1. ScanSucceeds(table, Len(table.rows))
  BY DEF ScanSucceeds, LatestIsNewestSealed, SealedRowsOf
<1>2. ASSUME NEW k \in Keys
      PROVE  table.latest[k] =
               LET sealed == SealedRowsOf(table, k) IN
               IF sealed = {} THEN NoRow
               ELSE CHOOSE r \in sealed : \A s \in sealed : ~IsNewer(r, s)
  <2> DEFINE sealed == SealedRowsOf(table, k)
             c == table.latest[k]
  <2>1. CASE c = NoRow
    BY <2>1 DEF LatestIsNewestSealed
  <2>2. CASE c # NoRow
    <3>1. /\ c \in sealed
          /\ \A s \in sealed : s.partition = c.partition /\ s.offset <= c.offset
      BY <2>2 DEF LatestIsNewestSealed
    <3>2. \A s \in sealed : s \in UpdateRows /\ s.primary_key = k
      BY <1>0, SealedAreUpdates DEF SealedRowsOf
    <3> HIDE DEF sealed
    <3>3. \A r, s \in sealed : IsNewer(r, s) <=> r.partition = s.partition /\ r.offset < s.offset
      BY <3>2, ClassifyFacts DEF IsNewer
    <3>4. \A s \in sealed : ~IsNewer(c, s)
      <4>1. \A s \in sealed : s.offset \in Nat
        BY <3>2, RowFacts
      <4>2. QED
        BY <3>1, <3>3, <4>1
    <3>5. ASSUME NEW r \in sealed, \A s \in sealed : ~IsNewer(r, s) PROVE r = c
      <4>1. ~IsNewer(r, c) /\ r.partition = c.partition /\ r.offset <= c.offset
        BY <3>1, <3>5
      <4>2. r.offset \in Nat /\ c.offset \in Nat /\ r.primary_key = c.primary_key
        BY <3>1, <3>2, RowFacts
      <4>3. r.offset = c.offset
        BY <3>1, <3>3, <4>1, <4>2
      <4>4. QED
        BY <3>1, <3>2, <4>1, <4>2, <4>3, RowFacts
    <3>6. c = CHOOSE r \in sealed : \A s \in sealed : ~IsNewer(r, s)
      BY <3>1, <3>4, <3>5
    <3>7. QED
      BY <3>1, <3>6 DEF sealed
  <2>3. QED
    BY <2>1, <2>2
<1>3. QED
  BY <1>0, <1>1, <1>2 DEF ScanVisibleRows, SealedRowsOf

LEMMA FirstFullFacts ==
  ASSUME NEW k \in Keys
  PROVE  /\ FirstFull[k] \in SomeRows /\ FirstFull[k] \notin UpdateRows
         /\ FirstFull[k] \in {NoRow, ArtifactRow(k)}
BY RowFacts, ShardAssumption DEF FirstFull, SomeRows

(* The bound on the log. *)
LEMMA MessageBound ==
  ASSUME NEW p \in Partitions, MessageCount < MaxMessages, Len(log[p]) \in Nat
  PROVE  Len(log[p]) < MaxMessages
<1> SUFFICES ASSUME Len(log[p]) >= MaxMessages PROVE FALSE
  BY ShardAssumption
<1> DEFINE M == {m \in Partitions \X (1 .. MaxMessages) : m[2] <= Len(log[m[1]])}
           f == [i \in 1 .. MaxMessages |-> <<p, i>>]
<1>1. f \in Injection(1 .. MaxMessages, M)
  <2>1. \A i \in 1 .. MaxMessages : <<p, i>> \in M
    BY ShardAssumption
  <2>2. f \in [1 .. MaxMessages -> M]
    BY <2>1
  <2>3. \A i, j \in 1 .. MaxMessages : f[i] = f[j] => i = j
    OBVIOUS
  <2>4. QED
    BY <2>2, <2>3 DEF Injection, IsInjective
<1>2. IsFiniteSet(M)
  <2>1. IsFiniteSet(1 .. MaxMessages)
    BY ShardAssumption, FS_Interval
  <2>2. IsFiniteSet(Partitions \X (1 .. MaxMessages))
    BY <2>1, ShardAssumption, FS_Product
  <2>3. QED
    BY <2>2, FS_Subset
<1> HIDE DEF f, M
<1>3. Cardinality(1 .. MaxMessages) <= Cardinality(M)
  BY <1>1, <1>2, FS_Injection
<1>4. Cardinality(1 .. MaxMessages) = MaxMessages
  BY ShardAssumption, FS_Interval
<1>5. Cardinality(M) \in Nat
  BY <1>2, FS_CardinalityType
<1>6. MessageCount = Cardinality(M)
  BY DEF MessageCount, M
<1>7. QED
  BY <1>3, <1>4, <1>5, <1>6, ShardAssumption

-----------------------------------------------------------------------------
(* Snapshots. *)

LEMMA ScanType ==
  ASSUME NEW table \in Tables, LatestIsNewestSealed(table), NEW b \in Nat
  PROVE  /\ ScanVisibleRows(table, b) \in [Keys -> UpdateRows \cup {NoRow}]
         /\ \A k \in Keys : ScanVisibleRows(table, b)[k] # NoRow =>
              ScanVisibleRows(table, b)[k] \in SealedRows(table, b, k)
<1> SUFFICES ASSUME NEW k \in Keys
             PROVE  \/ ScanVisibleRows(table, b)[k] = NoRow
                    \/ /\ ScanVisibleRows(table, b)[k] \in UpdateRows
                       /\ ScanVisibleRows(table, b)[k] \in SealedRows(table, b, k)
  <2> SUFFICES \A k \in Keys : ScanVisibleRows(table, b)[k] \in UpdateRows \cup {NoRow}
    BY DEF ScanVisibleRows
  <2> QED
    OBVIOUS
<1> DEFINE sealed == SealedRows(table, b, k)
<1>1. ScanVisibleRows(table, b)[k]
        = IF sealed = {} THEN NoRow ELSE CHOOSE r \in sealed : \A s \in sealed : ~IsNewer(r, s)
  BY DEF ScanVisibleRows
<1>2. \A r \in sealed : r \in UpdateRows /\ r \in SealedRowsOf(table, k)
  BY SealedAreUpdates
<1> HIDE DEF sealed
<1>3. CASE sealed = {}
  BY <1>1, <1>3
<1>4. CASE sealed # {}
  <2> DEFINE offsets == {r.offset : r \in sealed}
  <2>1. offsets \in SUBSET Nat /\ offsets # {} /\ \A n \in offsets : n <= MaxMessages
    BY <1>2, <1>4, RowFacts, ShardAssumption
  <2> HIDE DEF offsets
  <2>2. PICK n \in offsets : \A m \in offsets : m <= n
    BY <2>1, LargestNumber, ShardAssumption
  <2>3. PICK r \in sealed : r.offset = n
    BY <2>2 DEF offsets
  <2>4. \A s \in sealed : s.offset <= r.offset /\ s.offset \in Nat
    BY <2>2, <2>3, <1>2, RowFacts DEF offsets
  <2>5. \A s \in sealed : ~IsNewer(r, s)
    BY <1>2, <2>3, <2>4, ClassifyFacts, RowFacts DEF IsNewer
  <2>6. (CHOOSE r1 \in sealed : \A s \in sealed : ~IsNewer(r1, s)) \in sealed
    BY <2>3, <2>5
  <2>7. QED
    BY <1>1, <1>2, <1>4, <2>6 DEF sealed
<1>5. QED
  BY <1>3, <1>4

LEMMA SnapshotTypes ==
  /\ \A s \in RowMaps \cup {NoSnapshot} : RowsOf(s) \in RowMaps
  /\ \A u, l \in RowMaps : Over(u, l) \in RowMaps
  /\ [Keys -> UpdateRows \cup {NoRow}] \subseteq RowMaps
  /\ FirstFull \in RowMaps
<1>1. NoRow \in SomeRows /\ UpdateRows \subseteq SomeRows
  BY DEF SomeRows
<1>2. \A s \in RowMaps \cup {NoSnapshot} : RowsOf(s) \in RowMaps
  BY <1>1 DEF RowsOf, SnapshotRow, RowMaps
<1>3. \A u, l \in RowMaps : Over(u, l) \in RowMaps
  BY DEF Over, RowMaps
<1>4. [Keys -> UpdateRows \cup {NoRow}] \subseteq RowMaps
  BY <1>1 DEF RowMaps
<1>5. FirstFull \in RowMaps
  BY FirstFullFacts DEF FirstFull, RowMaps
<1>6. QED
  BY <1>2, <1>3, <1>4, <1>5

-----------------------------------------------------------------------------
(* The structural invariant is preserved. *)

LEMMA NoLoadFacts ==
  /\ ~NoLoad.active
  /\ NoLoad \in [active : BOOLEAN, generation : Generations \cup {NoGeneration},
                 position : [Partitions -> Nat]]
BY DEF NoLoad, Nowhere

LEMMA InitShardInv == Init => ShardInv
<1> SUFFICES ASSUME Init PROVE ShardInv
  OBVIOUS
<1>1. TablesOK
  BY EmptyTableOK DEF Init, TablesOK
<1>2. StreamOK
  <2>1. <<>> \in Seq(Keys) /\ Len(<<>>) = 0
    OBVIOUS
  <2>2. /\ log \in [Partitions -> Seq(Keys)]
        /\ next \in [Partitions -> Nat] /\ committed \in [Partitions -> Nat]
    BY <2>1 DEF Init, Nowhere
  <2>3. \A p \in Partitions : committed[p] = 0 /\ next[p] = 0 /\ Len(log[p]) = 0
    BY <2>1 DEF Init, Nowhere
  <2>4. message \in UpdateRows \cup {NoRow} /\ apply_failed \in BOOLEAN
    BY DEF Init
  <2>5. \A p \in Partitions : /\ committed[p] <= next[p]
                              /\ next[p] <= Len(log[p])
                              /\ Len(log[p]) <= MaxMessages
    BY <2>3, ShardAssumption
  <2>6. QED
    BY <2>2, <2>4, <2>5 DEF StreamOK
<1>3. AcknowledgedOK
  BY SnapshotTypes DEF Init, AcknowledgedOK
<1>4. GenerationsOK
  <2>1. NoJob \in Jobs /\ NoJob.kind = "none" /\ ~NoJob.built
    BY DEF NoJob, Jobs, ShardStates
  <2>2. serving \in ShardStates /\ serving.generation = 1
    BY SnapshotTypes, ShardAssumption DEF Init, ShardStates, Generations
  <2>3. QED
    BY <2>1, <2>2, ShardAssumption DEF Init, GenerationsOK
<1>5. TargetsOK
  <2>1. Head(<<1>>) = 1
    OBVIOUS
  <2>2. StreamTarget = 1 /\ next_generation = 2
    BY <2>1 DEF Init, StreamTarget
  <2>3. QED
    BY <2>2 DEF Init, TargetsOK, NoJob
<1>6. HistoryOK
  <2>1. folded \in [Partitions -> Nat] /\ \A p \in Partitions : folded[p] = 0
    BY DEF Init, Nowhere
  <2>2. \A p \in Partitions : Len(log[p]) \in Nat
    BY <1>2 DEF StreamOK
  <2>3. \A p \in Partitions : folded[p] <= Len(log[p])
    BY <2>1, <2>2
  <2>4. replayed \in BOOLEAN /\ loaded \in BOOLEAN
    BY DEF Init
  <2>5. QED
    BY <2>1, <2>3, <2>4 DEF HistoryOK
<1>7. LoadOK
  BY NoLoadFacts DEF Init, LoadOK
<1>8. QED
  BY <1>1, <1>2, <1>3, <1>4, <1>5, <1>6, <1>7 DEF ShardInv

(* Lookups do not touch the shard. *)
LEMMA LookupShardInv ==
  ASSUME ShardInv, UNCHANGED <<stream, history, tables, serving, driver, load>>
  PROVE  ShardInv'
<1>1. TablesOK'
  BY DEF ShardInv, TablesOK, driver
<1>2. StreamOK' /\ AcknowledgedOK' /\ HistoryOK'
  BY DEF ShardInv, StreamOK, AcknowledgedOK, HistoryOK, stream, history
<1>3. GenerationsOK' /\ TargetsOK' /\ LoadOK'
  BY DEF ShardInv, GenerationsOK, TargetsOK, LoadOK, StreamTarget, stream, driver, history
<1>4. QED
  BY <1>1, <1>2, <1>3 DEF ShardInv

(* One table is replaced or grows. *)
LEMMA TableShardInv ==
  ASSUME ShardInv, NEW g \in Generations, g < next_generation, NEW t \in Tables,
         LatestIsNewestSealed(t), KeyCount(t) <= Capacity,
         tables' = [tables EXCEPT ![g] = t], next_generation' = next_generation
  PROVE  /\ TablesOK'
         /\ tables'[g] = t /\ \A h \in Generations : h # g => tables'[h] = tables[h]
<1>1. tables \in [Generations -> Tables] /\ next_generation \in Int /\ g \in Int
  BY DEF ShardInv, TablesOK, GenerationsOK, Generations
<1>2. tables'[g] = t /\ \A h \in Generations : h # g => tables'[h] = tables[h]
  BY <1>1
<1>3. tables' \in [Generations -> Tables]
  BY <1>1
<1>4. ASSUME NEW h \in Generations
      PROVE  /\ LatestIsNewestSealed(tables'[h]) /\ KeyCount(tables'[h]) <= Capacity
             /\ h >= next_generation' => tables'[h] = EmptyTable
  <2>1. CASE h = g
    <3>1. ~(h >= next_generation')
      BY <1>1, <2>1
    <3>2. QED
      BY <1>2, <2>1, <3>1
  <2>2. CASE h # g
    <3>1. tables'[h] = tables[h]
      BY <1>2, <2>2
    <3>2. QED
      BY <3>1 DEF ShardInv, TablesOK
  <2>3. QED
    BY <2>1, <2>2
<1>5. TablesOK'
  BY <1>3, <1>4 DEF TablesOK, LatestIsNewestSealed, KeyCount, SealedRowsOf
<1>6. QED
  BY <1>2, <1>5

LEMMA DeliverShardInv ==
  ASSUME ShardInv, NEW p \in Partitions, NEW k \in Keys, Deliver(p, k)
  PROVE  ShardInv'
<1> DEFINE o == next[p]
<1>0. /\ log \in [Partitions -> Seq(Keys)] /\ next \in [Partitions -> Nat]
      /\ o \in Nat /\ o <= Len(log[p]) /\ Len(log[p]) \in Nat /\ Len(log[p]) <= MaxMessages
  BY DEF ShardInv, StreamOK
<1>1. TablesOK'
  BY DEF Deliver, driver, ShardInv, TablesOK
<1>2. StreamOK' /\ o < MaxMessages
  <2>1. CASE o < Len(log[p])
    <3>1. log' = log /\ next' = [next EXCEPT ![p] = o + 1] /\ committed' = committed
      BY <2>1 DEF Deliver
    <3>2. message' \in UpdateRows /\ apply_failed' \in BOOLEAN
      BY <1>0, <2>1, ShardAssumption DEF Deliver, UpdateRows, ShardInv, StreamOK
    <3>3. QED
      BY <1>0, <2>1, <3>1, <3>2, ShardAssumption DEF ShardInv, StreamOK
  <2>2. CASE ~(o < Len(log[p]))
    <3>1. /\ log' = [log EXCEPT ![p] = Append(@, k)]
          /\ next' = [next EXCEPT ![p] = o + 1] /\ committed' = committed
          /\ MessageCount < MaxMessages
      BY <2>2 DEF Deliver
    <3>2. o = Len(log[p]) /\ Len(log[p]) < MaxMessages
      BY <1>0, <2>2, <3>1, MessageBound
    <3>3. message' \in UpdateRows /\ apply_failed' \in BOOLEAN
      BY <1>0, <3>2, ShardAssumption DEF Deliver, UpdateRows, ShardInv, StreamOK
    <3>4. Append(log[p], k) \in Seq(Keys) /\ Len(Append(log[p], k)) = Len(log[p]) + 1
      BY <1>0
    <3>5. log' \in [Partitions -> Seq(Keys)] /\ next' \in [Partitions -> Nat]
          /\ committed' \in [Partitions -> Nat]
      BY <1>0, <3>1, <3>4 DEF ShardInv, StreamOK
    <3>6. ASSUME NEW q \in Partitions
          PROVE  committed'[q] <= next'[q] /\ next'[q] <= Len(log'[q]) /\ Len(log'[q]) <= MaxMessages
      <4>1. /\ committed[q] \in Nat /\ next[q] \in Nat /\ Len(log[q]) \in Nat
            /\ committed[q] <= next[q] /\ next[q] <= Len(log[q]) /\ Len(log[q]) <= MaxMessages
        BY <1>0 DEF ShardInv, StreamOK
      <4>2. CASE q = p
        BY <1>0, <3>1, <3>2, <3>4, <4>1, <4>2, ShardAssumption
      <4>3. CASE q # p
        BY <1>0, <3>1, <4>1, <4>3
      <4>4. QED
        BY <4>2, <4>3
    <3>7. QED
      BY <3>2, <3>3, <3>5, <3>6 DEF StreamOK
  <2>3. QED
    BY <2>1, <2>2
<1>3. AcknowledgedOK'
  BY DEF Deliver, ShardInv, AcknowledgedOK
<1>4. GenerationsOK'
  BY DEF Deliver, driver, ShardInv, GenerationsOK
<1>5. TargetsOK' /\ LoadOK'
  <2>1. message' # NoRow
    BY <1>0, <1>2, ShardAssumption, RowFacts DEF Deliver, UpdateRows
  <2>2. QED
    BY <2>1 DEF Deliver, Idle, driver, ShardInv, TargetsOK, LoadOK, StreamTarget
<1>6. HistoryOK'
  <2>1. folded' = folded /\ loaded' = loaded /\ replayed' \in BOOLEAN
    BY DEF Deliver, ShardInv, HistoryOK
  <2>2. ASSUME NEW q \in Partitions PROVE folded[q] <= Len(log'[q])
    <3>1. folded[q] \in Nat /\ folded[q] <= Len(log[q]) /\ log[q] \in Seq(Keys)
          /\ Len(log[q]) \in Nat
      BY <1>0 DEF ShardInv, HistoryOK
    <3>2. log'[q] = log[q] \/ log'[q] = Append(log[q], k)
      BY <1>0 DEF Deliver
    <3>3. Len(Append(log[q], k)) = Len(log[q]) + 1
      BY <3>1
    <3>4. QED
      BY <3>1, <3>2, <3>3
  <2>3. QED
    BY <2>1, <2>2 DEF ShardInv, HistoryOK
<1>7. QED
  BY <1>1, <1>2, <1>3, <1>4, <1>5, <1>6 DEF ShardInv

(* The message goes to the only target, to the first of two or to the      *)
(* second of two.                                                          *)
ToOnly == job.kind = "none" /\ pending = <<StreamTarget>> /\ targets = pending

ToFirst ==
  /\ job.kind # "none" /\ pending = <<StreamTarget, job.successor>> /\ targets = pending

ToSecond ==
  /\ job.kind # "none" /\ pending = <<job.successor>>
  /\ targets = <<StreamTarget, job.successor>>

LEMMA PendingFacts ==
  ASSUME ShardInv, message # NoRow
  PROVE  /\ message \in UpdateRows
         /\ \/ ToOnly /\ Head(pending) = StreamTarget /\ Len(pending) = 1
            \/ ToFirst /\ Head(pending) = StreamTarget /\ Len(pending) # 1
                       /\ Tail(pending) = <<job.successor>>
            \/ ToSecond /\ Head(pending) = job.successor /\ Len(pending) = 1
         /\ StreamTarget \in Generations /\ StreamTarget < next_generation
         /\ job.kind # "none" => /\ job.successor \in Generations
                                 /\ job.successor < next_generation
                                 /\ job.successor # StreamTarget
<1> DEFINE a == StreamTarget
           b == job.successor
<1>1. /\ Head(<<a>>) = a /\ Len(<<a>>) = 1 /\ Head(<<b>>) = b /\ Len(<<b>>) = 1
      /\ Head(<<a, b>>) = a /\ Len(<<a, b>>) = 2 /\ Tail(<<a, b>>) = <<b>>
  OBVIOUS
<1>2. message \in UpdateRows
  BY DEF ShardInv, StreamOK
<1>3. \/ pending = targets
      \/ job.kind # "none" /\ pending = <<job.successor>>
  BY DEF ShardInv, TargetsOK
<1>4. targets = IF job.kind = "none" THEN <<StreamTarget>>
                ELSE <<StreamTarget, job.successor>>
  BY DEF ShardInv, TargetsOK
<1>5. ToOnly \/ ToFirst \/ ToSecond
  BY <1>3, <1>4 DEF ToOnly, ToFirst, ToSecond
<1>6. StreamTarget \in Generations /\ StreamTarget < next_generation
  <2>1. StreamTarget \in 1 .. next_generation - 1 /\ next_generation \in 2 .. MaxGeneration + 1
    BY DEF ShardInv, GenerationsOK, TargetsOK
  <2>2. QED
    BY <2>1, ShardAssumption DEF Generations
<1>7. job.kind # "none" => /\ job.successor \in Generations
                           /\ job.successor < next_generation
                           /\ job.successor # StreamTarget
  BY DEF ShardInv, GenerationsOK, TargetsOK
<1>8. \/ ToOnly /\ Head(pending) = StreamTarget /\ Len(pending) = 1
      \/ ToFirst /\ Head(pending) = StreamTarget /\ Len(pending) # 1
                 /\ Tail(pending) = <<job.successor>>
      \/ ToSecond /\ Head(pending) = job.successor /\ Len(pending) = 1
  <2>1. CASE ToOnly
    BY <1>1, <2>1 DEF ToOnly
  <2>2. CASE ToFirst
    <3>1. pending = <<a, b>>
      BY <2>2 DEF ToFirst
    <3>2. QED
      BY <1>1, <2>2, <3>1
  <2>3. CASE ToSecond
    BY <1>1, <2>3 DEF ToSecond
  <2>4. QED
    BY <1>5, <2>1, <2>2, <2>3
<1>9. QED
  BY <1>2, <1>6, <1>7, <1>8

LEMMA NewestType ==
  ASSUME NEW old \in SomeRows, NEW row \in UpdateRows
  PROVE  Newest(old, row) \in {old, row}
BY DEF Newest

LEMMA ApplyShardInv ==
  ASSUME ShardInv, ApplyToTarget
  PROVE  ShardInv'
<1> DEFINE g == Head(pending)
           ok == PublishSucceeds(tables[g], message)
           last == Len(pending) = 1
<1>0. message # NoRow /\ message \in UpdateRows /\ g \in Generations /\ g < next_generation
  BY PendingFacts DEF ApplyToTarget, ToSecond
<1>1. tables \in [Generations -> Tables] /\ tables[g] \in Tables
  BY <1>0 DEF ShardInv, TablesOK
<1>2. tables' = [tables EXCEPT ![g] = Publish(tables[g], message)]
  BY <1>0, <1>1 DEF ApplyToTarget
<1>3. next_generation' = next_generation /\ next_generation \in Int
  BY DEF ApplyToTarget, driver, ShardInv, GenerationsOK
<1>4. TablesOK'
  <2>1. PICK t \in Tables : t = tables[g] /\ LatestIsNewestSealed(t) /\ KeyCount(t) <= Capacity
    BY <1>0, <1>1 DEF ShardInv, TablesOK
  <2>2. /\ Publish(t, message) \in Tables
        /\ LatestIsNewestSealed(Publish(t, message))
        /\ KeyCount(Publish(t, message)) <= Capacity
    BY <1>0, <2>1, PublishFacts, PublishKeepsLatest, PublishKeepsKeyCount
  <2>3. QED
    BY <1>0, <1>2, <1>3, <2>1, <2>2, TableShardInv
<1>5. StreamOK'
  <2>1. message' \in UpdateRows \cup {NoRow}
    BY <1>0 DEF ApplyToTarget
  <2>2. apply_failed' \in BOOLEAN
    BY DEF ApplyToTarget
  <2>3. log' = log /\ next' = next /\ committed' = committed
    BY DEF ApplyToTarget
  <2>4. QED
    BY <2>1, <2>2, <2>3 DEF ShardInv, StreamOK
<1>6. AcknowledgedOK'
  <2>1. acknowledged \in [Keys -> SomeRows] /\ message.primary_key \in Keys
    BY <1>0, RowFacts DEF ShardInv, AcknowledgedOK, RowMaps
  <2> DEFINE k == message.primary_key
  <2>2. \/ acknowledged' = acknowledged
        \/ acknowledged' = [acknowledged EXCEPT ![k] = Newest(acknowledged[k], message)]
    BY <2>1 DEF ApplyToTarget
  <2>3. \/ acknowledged' = acknowledged
        \/ acknowledged' = [acknowledged EXCEPT ![k] = message]
    BY <1>0, <2>1, <2>2, NewestType
  <2>4. acknowledged' \in RowMaps
    BY <1>0, <2>1, <2>3 DEF RowMaps, SomeRows
  <2>5. \A j \in Keys : \/ acknowledged'[j] = acknowledged[j]
                        \/ j = k /\ acknowledged'[j] = message
    BY <2>1, <2>3
  <2>6. QED
    BY <1>0, <2>4, <2>5 DEF ShardInv, AcknowledgedOK
<1>7. GenerationsOK'
  <2>1. UNCHANGED <<serving, job, next_generation>>
    BY DEF ApplyToTarget, driver
  <2>2. job.kind # "none" =>
          /\ job.previous.generation \in Generations /\ job.boundary \in Nat
          /\ job.boundary <= Len(tables[job.previous.generation].rows)
    BY ShardAssumption DEF ShardInv, GenerationsOK, Jobs, Generations
  <2>3. \A h \in Generations : Len(tables[h].rows) \in Nat /\ Len(tables'[h].rows) \in Nat
                               /\ Len(tables[h].rows) <= Len(tables'[h].rows)
    <3>1. \A h \in Generations : Len(tables[h].rows) \in Nat
      BY <1>1 DEF Tables
    <3>2. Len(Publish(tables[g], message).rows) = Len(tables[g].rows) + 1
      BY <1>0, <1>1, PublishFacts
    <3>3. QED
      BY <1>0, <1>1, <1>2, <3>1, <3>2
  <2>4. job.kind # "none" => job.boundary <= Len(tables'[job.previous.generation].rows)
    BY <2>2, <2>3
  <2>5. QED
    BY <2>1, <2>4 DEF ShardInv, GenerationsOK
<1>8. TargetsOK'
  <2>0. UNCHANGED <<serving, job, targets, next_generation, loaded, StreamTarget>>
    BY DEF ApplyToTarget, driver, history, StreamTarget
  <2>1. CASE ~ok \/ last
    <3>1. message' = NoRow
      BY <2>1 DEF ApplyToTarget
    <3>2. pending' = <<>>
      <4>1. CASE ~ok
        BY <4>1 DEF ApplyToTarget
      <4>2. CASE ok /\ last
        <5>1. \A a : Tail(<<a>>) = <<>>
          OBVIOUS
        <5>2. pending' = Tail(pending)
          BY <4>2 DEF ApplyToTarget
        <5>3. pending = <<StreamTarget>> \/ pending = <<job.successor>>
          BY <1>0, <4>2, PendingFacts DEF ToOnly, ToSecond
        <5>4. QED
          BY <5>1, <5>2, <5>3
      <4>3. QED
        BY <2>1, <4>1, <4>2
    <3>3. QED
      BY <2>0, <3>1, <3>2 DEF ShardInv, TargetsOK
  <2>2. CASE ok /\ ~last
    <3>1. message' = message /\ pending' = Tail(pending) /\ ~apply_failed'
      BY <2>2 DEF ApplyToTarget
    <3>2. ToFirst /\ Tail(pending) = <<job.successor>>
      BY <1>0, <2>2, PendingFacts
    <3>3. QED
      BY <1>0, <2>0, <3>1, <3>2 DEF ToFirst, ShardInv, TargetsOK
  <2>3. QED
    BY <2>1, <2>2
<1>9. HistoryOK' /\ LoadOK'
  BY DEF ApplyToTarget, driver, history, StreamTarget, ShardInv, HistoryOK, LoadOK
<1>10. QED
  BY <1>4, <1>5, <1>6, <1>7, <1>8, <1>9 DEF ShardInv

LEMMA OffsetsShardInv ==
  ASSUME ShardInv, Commit \/ Rewind
  PROVE  ShardInv'
<1>1. UNCHANGED <<log, message, pending, acknowledged, history, tables, serving, driver, load>>
  BY DEF Commit, Rewind
<1>2. message = NoRow /\ apply_failed' \in BOOLEAN
  BY DEF Commit, Rewind, Idle, ShardInv, StreamOK
<1>3. \/ next' = next /\ committed' = next
      \/ next' = committed /\ committed' = committed
  BY DEF Commit, Rewind
<1>4. StreamOK'
  <2>1. /\ next' \in [Partitions -> Nat] /\ committed' \in [Partitions -> Nat]
        /\ \A p \in Partitions : /\ committed'[p] <= next'[p] /\ next'[p] <= Len(log[p])
                                 /\ Len(log[p]) <= MaxMessages
    <3>1. \A p \in Partitions : next[p] \in Nat /\ committed[p] \in Nat /\ Len(log[p]) \in Nat
      BY DEF ShardInv, StreamOK
    <3>2. QED
      BY <1>3, <3>1 DEF ShardInv, StreamOK
  <2>2. QED
    BY <1>1, <1>2, <2>1 DEF ShardInv, StreamOK
<1>5. TablesOK' /\ AcknowledgedOK' /\ GenerationsOK'
  BY <1>1 DEF ShardInv, TablesOK, AcknowledgedOK, GenerationsOK, driver
<1>6. TargetsOK' /\ HistoryOK' /\ LoadOK'
  BY <1>1, <1>2 DEF ShardInv, TargetsOK, HistoryOK, LoadOK, StreamTarget, driver, history
<1>7. QED
  BY <1>4, <1>5, <1>6 DEF ShardInv

LEMMA NoJobFacts ==
  /\ NoJob \in Jobs /\ NoJob.kind = "none" /\ ~NoJob.built
  /\ DOMAIN NoJob = {"kind", "built", "boundary", "successor", "previous", "snapshot"}
BY DEF NoJob, Jobs, ShardStates

LEMMA BeginJobShardInv ==
  ASSUME ShardInv, NEW kind \in {"compaction", "rebase"}, BeginJob(kind)
  PROVE  ShardInv'
<1> DEFINE b == CaptureCompactionBoundary(tables[serving.generation])
<1>0. /\ serving \in ShardStates /\ serving.generation \in Generations
      /\ serving.generation < next_generation /\ next_generation \in Generations
      /\ next_generation \in 2 .. MaxGeneration + 1
  BY ShardAssumption DEF BeginJob, ShardInv, GenerationsOK, Generations
<1>1. UNCHANGED <<stream, history, tables, serving, load>> /\ next_generation' = next_generation + 1
  BY DEF BeginJob
<1>2. b = Len(tables[serving.generation].rows) /\ b \in Nat
  BY <1>0 DEF CaptureCompactionBoundary, ShardInv, TablesOK, Tables
<1>3. /\ job'.kind = kind /\ ~job'.built /\ job'.boundary = b
      /\ job'.successor = next_generation /\ job'.previous = serving
      /\ job' \in Jobs
  <2>1. job' = [NoJob EXCEPT !.kind = kind, !.previous = serving,
                             !.successor = next_generation, !.boundary = b]
    BY DEF BeginJob
  <2>2. job' = [kind |-> kind, built |-> FALSE, boundary |-> b, successor |-> next_generation,
                previous |-> serving, snapshot |-> NoSnapshot]
    BY <2>1 DEF NoJob
  <2>3. QED
    BY <1>0, <1>2, <2>2 DEF Jobs
<1>4. TablesOK'
  BY <1>0, <1>1 DEF ShardInv, TablesOK, Generations
<1>5. StreamOK' /\ AcknowledgedOK' /\ HistoryOK'
  BY <1>1 DEF ShardInv, StreamOK, AcknowledgedOK, HistoryOK, stream, history
<1>6. GenerationsOK'
  <2>1. /\ next_generation' \in 2 .. MaxGeneration + 1
        /\ serving'.generation \in 1 .. next_generation' - 1
        /\ job'.previous.generation \in 1 .. job'.successor - 1
        /\ job'.successor < next_generation' /\ job'.successor # serving'.generation
        /\ job'.boundary <= Len(tables'[job'.previous.generation].rows)
    BY <1>0, <1>1, <1>2, <1>3, ShardAssumption DEF Generations
  <2>2. QED
    BY <1>0, <1>1, <1>3, <2>1 DEF GenerationsOK
<1>7. StreamTarget' = StreamTarget /\ StreamTarget \in 1 .. next_generation - 1
  <2>1. targets' = <<StreamTarget, next_generation>>
    BY DEF BeginJob
  <2>2. \A x, y : Head(<<x, y>>) = x
    OBVIOUS
  <2>3. StreamTarget' = StreamTarget
    BY <2>1, <2>2 DEF StreamTarget
  <2>4. QED
    BY <2>3 DEF ShardInv, TargetsOK
<1>8. TargetsOK'
  <2>1. message = NoRow /\ UNCHANGED <<message, pending, loaded>>
        /\ targets' = <<StreamTarget, next_generation>>
    BY <1>1 DEF BeginJob, Idle, stream, history
  <2>2. StreamTarget \in 1 .. next_generation' - 1 /\ StreamTarget # next_generation
    BY <1>0, <1>1, <1>7
  <2>3. QED
    BY <1>1, <1>3, <1>7, <2>1, <2>2 DEF ShardInv, TargetsOK
<1>9. LoadOK'
  <2>1. load.active => /\ load.generation \in 1 .. next_generation - 1
                       /\ load.generation # serving.generation
                       /\ load.generation # StreamTarget
    BY DEF ShardInv, LoadOK
  <2>2. load.active => /\ load.generation \in 1 .. next_generation' - 1
                       /\ load.generation # next_generation
    BY <1>0, <1>1, <2>1
  <2>3. QED
    BY <1>1, <1>3, <1>7, <2>1, <2>2 DEF ShardInv, LoadOK
<1>10. QED
  BY <1>4, <1>5, <1>6, <1>8, <1>9 DEF ShardInv

LEMMA CompactedRowsType ==
  ASSUME ShardInv, job.kind # "none"
  PROVE  /\ CompactedRows(job.previous, job.boundary) \in RowMaps
         /\ job.previous.full # NoSnapshot =>
              Over(RowsOf(job.previous.compact), job.previous.full) \in RowMaps
<1>1. /\ job.previous.generation \in Generations /\ job.boundary \in Nat
      /\ job.previous \in ShardStates
  BY ShardAssumption DEF ShardInv, GenerationsOK, Generations, Jobs
<1>2. tables[job.previous.generation] \in Tables
      /\ LatestIsNewestSealed(tables[job.previous.generation])
  BY <1>1 DEF ShardInv, TablesOK
<1>3. ScanVisibleRows(tables[job.previous.generation], job.boundary) \in RowMaps
  BY <1>1, <1>2, ScanType, SnapshotTypes
<1>4. RowsOf(job.previous.compact) \in RowMaps
  BY <1>1, SnapshotTypes DEF ShardStates
<1>5. job.previous.full \in RowMaps \cup {NoSnapshot}
  BY <1>1 DEF ShardStates
<1>6. QED
  BY <1>3, <1>4, <1>5, SnapshotTypes DEF CompactedRows

LEMMA BuildShardInv ==
  ASSUME ShardInv, BuildCompactedDeltaSnapshot \/ BuildRebasedFullSnapshot
  PROVE  ShardInv'
<1>0. job.kind # "none" /\ job \in Jobs
  BY DEF BuildCompactedDeltaSnapshot, BuildRebasedFullSnapshot, ShardInv, GenerationsOK
<1>1. PICK snapshot \in RowMaps : Built(snapshot)
  BY <1>0, CompactedRowsType DEF BuildCompactedDeltaSnapshot, BuildRebasedFullSnapshot
<1>2. job' = [job EXCEPT !.built = TRUE, !.snapshot = snapshot]
  BY <1>1 DEF Built
<1>3. /\ job' \in Jobs /\ job'.kind = job.kind /\ job'.boundary = job.boundary
      /\ job'.successor = job.successor /\ job'.previous = job.previous
  BY <1>0, <1>2 DEF Jobs
<1>4. UNCHANGED <<stream, history, tables, serving, targets, next_generation, load>>
  BY <1>1 DEF Built
<1>5. TablesOK' /\ StreamOK' /\ AcknowledgedOK'
  BY <1>4 DEF ShardInv, TablesOK, StreamOK, AcknowledgedOK, stream
<1>6. GenerationsOK'
  BY <1>0, <1>3, <1>4 DEF ShardInv, GenerationsOK
<1>7. TargetsOK' /\ HistoryOK' /\ LoadOK'
  BY <1>0, <1>3, <1>4 DEF ShardInv, TargetsOK, HistoryOK, LoadOK, StreamTarget, stream, history
<1>8. QED
  BY <1>5, <1>6, <1>7 DEF ShardInv

LEMMA FinishShardInv ==
  ASSUME ShardInv, FinishJob
  PROVE  ShardInv'
<1>0. /\ job.kind # "none" /\ job \in Jobs
      /\ job.successor \in Generations /\ job.successor < next_generation
      /\ next_generation \in 2 .. MaxGeneration + 1
  BY DEF FinishJob, ShardInv, GenerationsOK
<1>1. serving' \in ShardStates /\ serving'.generation = job.successor
  BY <1>0 DEF FinishJob, RebasedState, CompactedState, Jobs, ShardStates
<1>2. UNCHANGED <<stream, tables, next_generation, load>> /\ job' = NoJob
      /\ targets' = <<job.successor>> /\ ~load.active
  BY DEF FinishJob
<1>3. TablesOK' /\ StreamOK' /\ AcknowledgedOK'
  BY <1>2 DEF ShardInv, TablesOK, StreamOK, AcknowledgedOK, stream
<1>4. HistoryOK'
  <2>1. folded' = [p \in Partitions |-> Len(log[p])] /\ log' = log
        /\ replayed' \in BOOLEAN /\ loaded' = loaded
    BY <1>2 DEF FinishJob, Behind, stream, ShardInv, HistoryOK
  <2>2. \A p \in Partitions : Len(log[p]) \in Nat
    BY DEF ShardInv, StreamOK
  <2>3. QED
    BY <2>1, <2>2 DEF ShardInv, HistoryOK
<1>5. GenerationsOK'
  <2>1. serving'.generation \in 1 .. next_generation' - 1
    BY <1>0, <1>1, <1>2 DEF Generations
  <2>2. QED
    BY <1>0, <1>1, <1>2, <2>1, NoJobFacts DEF GenerationsOK
<1>6. TargetsOK'
  <2>1. message = NoRow /\ UNCHANGED <<message, pending>>
    BY <1>2 DEF FinishJob, Idle, stream
  <2>2. \A a : Head(<<a>>) = a
    OBVIOUS
  <2>3. StreamTarget' = job.successor /\ job.successor \in 1 .. next_generation' - 1
    BY <1>0, <1>2, <2>2 DEF StreamTarget, Generations
  <2>4. QED
    BY <1>1, <1>2, <2>1, <2>3, NoJobFacts DEF ShardInv, TargetsOK
<1>7. LoadOK'
  BY <1>2 DEF ShardInv, LoadOK
<1>8. QED
  BY <1>3, <1>4, <1>5, <1>6, <1>7 DEF ShardInv

(* The table of a job or load that has ended is given up. *)
LEMMA DropShardInv ==
  ASSUME ShardInv, NEW g \in Generations, g < next_generation,
         tables' = [tables EXCEPT ![g] = EmptyTable],
         UNCHANGED <<stream, history, serving, next_generation>>
  PROVE  /\ TablesOK' /\ StreamOK' /\ AcknowledgedOK' /\ HistoryOK'
         /\ \A h \in Generations : h # g => tables'[h] = tables[h]
<1>1. TablesOK' /\ \A h \in Generations : h # g => tables'[h] = tables[h]
  BY EmptyTableOK, TableShardInv
<1>2. StreamOK' /\ AcknowledgedOK' /\ HistoryOK'
  BY DEF ShardInv, StreamOK, AcknowledgedOK, HistoryOK, stream, history
<1>3. QED
  BY <1>1, <1>2

LEMMA AbandonShardInv ==
  ASSUME ShardInv, AbandonJob
  PROVE  ShardInv'
<1>1. UNCHANGED <<stream, history, serving, next_generation, load>> /\ job' = NoJob
      /\ targets' = <<StreamTarget>> /\ message = NoRow /\ job.kind # "none"
  BY DEF AbandonJob
<1>2. PICK g \in Generations : g = job.successor /\ g < next_generation
  BY <1>1 DEF ShardInv, GenerationsOK
<1>3. tables' = [tables EXCEPT ![g] = EmptyTable]
  BY <1>2 DEF AbandonJob
<1>4. TablesOK' /\ StreamOK' /\ AcknowledgedOK' /\ HistoryOK'
  BY <1>1, <1>2, <1>3, DropShardInv
<1>5. GenerationsOK'
  BY <1>1, NoJobFacts DEF ShardInv, GenerationsOK
<1>6. StreamTarget' = StreamTarget
  <2>1. \A a : Head(<<a>>) = a
    OBVIOUS
  <2>2. QED
    BY <1>1, <2>1 DEF StreamTarget
<1>7. TargetsOK' /\ LoadOK'
  BY <1>1, <1>6, NoJobFacts DEF ShardInv, TargetsOK, LoadOK, stream, history
<1>8. QED
  BY <1>4, <1>5, <1>7 DEF ShardInv

LEMMA JobGenerations ==
  ASSUME ShardInv, job.kind # "none"
  PROVE  /\ job.successor \in Generations /\ job.successor < next_generation
         /\ job.previous.generation \in Generations
         /\ job.previous.generation < next_generation
         /\ job.previous.generation # job.successor
BY ShardAssumption DEF ShardInv, GenerationsOK, Generations

LEMMA BeginLoadShardInv ==
  ASSUME ShardInv, BeginExternalLoad
  PROVE  ShardInv'
<1>1. UNCHANGED <<stream, history, tables, serving, targets, job>>
      /\ next_generation' = next_generation + 1 /\ next_generation \in Generations
      /\ next_generation \in 2 .. MaxGeneration + 1
  BY DEF BeginExternalLoad, ShardInv, GenerationsOK
<1>2. load' = [active |-> TRUE, generation |-> next_generation, position |-> Nowhere]
  BY DEF BeginExternalLoad, NoLoad
<1>3. TablesOK'
  <2>1. \A g \in Generations : g >= next_generation' => g >= next_generation
    BY <1>1 DEF Generations
  <2>2. QED
    BY <1>1, <2>1 DEF ShardInv, TablesOK
<1>4. StreamOK' /\ AcknowledgedOK' /\ HistoryOK'
  BY <1>1 DEF ShardInv, StreamOK, AcknowledgedOK, HistoryOK, stream, history
<1>5. \A g \in 1 .. next_generation - 1 : g \in 1 .. next_generation' - 1 /\ g # next_generation
  BY <1>1
<1>6. /\ next_generation' \in 2 .. MaxGeneration + 1
      /\ next_generation \in 1 .. next_generation' - 1
      /\ \A g \in Generations : g < next_generation => g < next_generation' /\ g # next_generation
  BY <1>1, ShardAssumption DEF Generations
<1>7. GenerationsOK'
  BY <1>1, <1>5, <1>6 DEF ShardInv, GenerationsOK
<1>8. TargetsOK'
  BY <1>1, <1>5 DEF ShardInv, TargetsOK, StreamTarget, stream, history
<1>9. LoadOK'
  <2>1. serving.generation # next_generation /\ StreamTarget # next_generation
    BY <1>5 DEF ShardInv, GenerationsOK, TargetsOK
  <2>2. job.kind # "none" =>
          job.successor # next_generation /\ job.previous.generation # next_generation
    <3>1. job.kind # "none" =>
            /\ job.previous.generation \in 1 .. job.successor - 1
            /\ job.successor \in Generations /\ job.successor < next_generation
      BY DEF ShardInv, GenerationsOK
    <3>2. QED
      BY <1>1, <3>1 DEF Generations
  <2>3. Nowhere \in [Partitions -> Nat]
    BY DEF Nowhere
  <2>4. load' \in [active : BOOLEAN, generation : Generations \cup {NoGeneration},
                   position : [Partitions -> Nat]]
    BY <1>1, <1>2, <2>3
  <2>5. StreamTarget' = StreamTarget
    BY <1>1 DEF StreamTarget
  <2>6. QED
    BY <1>1, <1>2, <1>6, <2>1, <2>2, <2>4, <2>5 DEF LoadOK
<1>10. QED
  BY <1>3, <1>4, <1>7, <1>8, <1>9 DEF ShardInv

(* The row that a load replays, and its table. *)
LEMMA LoadFacts ==
  ASSUME ShardInv, NEW p \in Partitions, LoadReplays(p)
  PROVE  \E g \in Generations, row \in UpdateRows :
           /\ g = load.generation /\ g < next_generation
           /\ g # serving.generation /\ g # StreamTarget
           /\ job.kind # "none" => g # job.successor /\ g # job.previous.generation
           /\ row.partition = p /\ row.offset = load.position[p] /\ InLog(row)
           /\ tables' = [tables EXCEPT ![g] = Publish(tables[g], row)]
           /\ UNCHANGED <<stream, history, serving, driver, reader>>
           /\ load' = [load EXCEPT !.position[p] = load.position[p] + 1]
<1> DEFINE o == load.position[p]
           row == [primary_key |-> log[p][o + 1], partition |-> p, offset |-> o]
<1>1. load.active /\ o \in Nat /\ o < Len(log[p])
  BY DEF LoadReplays, ShardInv, LoadOK
<1>2. log[p] \in Seq(Keys) /\ Len(log[p]) <= MaxMessages /\ Len(log[p]) \in Nat
  BY DEF ShardInv, StreamOK
<1>3. o + 1 \in 1 .. Len(log[p]) /\ o \in 0 .. MaxMessages - 1
  BY <1>1, <1>2, ShardAssumption
<1>4. log[p][o + 1] \in Keys
  BY <1>2, <1>3
<1>5. row \in UpdateRows /\ InLog(row)
  BY <1>1, <1>3, <1>4 DEF UpdateRows, InLog
<1>6. PICK g \in Generations :
        /\ g = load.generation /\ g < next_generation
        /\ g # serving.generation /\ g # StreamTarget
        /\ job.kind # "none" => g # job.successor /\ g # job.previous.generation
  <2>1. load.generation \in 1 .. next_generation - 1 /\ next_generation \in 2 .. MaxGeneration + 1
    BY <1>1 DEF ShardInv, LoadOK, GenerationsOK
  <2>2. load.generation \in Generations /\ load.generation < next_generation
    BY <2>1, ShardAssumption DEF Generations
  <2>3. QED
    BY <1>1, <2>2 DEF ShardInv, LoadOK
<1>7. /\ tables' = [tables EXCEPT ![g] = Publish(tables[g], row)]
      /\ UNCHANGED <<stream, history, serving, driver, reader>>
      /\ load' = [load EXCEPT !.position[p] = load.position[p] + 1]
  BY <1>6 DEF LoadReplays, ShardInv, TablesOK
<1>8. row.partition = p /\ row.offset = load.position[p]
  OBVIOUS
<1> HIDE DEF row
<1>9. QED
  BY <1>5, <1>6, <1>7, <1>8

LEMMA LoadReplaysShardInv ==
  ASSUME ShardInv, NEW p \in Partitions, LoadReplays(p)
  PROVE  ShardInv'
<1>1. PICK g \in Generations, row \in UpdateRows :
           /\ g = load.generation /\ g < next_generation
           /\ g # serving.generation /\ g # StreamTarget
           /\ job.kind # "none" => g # job.successor /\ g # job.previous.generation
           /\ tables' = [tables EXCEPT ![g] = Publish(tables[g], row)]
           /\ UNCHANGED <<stream, history, serving, driver, reader>>
           /\ load' = [load EXCEPT !.position[p] = load.position[p] + 1]
  BY LoadFacts
<1>2. UNCHANGED <<job, targets, next_generation>>
  BY <1>1 DEF driver
<1>3. PICK t \in Tables : t = tables[g] /\ LatestIsNewestSealed(t) /\ KeyCount(t) <= Capacity
  BY DEF ShardInv, TablesOK
<1>4. /\ Publish(t, row) \in Tables
      /\ LatestIsNewestSealed(Publish(t, row))
      /\ KeyCount(Publish(t, row)) <= Capacity
  BY <1>3, PublishFacts, PublishKeepsLatest, PublishKeepsKeyCount
<1>5. TablesOK' /\ \A h \in Generations : h # g => tables'[h] = tables[h]
  BY <1>1, <1>2, <1>3, <1>4, TableShardInv
<1>6. StreamOK' /\ AcknowledgedOK' /\ HistoryOK'
  BY <1>1 DEF ShardInv, StreamOK, AcknowledgedOK, HistoryOK, stream, history
<1>7. GenerationsOK'
  <2>1. job.kind # "none" => tables'[job.previous.generation] = tables[job.previous.generation]
    BY <1>1, <1>5, JobGenerations
  <2>2. QED
    BY <1>1, <1>2, <2>1 DEF ShardInv, GenerationsOK
<1>8. TargetsOK'
  BY <1>1, <1>2 DEF ShardInv, TargetsOK, StreamTarget, stream, history
<1>9. LoadOK'
  <2>1. load \in [active : BOOLEAN, generation : Generations \cup {NoGeneration},
                  position : [Partitions -> Nat]]
    BY DEF ShardInv, LoadOK
  <2>2. /\ load' \in [active : BOOLEAN, generation : Generations \cup {NoGeneration},
                      position : [Partitions -> Nat]]
        /\ load'.active = load.active /\ load'.generation = load.generation
    BY <1>1, <2>1
  <2>3. QED
    BY <1>1, <1>2, <2>2 DEF ShardInv, LoadOK, StreamTarget
<1>10. QED
  BY <1>5, <1>6, <1>7, <1>8, <1>9 DEF ShardInv

LEMMA LoadEndsShardInv ==
  ASSUME ShardInv, LoadEnds
  PROVE  ShardInv'
<1>1. UNCHANGED <<stream, history, serving, targets, job, next_generation>> /\ load' = NoLoad
  BY DEF LoadEnds, driver
<1>2. PICK g \in Generations :
        /\ g = load.generation /\ g < next_generation
        /\ job.kind # "none" => g # job.previous.generation
  <2>1. /\ load.generation \in 1 .. next_generation - 1 /\ next_generation \in 2 .. MaxGeneration + 1
        /\ job.kind # "none" => load.generation # job.previous.generation
    BY DEF LoadEnds, ShardInv, LoadOK, GenerationsOK
  <2>2. QED
    BY <2>1, ShardAssumption DEF Generations
<1>3. tables' = [tables EXCEPT ![g] = EmptyTable]
  BY <1>2 DEF LoadEnds
<1>4. /\ TablesOK' /\ StreamOK' /\ AcknowledgedOK' /\ HistoryOK'
      /\ \A h \in Generations : h # g => tables'[h] = tables[h]
  BY <1>1, <1>2, <1>3, DropShardInv
<1>5. GenerationsOK'
  <2>1. job.kind # "none" => tables'[job.previous.generation] = tables[job.previous.generation]
    BY <1>2, <1>4, JobGenerations
  <2>2. QED
    BY <1>1, <2>1 DEF ShardInv, GenerationsOK
<1>6. TargetsOK'
  BY <1>1 DEF ShardInv, TargetsOK, StreamTarget, stream, history
<1>7. LoadOK'
  BY <1>1, NoLoadFacts DEF LoadOK
<1>8. QED
  BY <1>4, <1>5, <1>6, <1>7 DEF ShardInv

LEMMA CutoverShardInv ==
  ASSUME ShardInv, ExternalCutover
  PROVE  ShardInv'
<1>1. UNCHANGED <<stream, folded, replayed, tables, targets, job, next_generation>>
      /\ load' = NoLoad /\ loaded' = TRUE /\ load.active
      /\ serving' = [generation |-> load.generation, compact |-> NoSnapshot, full |-> FirstFull]
  BY DEF ExternalCutover, driver
<1>2. /\ load.generation \in 1 .. next_generation - 1 /\ next_generation \in 2 .. MaxGeneration + 1
      /\ job.kind # "none" => load.generation # job.successor
  BY <1>1 DEF ShardInv, LoadOK, GenerationsOK
<1>3. load.generation \in Generations
  BY <1>2, ShardAssumption DEF Generations
<1>4. serving' \in ShardStates /\ serving'.generation = load.generation
  BY <1>1, <1>3, SnapshotTypes DEF ShardStates
<1>5. TablesOK' /\ StreamOK' /\ AcknowledgedOK' /\ HistoryOK'
  BY <1>1 DEF ShardInv, TablesOK, StreamOK, AcknowledgedOK, HistoryOK, stream
<1>6. GenerationsOK'
  BY <1>1, <1>2, <1>4 DEF ShardInv, GenerationsOK
<1>7. TargetsOK'
  BY <1>1 DEF ShardInv, TargetsOK, StreamTarget, stream
<1>8. LoadOK'
  BY <1>1, NoLoadFacts DEF LoadOK
<1>9. QED
  BY <1>5, <1>6, <1>7, <1>8 DEF ShardInv

LEMMA NextShardInv == ShardInv /\ [Next]_vars => ShardInv'
<1> SUFFICES ASSUME ShardInv, [Next]_vars PROVE ShardInv'
  OBVIOUS
<1>1. CASE UNCHANGED <<stream, history, tables, serving, driver, load>>
  BY <1>1, LookupShardInv
<1>2. CASE ~UNCHANGED <<stream, history, tables, serving, driver, load>>
  <2>1. Next /\ (\A k \in ReaderKeys : ~GetBegins(k)) /\ ~GetEnds
    BY <1>2 DEF vars, GetBegins, GetEnds
  <2>2. QED
    BY <2>1, DeliverShardInv, ApplyShardInv, OffsetsShardInv, BeginJobShardInv, BuildShardInv,
       FinishShardInv, AbandonShardInv, BeginLoadShardInv, LoadReplaysShardInv, LoadEndsShardInv,
       CutoverShardInv DEF Next
<1>3. QED
  BY <1>1, <1>2

(* The structural invariant holds in every reachable state. *)
THEOREM ShardInvariant == Spec => []ShardInv
<1>1. QED
  BY InitShardInv, NextShardInv, PTL DEF Spec

(* Types are respected: no table has more keys than its capacity, and no   *)
(* committed offset is past what was delivered.                            *)
THEOREM TypeCorrect == Spec => []TypeOK
<1>1. ShardInv => TypeOK
  <2> SUFFICES ASSUME ShardInv PROVE TypeOK
    OBVIOUS
  <2>1. \A p \in Partitions : /\ log[p] \in Seq(Keys) /\ Len(log[p]) <= MaxMessages
                              /\ next[p] \in 0 .. Len(log[p])
                              /\ committed[p] \in 0 .. next[p]
    <3>1. ASSUME NEW p \in Partitions
          PROVE  /\ log[p] \in Seq(Keys) /\ Len(log[p]) \in Nat
                 /\ next[p] \in Nat /\ committed[p] \in Nat
      BY DEF ShardInv, StreamOK
    <3>2. QED
      BY <3>1 DEF ShardInv, StreamOK
  <2>2. \A g \in Generations : /\ tables[g].latest \in [Keys -> UpdateRows \cup {NoRow}]
                               /\ KeyCount(tables[g]) <= Capacity
    BY DEF ShardInv, TablesOK, Tables
  <2>3. serving \in ShardStates /\ job.previous \in ShardStates
    BY DEF ShardInv, GenerationsOK, Jobs
  <2>4. StreamTarget \in Generations /\ (job.kind # "none" => job.successor \in Generations)
    BY ShardAssumption DEF ShardInv, GenerationsOK, TargetsOK, Generations
  <2>5. targets \in Seq(Generations) /\ pending \in Seq(Generations)
    <3>1. \A a, b \in Generations : <<a>> \in Seq(Generations) /\ <<a, b>> \in Seq(Generations)
      OBVIOUS
    <3>2. targets \in Seq(Generations)
      BY <2>4, <3>1 DEF ShardInv, TargetsOK
    <3>3. <<>> \in Seq(Generations)
      OBVIOUS
    <3>4. QED
      BY <2>4, <3>1, <3>2, <3>3 DEF ShardInv, TargetsOK
  <2>6. (message = NoRow) = (pending = <<>>)
    <3>1. message # NoRow => Len(pending) # 0
      <4>1. \A a, b : Len(<<a>>) = 1 /\ Len(<<a, b>>) = 2
        OBVIOUS
      <4>2. QED
        BY PendingFacts DEF ToOnly, ToFirst, ToSecond
    <3>2. message = NoRow => pending = <<>>
      BY DEF ShardInv, TargetsOK
    <3>3. QED
      BY <3>1, <3>2
  <2>7. message \in UpdateRows \cup {NoRow} /\ acknowledged \in RowMaps
    BY DEF ShardInv, StreamOK, AcknowledgedOK
  <2>8. QED
    BY <2>1, <2>2, <2>3, <2>5, <2>6, <2>7 DEF TypeOK
<1>2. QED
  BY <1>1, ShardInvariant, PTL

(* The append-only rows and the hash map of every realtime table agree,    *)
(* whatever rows were refused, stale or delivered twice.                   *)
THEOREM ScansAgree == Spec => []ScanMatchesMap
<1>1. ShardInv => ScanMatchesMap
  BY ScanFindsLatest DEF ShardInv, TablesOK, ScanMatchesMap, CaptureCompactionBoundary
<1>2. QED
  BY <1>1, ShardInvariant, PTL

NewestOf(sealed) ==
  IF sealed = {} THEN NoRow ELSE CHOOSE r \in sealed : \A s \in sealed : ~IsNewer(r, s)

LEMMA SameScan ==
  ASSUME NEW t1, NEW t2, NEW b, \A k \in Keys : SealedRows(t1, b, k) = SealedRows(t2, b, k)
  PROVE  ScanVisibleRows(t1, b) = ScanVisibleRows(t2, b)
<1>1. \A t : ScanVisibleRows(t, b) = [k \in Keys |-> NewestOf(SealedRows(t, b, k))]
  BY DEF ScanVisibleRows, NewestOf
<1>2. QED
  BY <1>1

(* A boundary stays what it was: the scan of a table up to a boundary does *)
(* not change, because tables grow at the end, generations are not used    *)
(* twice, and only the tables of ended jobs and loads are given up.        *)
LEMMA ScanIsFrozen ==
  ASSUME ShardInv, [Next]_vars, NEW g \in Generations, g < next_generation,
         NEW b \in 0 .. Len(tables[g].rows),
         AbandonJob => g # job.successor, LoadEnds => g # load.generation
  PROVE  ScanVisibleRows(tables'[g], b) = ScanVisibleRows(tables[g], b)
<1>0. tables \in [Generations -> Tables] /\ g \in Int /\ next_generation \in Int
  BY DEF ShardInv, TablesOK, GenerationsOK, Generations
<1>1. CASE tables'[g] = tables[g]
  BY <1>1
<1>2. ASSUME NEW h \in Generations, NEW row \in UpdateRows,
             tables' = [tables EXCEPT ![h] = Publish(tables[h], row)]
      PROVE  ScanVisibleRows(tables'[g], b) = ScanVisibleRows(tables[g], b)
  <2>1. CASE h # g
    <3>1. tables'[g] = tables[g]
      BY <1>0, <1>2, <2>1
    <3>2. QED
      BY <3>1
  <2>2. CASE h = g
    <3>1. tables'[g] = Publish(tables[g], row) /\ tables[g] \in Tables
      BY <1>0, <1>2, <2>2
    <3>2. \A k \in Keys : SealedRows(Publish(tables[g], row), b, k) = SealedRows(tables[g], b, k)
      BY <3>1, SealedByPublish
    <3>3. QED
      BY <3>1, <3>2, SameScan
  <2>3. QED
    BY <2>1, <2>2
<1>3. CASE ApplyToTarget
  <2>1. message \in UpdateRows /\ Head(pending) \in Generations
    BY <1>3, PendingFacts DEF ApplyToTarget, ToSecond
  <2>2. tables' = [tables EXCEPT ![Head(pending)] = Publish(tables[Head(pending)], message)]
    BY <1>0, <1>3, <2>1 DEF ApplyToTarget
  <2>3. QED
    BY <1>2, <2>1, <2>2
<1>4. ASSUME NEW p \in Partitions, LoadReplays(p)
      PROVE  ScanVisibleRows(tables'[g], b) = ScanVisibleRows(tables[g], b)
  <2>1. PICK h \in Generations, row \in UpdateRows :
          tables' = [tables EXCEPT ![h] = Publish(tables[h], row)]
    BY <1>4, LoadFacts
  <2>2. QED
    BY <1>2, <2>1
<1>5. CASE AbandonJob \/ LoadEnds
  <2>1. tables'[g] = tables[g]
    BY <1>0, <1>5 DEF AbandonJob, LoadEnds
  <2>2. QED
    BY <1>1, <2>1
<1>6. QED
  <2>1. CASE tables' = tables
    BY <1>1, <2>1
  <2>2. QED
    BY <1>3, <1>4, <1>5, <2>1 DEF Next, vars, GetBegins, GetEnds, Deliver, Commit, Rewind, BeginJob,
       BuildCompactedDeltaSnapshot, BuildRebasedFullSnapshot, Built, FinishJob,
       BeginExternalLoad, ExternalCutover

(* A job's scan is that of a table that lives as long as the job. *)
LEMMA JobTableLives ==
  ASSUME ShardInv, job.kind # "none"
  PROVE  /\ AbandonJob => job.previous.generation # job.successor
         /\ LoadEnds => job.previous.generation # load.generation
<1>1. job.previous.generation # job.successor
  BY JobGenerations
<1>2. QED
  BY <1>1 DEF LoadEnds, ShardInv, LoadOK

(* What a compaction builds does not depend on when its scan runs. *)
THEOREM CompactionFrozen == Spec => CompactionInputIsFrozen
<1>1. ShardInv /\ [Next]_vars =>
        [job.kind = "compaction" /\ job' = job =>
           CompactedRows(job.previous, job.boundary)'
             = CompactedRows(job.previous, job.boundary)]_vars
  <2> SUFFICES ASSUME ShardInv, [Next]_vars, job.kind = "compaction", job' = job
               PROVE  CompactedRows(job.previous, job.boundary)'
                        = CompactedRows(job.previous, job.boundary)
    OBVIOUS
  <2>1. PICK g \in Generations : g = job.previous.generation /\ g < next_generation
    BY ShardAssumption DEF ShardInv, GenerationsOK, Generations
  <2>2. PICK b \in 0 .. Len(tables[g].rows) : b = job.boundary
    <3>1. job.boundary \in Nat /\ job.boundary <= Len(tables[g].rows) /\ Len(tables[g].rows) \in Nat
      BY <2>1 DEF ShardInv, GenerationsOK, Jobs, TablesOK, Tables
    <3>2. QED
      BY <3>1
  <2>3. ScanVisibleRows(tables'[g], b) = ScanVisibleRows(tables[g], b)
    BY <2>1, ScanIsFrozen, JobTableLives
  <2>4. CompactedRows(job.previous, job.boundary)
          = Over(ScanVisibleRows(tables[g], b), RowsOf(job.previous.compact))
    BY <2>1, <2>2 DEF CompactedRows
  <2>5. CompactedRows(job.previous, job.boundary)'
          = Over(ScanVisibleRows(tables'[g], b), RowsOf(job.previous.compact))
    BY <2>1, <2>2 DEF CompactedRows
  <2>6. QED
    BY <2>3, <2>4, <2>5
<1>2. QED
  BY <1>1, ShardInvariant, PTL DEF Spec, CompactionInputIsFrozen

-----------------------------------------------------------------------------
(* Serving every acknowledged update: facts about rows and layers. *)

(* ShardState::Get, given the row of the realtime table. *)
Layered(row, state, k) ==
  IF row # NoRow THEN row
  ELSE IF SnapshotRow(state.compact, k) # NoRow THEN SnapshotRow(state.compact, k)
  ELSE SnapshotRow(state.full, k)

LEMMA GetIsLayered ==
  ASSUME NEW k \in Keys
  PROVE  /\ Get(serving, k) = Layered(ServingRow(k), serving, k)
         /\ Get(serving, k)' = Layered(tables'[serving'.generation].latest[k], serving', k)
         /\ \A state : Get(state, k) = Layered(tables[state.generation].latest[k], state, k)
<1>1. \A state : Get(state, k) = Layered(tables[state.generation].latest[k], state, k)
  BY DEF Get, Over, RowsOf, Layered
<1>2. Get(serving, k)' = Layered(tables'[serving'.generation].latest[k], serving', k)
  BY DEF Get, Over, RowsOf, Layered, SnapshotRow
<1>3. QED
  BY <1>1, <1>2 DEF ServingRow

LEMMA SnapshotRowType ==
  ASSUME NEW state \in ShardStates, NEW k \in Keys
  PROVE  SnapshotRow(state.compact, k) \in SomeRows /\ SnapshotRow(state.full, k) \in SomeRows
BY DEF ShardStates, SnapshotRow, RowMaps, SomeRows

LEMMA LatestFacts ==
  ASSUME ShardInv, NEW g \in Generations, NEW k \in Keys
  PROVE  /\ tables[g] \in Tables
         /\ tables[g].latest[k] \in UpdateRows \cup {NoRow}
         /\ tables[g].latest[k] # NoRow =>
              /\ tables[g].latest[k] \in UpdateRows
              /\ tables[g].latest[k].primary_key = k
              /\ RowsAreInLog => InLog(tables[g].latest[k])
<1> DEFINE r == tables[g].latest[k]
<1>1. tables[g] \in Tables /\ LatestIsNewestSealed(tables[g])
  BY DEF ShardInv, TablesOK
<1>2. r \in UpdateRows \cup {NoRow} /\ Len(tables[g].rows) \in Nat
  BY <1>1 DEF Tables
<1>3. ASSUME r # NoRow
      PROVE  r \in UpdateRows /\ r.primary_key = k /\ (RowsAreInLog => InLog(r))
  <2>1. r \in SealedRowsOf(tables[g], k)
    BY <1>1, <1>3 DEF LatestIsNewestSealed
  <2>2. r \in UpdateRows /\ r.primary_key = k /\ \E i \in 1 .. Len(tables[g].rows) : r = tables[g].rows[i].row
    BY <1>1, <1>2, <2>1, SealedAreUpdates DEF SealedRowsOf
  <2>3. QED
    BY <2>2 DEF RowsAreInLog
<1>4. QED
  BY <1>1, <1>2, <1>3

LEMMA GenerationFacts ==
  ASSUME ShardInv
  PROVE  /\ serving.generation \in Generations /\ serving.generation < next_generation
         /\ serving \in ShardStates
         /\ job.kind # "none" =>
              /\ job.successor \in Generations /\ job.successor < next_generation
              /\ job.successor # serving.generation
              /\ job.previous \in ShardStates
              /\ job.previous.generation \in Generations
              /\ job.previous.generation < next_generation
              /\ job.previous.generation # job.successor
              /\ job.boundary \in 0 .. Len(tables[job.previous.generation].rows)
<1>1. serving.generation \in Generations /\ serving.generation < next_generation
  BY ShardAssumption DEF ShardInv, GenerationsOK, Generations
<1>2. ASSUME job.kind # "none"
      PROVE  /\ job.previous.generation \in Generations
             /\ job.previous.generation < next_generation
             /\ job.previous.generation # job.successor
  BY <1>2, ShardAssumption DEF ShardInv, GenerationsOK, Generations
<1>3. ASSUME job.kind # "none"
      PROVE  job.boundary \in 0 .. Len(tables[job.previous.generation].rows)
  <2>1. Len(tables[job.previous.generation].rows) \in Nat
    BY <1>2, <1>3 DEF ShardInv, TablesOK, Tables
  <2>2. job.boundary \in Nat /\ job.boundary <= Len(tables[job.previous.generation].rows)
    BY <1>3 DEF ShardInv, GenerationsOK, Jobs
  <2>3. QED
    BY <2>1, <2>2
<1>4. QED
  BY <1>1, <1>2, <1>3 DEF ShardInv, GenerationsOK, Jobs

(* A job's scan and what it is to build do not change while it runs. *)
LEMMA JobIsFrozen ==
  ASSUME ShardInv, [Next]_vars, job.kind # "none",
         UNCHANGED <<job.previous, job.boundary>>
  PROVE  /\ BoundaryRows' = BoundaryRows
         /\ CompactedRows(job.previous, job.boundary)'
              = CompactedRows(job.previous, job.boundary)
<1>1. PICK g \in Generations : g = job.previous.generation /\ g < next_generation
  BY GenerationFacts
<1>2. PICK b \in 0 .. Len(tables[g].rows) : b = job.boundary
  BY <1>1, GenerationFacts
<1>3. ScanVisibleRows(tables'[g], b) = ScanVisibleRows(tables[g], b)
  BY <1>1, ScanIsFrozen, JobTableLives
<1>4. job'.previous = job.previous /\ job'.boundary = job.boundary
  OBVIOUS
<1>5. BoundaryRows = ScanVisibleRows(tables[g], b) /\ BoundaryRows' = ScanVisibleRows(tables'[g], b)
  BY <1>1, <1>2, <1>4 DEF BoundaryRows
<1>6. CompactedRows(job.previous, job.boundary)
        = Over(ScanVisibleRows(tables[g], b), RowsOf(job.previous.compact))
  BY <1>1, <1>2 DEF CompactedRows
<1>7. CompactedRows(job.previous, job.boundary)'
        = Over(ScanVisibleRows(tables'[g], b), RowsOf(job.previous.compact))
  BY <1>1, <1>2, <1>4 DEF CompactedRows
<1>8. QED
  BY <1>3, <1>5, <1>6, <1>7

LEMMA InitServeInv == Init => ServeInv
<1> SUFFICES ASSUME Init PROVE ServeInv
  OBVIOUS
<1>1. /\ \A g \in Generations : tables[g] = EmptyTable
      /\ job.kind = "none" /\ ~job.built /\ reader.key = NoRow /\ message = NoRow
      /\ acknowledged = FirstFull /\ serving.compact = NoSnapshot /\ serving.full = FirstFull
      /\ serving.generation \in Generations
  BY ShardAssumption DEF Init, NoJob, NoReader, Generations
<1>2. EmptyTable.rows = <<>> /\ \A k \in Keys : EmptyTable.latest[k] = NoRow
  BY DEF EmptyTable
<1>3. \A k \in Keys : SnapshotRow(serving.compact, k) = NoRow
                      /\ SnapshotRow(serving.full, k) = FirstFull[k]
  BY <1>1, SnapshotTypes, ShardAssumption DEF SnapshotRow
<1>4. RowsAreInLog
  BY <1>1, <1>2, FirstFullFacts DEF RowsAreInLog
<1>5. LayersAreFolded
  BY <1>3, FirstFullFacts, RowFacts DEF LayersAreFolded, IsFolded
<1>6. ServesTheStream
  BY <1>1, <1>2, <1>3, GetIsLayered DEF ServesTheStream, HalfApplied, Layered, ServingRow
<1>7. StreamIsServed
  <2>1. Head(<<1>>) = 1
    OBVIOUS
  <2>2. QED
    BY <2>1 DEF Init, StreamIsServed, StreamTarget
<1>8. QED
  BY <1>1, <1>4, <1>5, <1>6, <1>7 DEF ServeInv, HalfAppliedIsServed, HalfApplied, SuccessorIsContained,
     SuccessorFollows, SnapshotIsBuilt, ReaderOK

-----------------------------------------------------------------------------
(* Lookups and offsets. *)

LEMMA LookupServeInv ==
  ASSUME ShardInv, ServeInv, UNCHANGED <<stream, history, tables, serving, targets, job>>, ReaderOK'
  PROVE  ServeInv'
<1>1. UNCHANGED <<log, next, folded, message, pending, acknowledged, tables, serving, targets, job>>
  BY DEF stream, history
<1>2. RowsAreInLog' /\ LayersAreFolded' /\ StreamIsServed'
  BY <1>1 DEF ServeInv, RowsAreInLog, InLog, LayersAreFolded, IsFolded, StreamIsServed, StreamTarget
<1>3. ServesTheStream' /\ HalfAppliedIsServed'
  BY <1>1 DEF ServeInv, ServesTheStream, HalfAppliedIsServed, HalfApplied, ServingRow, Get
<1>4. SuccessorIsContained' /\ SuccessorFollows'
  BY <1>1 DEF ServeInv, SuccessorIsContained, SuccessorFollows, HasCaughtUp, WillCatchUp,
              ServingRow, SuccessorRow, BoundaryRows
<1>5. SnapshotIsBuilt'
  BY <1>1 DEF ServeInv, SnapshotIsBuilt, CompactedRows
<1>6. QED
  BY <1>2, <1>3, <1>4, <1>5 DEF ServeInv

LEMMA GetBeginsServeInv ==
  ASSUME ShardInv, ServeInv, NEW k \in ReaderKeys, GetBegins(k)
  PROVE  ServeInv'
<1>0. k \in Keys
  BY ShardAssumption
<1>1. reader' = [key |-> k, state |-> serving]
      /\ UNCHANGED <<stream, history, tables, serving, driver, load>>
  BY DEF GetBegins
<1>2. UNCHANGED <<targets, job, next_generation>>
  BY <1>1 DEF driver
<1>3. reader'.key = k /\ reader'.state = serving
  BY <1>1
<1>4. load.active => serving.generation # load.generation
  BY DEF ShardInv, LoadOK
<1>5. ReaderOK'
  BY <1>0, <1>1, <1>2, <1>3, <1>4, GenerationFacts DEF ReaderOK, ShardInv, GenerationsOK
<1>6. QED
  BY <1>1, <1>2, <1>5, LookupServeInv

LEMMA OtherLookupsServeInv ==
  ASSUME ShardInv, ServeInv, GetEnds \/ UNCHANGED vars
  PROVE  ServeInv'
<1>1. UNCHANGED <<stream, history, tables, serving, driver, load>>
  BY DEF GetEnds, vars
<1>2. ReaderOK'
  <2>1. CASE GetEnds
    <3>1. reader'.key = NoRow
      BY <2>1 DEF GetEnds, NoReader
    <3>2. QED
      BY <3>1 DEF ReaderOK
  <2>2. CASE UNCHANGED reader
    BY <1>1, <2>2 DEF ServeInv, ReaderOK, driver
  <2>3. QED
    BY <2>1, <2>2 DEF vars
<1>3. QED
  BY <1>1, <1>2, LookupServeInv DEF driver

(* The table of a new load is not one that a lookup holds on to. *)
LEMMA BeginLoadServeInv ==
  ASSUME ShardInv, ServeInv, BeginExternalLoad
  PROVE  ServeInv'
<1>1. /\ UNCHANGED <<stream, history, tables, serving, targets, job, reader>>
      /\ next_generation' = next_generation + 1 /\ next_generation \in Nat
  BY DEF BeginExternalLoad, ShardInv, GenerationsOK
<1>2. load'.generation = next_generation
  BY DEF BeginExternalLoad, NoLoad
<1>3. \A n \in 1 .. next_generation - 1 : n \in 1 .. next_generation' - 1 /\ n # next_generation
  BY <1>1
<1>4. ReaderOK'
  BY <1>1, <1>2, <1>3 DEF ServeInv, ReaderOK
<1>5. QED
  BY <1>1, <1>4, LookupServeInv

(* The log only grows. *)
LEMMA InLogGrows ==
  ASSUME ShardInv, NEW p \in Partitions, NEW k \in Keys, Deliver(p, k),
         NEW row \in UpdateRows, InLog(row)
  PROVE  InLog(row)'
<1>1. log \in [Partitions -> Seq(Keys)]
  BY DEF ShardInv, StreamOK
<1>2. row.partition \in Partitions /\ row.offset \in Nat
  BY RowFacts
<1>3. row.offset < Len(log[row.partition]) /\ log[row.partition][row.offset + 1] = row.primary_key
  BY DEF InLog
<1>4. log' = log \/ log' = [log EXCEPT ![p] = Append(log[p], k)]
  BY DEF Deliver
<1>5. \A s \in Seq(Keys) : \A i \in 1 .. Len(s) :
        Len(Append(s, k)) = Len(s) + 1 /\ Append(s, k)[i] = s[i]
  OBVIOUS
<1>6. row.offset < Len(log'[row.partition]) /\ log'[row.partition][row.offset + 1] = row.primary_key
  <2>1. CASE log'[row.partition] = log[row.partition]
    BY <1>3, <2>1
  <2>2. CASE log'[row.partition] = Append(log[row.partition], k)
    <3>1. log[row.partition] \in Seq(Keys) /\ Len(log[row.partition]) \in Nat
      BY <1>1, <1>2
    <3>2. row.offset + 1 \in 1 .. Len(log[row.partition])
      BY <1>2, <1>3, <3>1
    <3>3. QED
      BY <1>2, <1>3, <1>5, <2>2, <3>1, <3>2
  <2>3. QED
    BY <1>1, <1>2, <1>4, <2>1, <2>2
<1>7. QED
  BY <1>6 DEF InLog

LEMMA DeliverServeInv ==
  ASSUME ShardInv, ServeInv, NEW p \in Partitions, NEW k \in Keys, Deliver(p, k),
         ~replayed'
  PROVE  ServeInv'
<1> DEFINE o == next[p]
           m == [primary_key |-> k, partition |-> p, offset |-> o]
<1>0. /\ log \in [Partitions -> Seq(Keys)] /\ next \in [Partitions -> Nat]
      /\ folded[p] \in Nat
      /\ o \in Nat /\ o <= Len(log[p]) /\ Len(log[p]) \in Nat
  BY DEF ShardInv, StreamOK, HistoryOK
<1>1. UNCHANGED <<folded, acknowledged, tables, serving, targets, job, next_generation, load, reader>>
      /\ message = NoRow /\ message' = m /\ pending' = targets'
      /\ next' = [next EXCEPT ![p] = o + 1] /\ ~(o < folded[p])
  BY DEF Deliver, Idle, driver
<1>2. m \in UpdateRows /\ m # NoRow
  <2>1. ShardInv'
    BY DeliverShardInv
  <2>2. message' \in UpdateRows \/ message' = NoRow
    BY <2>1 DEF ShardInv, StreamOK
  <2>3. message' # NoRow
    <3>1. o < MaxMessages
      <4>1. /\ next'[p] <= Len(log'[p]) /\ Len(log'[p]) <= MaxMessages /\ next'[p] = o + 1
            /\ Len(log'[p]) \in Nat
        BY <1>0, <1>1, <2>1 DEF ShardInv, StreamOK
      <4>2. QED
        BY <1>0, <4>1, ShardAssumption
    <3>2. QED
      BY <1>0, <1>1, <3>1, ShardAssumption, RowFacts DEF UpdateRows
  <2>4. QED
    BY <1>1, <2>2, <2>3
<1>3. InLog(message)'
  <2>1. CASE o < Len(log[p])
    BY <1>1, <2>1 DEF Deliver, InLog
  <2>2. CASE ~(o < Len(log[p]))
    <3>1. log' = [log EXCEPT ![p] = Append(log[p], k)] /\ o = Len(log[p])
      BY <1>0, <2>2 DEF Deliver
    <3>2. log'[p] = Append(log[p], k) /\ log[p] \in Seq(Keys)
      BY <1>0, <3>1
    <3>3. Len(log'[p]) = o + 1 /\ log'[p][o + 1] = k
      BY <3>1, <3>2
    <3>4. QED
      BY <1>0, <1>1, <3>3 DEF InLog
  <2>3. QED
    BY <2>1, <2>2
<1>4. RowsAreInLog'
  <2>1. ASSUME NEW g \in Generations, NEW i \in 1 .. Len(tables[g].rows)
        PROVE  InLog(tables[g].rows[i].row)'
    <3>1. tables[g].rows[i].row \in UpdateRows
      <4>1. tables[g].rows \in Seq(Entries)
        BY DEF ShardInv, TablesOK, Tables
      <4>2. tables[g].rows[i] \in Entries
        BY <4>1
      <4>3. QED
        BY <4>2 DEF Entries
    <3>2. PICK r \in UpdateRows : r = tables[g].rows[i].row
      BY <3>1
    <3>3. InLog(r)
      BY <3>2 DEF ServeInv, RowsAreInLog
    <3>4. InLog(r)'
      BY <3>3, InLogGrows
    <3>5. QED
      BY <1>1, <3>2, <3>4 DEF InLog
  <2>2. ASSUME NEW j \in Keys, acknowledged[j] \in UpdateRows
        PROVE  InLog(acknowledged[j])'
    <3>1. PICK r \in UpdateRows : r = acknowledged[j]
      BY <2>2
    <3>2. InLog(r)
      BY <2>2, <3>1 DEF ServeInv, RowsAreInLog
    <3>3. InLog(r)'
      BY <3>2, InLogGrows
    <3>4. QED
      BY <1>1, <3>1, <3>3 DEF InLog
  <2>3. next'[m.partition] = m.offset + 1 /\ folded'[m.partition] <= m.offset
    BY <1>0, <1>1
  <2>4. QED
    BY <1>1, <1>3, <2>1, <2>2, <2>3 DEF RowsAreInLog
<1>5. LayersAreFolded' /\ StreamIsServed'
  BY <1>1 DEF ServeInv, LayersAreFolded, IsFolded, StreamIsServed, StreamTarget
<1>6. ServesTheStream' /\ HalfAppliedIsServed'
  BY <1>1 DEF ServeInv, ServesTheStream, HalfAppliedIsServed, HalfApplied, Get
<1>7. SuccessorIsContained'
  BY <1>1 DEF ServeInv, SuccessorIsContained, ServingRow, SuccessorRow
<1>8. SuccessorFollows'
  <2> SUFFICES ASSUME job.kind # "none", serving = job.previous, NEW j \in Keys
               PROVE  (HasCaughtUp(j) \/ WillCatchUp(j))'
    BY <1>1 DEF SuccessorFollows
  <2>1. ServingRow(j)' = ServingRow(j) /\ SuccessorRow(j)' = SuccessorRow(j)
        /\ BoundaryRows' = BoundaryRows
    BY <1>1 DEF ServingRow, SuccessorRow, BoundaryRows
  <2>2. CASE HasCaughtUp(j)
    BY <2>1, <2>2 DEF HasCaughtUp
  <2>3. CASE WillCatchUp(j)
    <3> DEFINE c == ServingRow(j)
    <3>1. c # NoRow /\ SuccessorRow(j) # NoRow /\ next[c.partition] <= c.offset
      BY <1>1, <2>3 DEF WillCatchUp
    <3>2. c \in UpdateRows /\ c.primary_key = j /\ InLog(c)
      BY <3>1, GenerationFacts, LatestFacts DEF ServingRow, ServeInv
    <3>3. c.partition \in Partitions /\ c.offset \in Nat
      BY <3>2, RowFacts
    <3>4. message' = c \/ next'[c.partition] <= c.offset
      <4>1. CASE c.partition = p /\ c.offset = o
        <5>1. o < Len(log[p]) /\ log[p][o + 1] = j
          BY <3>2, <4>1 DEF InLog
        <5>2. k = j
          BY <5>1 DEF Deliver
        <5>3. m = c
          BY <1>2, <3>2, <4>1, <5>2, RowFacts
        <5>4. QED
          BY <1>1, <5>3
      <4>2. CASE c.partition = p /\ c.offset # o
        BY <1>0, <1>1, <3>1, <3>3, <4>2
      <4>3. CASE c.partition # p
        BY <1>0, <1>1, <3>1, <3>3, <4>3
      <4>4. QED
        BY <4>1, <4>2, <4>3
    <3>5. QED
      BY <2>1, <2>3, <3>1, <3>4 DEF WillCatchUp
  <2>4. QED
    BY <2>2, <2>3 DEF ServeInv, SuccessorFollows
<1>9. SnapshotIsBuilt'
  BY <1>1 DEF ServeInv, SnapshotIsBuilt, CompactedRows
<1>10. ReaderOK'
  BY <1>1 DEF ServeInv, ReaderOK
<1>11. QED
  BY <1>4, <1>5, <1>6, <1>7, <1>8, <1>9, <1>10 DEF ServeInv

(* Going back does not move the last cutover. *)
LEMMA OffsetsServeInv ==
  ASSUME ShardInv, ServeInv, Commit \/ Rewind
  PROVE  ServeInv'
<1>1. UNCHANGED <<log, folded, message, pending, acknowledged, tables, serving, targets, job,
                  next_generation, load, reader>>
      /\ message = NoRow
  BY DEF Commit, Rewind, Idle, driver, history
<1>2. \A p \in Partitions : next[p] \in Nat /\ next'[p] \in Nat /\ next'[p] <= next[p]
  BY DEF Commit, Rewind, ShardInv, StreamOK
<1>4. RowsAreInLog'
  BY <1>1 DEF ServeInv, RowsAreInLog, InLog
<1>5. LayersAreFolded' /\ StreamIsServed'
  BY <1>1 DEF ServeInv, LayersAreFolded, IsFolded, StreamIsServed, StreamTarget
<1>6. ServesTheStream' /\ HalfAppliedIsServed'
  BY <1>1 DEF ServeInv, ServesTheStream, HalfAppliedIsServed, HalfApplied, Get
<1>7. SuccessorIsContained'
  BY <1>1 DEF ServeInv, SuccessorIsContained, ServingRow, SuccessorRow
<1>8. SuccessorFollows'
  <2> SUFFICES ASSUME job.kind # "none", serving = job.previous, NEW j \in Keys
               PROVE  (HasCaughtUp(j) \/ WillCatchUp(j))'
    BY <1>1 DEF SuccessorFollows
  <2>1. ServingRow(j)' = ServingRow(j) /\ SuccessorRow(j)' = SuccessorRow(j)
        /\ BoundaryRows' = BoundaryRows
    BY <1>1 DEF ServingRow, SuccessorRow, BoundaryRows
  <2>2. CASE HasCaughtUp(j)
    BY <2>1, <2>2 DEF HasCaughtUp
  <2>3. CASE WillCatchUp(j)
    <3> DEFINE c == ServingRow(j)
    <3>1. c # NoRow /\ SuccessorRow(j) # NoRow /\ next[c.partition] <= c.offset
      BY <1>1, <2>3 DEF WillCatchUp
    <3>2. c \in UpdateRows
      BY <3>1, GenerationFacts, LatestFacts DEF ServingRow
    <3>3. c.partition \in Partitions /\ c.offset \in Nat
      BY <3>2, RowFacts
    <3>4. next'[c.partition] <= c.offset
      BY <1>2, <3>1, <3>3
    <3>5. QED
      BY <2>1, <2>3, <3>1, <3>4 DEF WillCatchUp
  <2>4. QED
    BY <2>2, <2>3 DEF ServeInv, SuccessorFollows
<1>9. SnapshotIsBuilt'
  BY <1>1 DEF ServeInv, SnapshotIsBuilt, CompactedRows
<1>10. ReaderOK'
  BY <1>1 DEF ServeInv, ReaderOK
<1>11. QED
  BY <1>4, <1>5, <1>6, <1>7, <1>8, <1>9, <1>10 DEF ServeInv

-----------------------------------------------------------------------------
(* Applying a message. *)

(* A message from behind the last cutover would not be: this one is newer  *)
(* than every row of the layers below: what the serving table makes of it is what must be served.*)
LEMMA FirstTargetServes ==
  ASSUME ShardInv, ServeInv, message # NoRow, ~HalfApplied,
         Fits(tables[serving.generation], message)
  PROVE  LET k == message.primary_key
             row == IF Replaces(tables[serving.generation], message)
                      THEN message ELSE ServingRow(k)
         IN  /\ Layered(row, serving, k) = Newest(acknowledged[k], message)
             /\ row # NoRow /\ row.partition = message.partition /\ message.offset <= row.offset
<1> DEFINE k == message.primary_key
           t == tables[serving.generation]
           c == ServingRow(k)
<1>1. /\ message \in UpdateRows /\ k \in Keys /\ message.offset \in Nat
      /\ message.partition \in Partitions /\ message.partition \in Nat
  BY RowFacts DEF ShardInv, StreamOK
<1>2. acknowledged[k] = Layered(c, serving, k)
  BY <1>1, GetIsLayered DEF ServeInv, ServesTheStream
<1>3. CASE c # NoRow
  <2>1. c \in UpdateRows /\ c.offset \in Nat /\ c.partition = message.partition
    BY <1>1, <1>3, GenerationFacts, LatestFacts, RowFacts DEF ServingRow, Fits
  <2>2. acknowledged[k] = c
    BY <1>2, <1>3 DEF Layered
  <2>3. Replaces(t, message) <=> c.offset < message.offset
    BY <1>3 DEF Replaces, ServingRow
  <2>4. QED
    BY <1>1, <1>3, <2>1, <2>2, <2>3 DEF Newest, Layered
<1>4. CASE c = NoRow
  <2>1. Replaces(t, message)
    BY <1>4 DEF Replaces, ServingRow
  <2>2. acknowledged[k] = SnapshotRow(serving.compact, k)
          \/ acknowledged[k] = SnapshotRow(serving.full, k)
    BY <1>2, <1>4 DEF Layered
  <2>3. IsFolded(acknowledged[k])
    BY <1>1, <2>2 DEF ServeInv, LayersAreFolded
  <2>4. folded[message.partition] <= message.offset /\ folded[message.partition] \in Nat
    BY <1>1 DEF ServeInv, RowsAreInLog, ShardInv, HistoryOK
  <2>5. ~(acknowledged[k] # NoRow /\ acknowledged[k].partition = message.partition
            /\ message.offset <= acknowledged[k].offset)
    <3>1. CASE acknowledged[k] \in UpdateRows
      <4>1. acknowledged[k].offset \in Nat
            /\ acknowledged[k].offset < folded[acknowledged[k].partition]
        BY <2>3, <3>1, RowFacts DEF IsFolded
      <4>2. QED
        BY <1>1, <2>4, <4>1
    <3>2. CASE acknowledged[k] \notin UpdateRows
      <4>1. acknowledged[k] \in {NoRow, ArtifactRow(k)}
        BY <1>1, <3>2, FirstFullFacts DEF ShardInv, AcknowledgedOK
      <4>2. QED
        BY <1>1, <4>1, RowFacts
    <3>3. QED
      BY <3>1, <3>2
  <2>6. Newest(acknowledged[k], message) = message
    BY <2>5 DEF Newest
  <2>7. QED
    BY <1>1, <2>1, <2>6, RowFacts DEF Layered
<1>5. QED
  BY <1>3, <1>4

(* The second target has room for what the first one took. *)
LEMMA SecondTargetFits ==
  ASSUME ShardInv, ServeInv, message # NoRow, ToSecond
  PROVE  HalfApplied /\ Fits(tables[job.successor], message)
<1> DEFINE k == message.primary_key
           t == tables[serving.generation]
           s == tables[job.successor]
<1>1. k \in Keys
  BY RowFacts DEF ShardInv, StreamOK
<1>2. HalfApplied
  <2>1. Len(pending) = 1 /\ Len(targets) = 2
    BY DEF ToSecond
  <2>2. QED
    BY <2>1 DEF HalfApplied
<1>3. ServingRow(k) # NoRow /\ ServingRow(k).partition = message.partition
  BY <1>2 DEF ServeInv, HalfAppliedIsServed
<1>4. CASE s.latest[k] # NoRow
  <2>1. s.latest[k].partition = ServingRow(k).partition
    BY <1>1, <1>4 DEF ToSecond, ServeInv, SuccessorIsContained, SuccessorRow
  <2>2. QED
    BY <1>2, <1>3, <1>4, <2>1 DEF Fits
<1>5. CASE s.latest[k] = NoRow
  <2>1. KeysOf(s) \subseteq KeysOf(t)
    BY DEF ToSecond, ServeInv, SuccessorIsContained, SuccessorRow, ServingRow, KeysOf
  <2>2. k \in KeysOf(t) /\ k \notin KeysOf(s)
    BY <1>1, <1>3, <1>5 DEF KeysOf, ServingRow
  <2>3. Cardinality(KeysOf(s)) <= Cardinality(KeysOf(t))
        /\ Cardinality(KeysOf(t)) # Cardinality(KeysOf(s))
    BY <2>1, <2>2, KeysOfFinite, FS_Subset
  <2>4. KeyCount(t) <= Capacity
    BY GenerationFacts DEF ShardInv, TablesOK
  <2>5. KeyCount(s) < Capacity
    BY <2>3, <2>4, KeysOfFinite, ShardAssumption
  <2>6. QED
    BY <1>2, <1>5, <2>5 DEF Fits
<1>6. QED
  BY <1>4, <1>5

(* What an application to one target does to the tables. *)
LEMMA ApplyFacts ==
  ASSUME ShardInv, ApplyToTarget
  PROVE  LET g == Head(pending) IN
         /\ message # NoRow /\ message \in UpdateRows /\ g \in Generations
         /\ tables[g] \in Tables
         /\ tables' = [tables EXCEPT ![g] = Publish(tables[g], message)]
         /\ \A h \in Generations : h # g => tables'[h] = tables[h]
         /\ \A k \in Keys :
              tables'[g].latest[k]
                = IF k = message.primary_key /\ Replaces(tables[g], message)
                    THEN message ELSE tables[g].latest[k]
         /\ UNCHANGED <<log, next, folded, serving, targets, job, next_generation, load, reader>>
<1> DEFINE g == Head(pending)
<1>1. message # NoRow /\ message \in UpdateRows /\ g \in Generations
  BY PendingFacts DEF ApplyToTarget, ToSecond
<1>2. tables \in [Generations -> Tables]
  BY DEF ShardInv, TablesOK
<1>3. tables' = [tables EXCEPT ![g] = Publish(tables[g], message)]
  BY <1>1, <1>2 DEF ApplyToTarget
<1>4. tables'[g] = Publish(tables[g], message) /\ tables[g] \in Tables
      /\ \A h \in Generations : h # g => tables'[h] = tables[h]
  BY <1>1, <1>2, <1>3
<1>5. UNCHANGED <<log, next, folded, serving, targets, job, next_generation, load, reader>>
  BY DEF ApplyToTarget, driver, history
<1>6. \A k \in Keys :
        tables'[g].latest[k]
          = IF k = message.primary_key /\ Replaces(tables[g], message)
              THEN message ELSE tables[g].latest[k]
  <2> HIDE DEF g
  <2>1. PICK t \in Tables : t = tables[g]
    BY <1>4
  <2>2. \A k \in Keys :
          Publish(t, message).latest[k]
            = IF k = message.primary_key /\ Replaces(t, message) THEN message ELSE t.latest[k]
    BY <1>1, PublishFacts
  <2>3. QED
    BY <1>4, <2>1, <2>2
<1> HIDE DEF g
<1>7. QED
  BY <1>1, <1>3, <1>4, <1>5, <1>6 DEF g

(* Whatever the target: rows stay messages of the log. *)
LEMMA ApplyRowsInLog ==
  ASSUME ShardInv, ServeInv, ApplyToTarget
  PROVE  RowsAreInLog'
<1> DEFINE g == Head(pending)
<1>1. /\ message # NoRow /\ message \in UpdateRows /\ g \in Generations /\ tables[g] \in Tables
      /\ UNCHANGED <<log, next, folded>>
      /\ \A h \in Generations : h # g => tables'[h] = tables[h]
  BY ApplyFacts
<1>2. tables'[g].rows = Append(tables[g].rows, [row |-> message,
         sealed_visible |-> Replaces(tables[g], message)])
  <2>1. tables'[g] = Publish(tables[g], message)
    BY <1>1, ApplyFacts DEF ShardInv, TablesOK
  <2>2. QED
    BY <1>1, <2>1, PublishFacts
<1>3. ASSUME NEW h \in Generations, NEW i \in 1 .. Len(tables'[h].rows)
      PROVE  InLog(tables'[h].rows[i].row)
  <2>1. CASE h # g
    BY <1>1, <2>1 DEF ServeInv, RowsAreInLog
  <2>2. CASE h = g
    <3>1. tables[g].rows \in Seq(Entries) /\ Len(tables[g].rows) \in Nat
      BY <1>1 DEF Tables
    <3>2. \/ i \in 1 .. Len(tables[g].rows) /\ tables'[h].rows[i] = tables[g].rows[i]
          \/ tables'[h].rows[i].row = message
      <4>1. PICK rows \in Seq(Entries) : rows = tables[g].rows /\ Len(rows) \in Nat
        BY <3>1
      <4>2. PICK e : e.row = message /\ tables'[g].rows = Append(rows, e)
        BY <1>2, <4>1
      <4>3. i \in 1 .. Len(Append(rows, e))
        BY <2>2, <4>2
      <4>4. \/ i \in 1 .. Len(rows) /\ Append(rows, e)[i] = rows[i]
            \/ Append(rows, e)[i] = e
        BY <4>1, <4>3
      <4>5. QED
        BY <2>2, <4>1, <4>2, <4>4
    <3>3. InLog(message)
      BY <1>1 DEF ServeInv, RowsAreInLog
    <3>4. QED
      BY <1>1, <3>2, <3>3 DEF ServeInv, RowsAreInLog
  <2>3. QED
    BY <2>1, <2>2
<1>4. ASSUME NEW k \in Keys, acknowledged'[k] \in UpdateRows PROVE InLog(acknowledged'[k])
  <2>1. acknowledged \in [Keys -> SomeRows]
    BY DEF ShardInv, AcknowledgedOK, RowMaps
  <2>2. acknowledged'[k] = acknowledged[k] \/ acknowledged'[k] = message
    BY <2>1 DEF ApplyToTarget, Newest
  <2>3. QED
    BY <1>1, <1>4, <2>2 DEF ServeInv, RowsAreInLog
<1>5. message' # NoRow => message' = message
  BY DEF ApplyToTarget
<1>6. QED
  BY <1>1, <1>3, <1>4, <1>5 DEF ServeInv, RowsAreInLog, InLog

LEMMA ApplyReaderOK ==
  ASSUME ShardInv, ServeInv, ApplyToTarget
  PROVE  ReaderOK'
BY ApplyFacts DEF ServeInv, ReaderOK

LEMMA ApplySame ==
  ASSUME ShardInv, ServeInv, ApplyToTarget
  PROVE  LayersAreFolded' /\ StreamIsServed' /\ SnapshotIsBuilt'
         /\ (job.kind # "none" => BoundaryRows' = BoundaryRows)
<1>1. UNCHANGED <<folded, serving, targets, job>>
  BY ApplyFacts
<1>2. LayersAreFolded' /\ StreamIsServed'
  BY <1>1 DEF ServeInv, LayersAreFolded, IsFolded, StreamIsServed, StreamTarget
<1>3. [Next]_vars
  BY DEF Next
<1>4. job.kind # "none" => /\ BoundaryRows' = BoundaryRows
                           /\ CompactedRows(job.previous, job.boundary)'
                                = CompactedRows(job.previous, job.boundary)
  BY <1>1, <1>3, JobIsFrozen
<1>5. SnapshotIsBuilt'
  <2>1. Over(RowsOf(job.previous.compact), job.previous.full)'
          = Over(RowsOf(job.previous.compact), job.previous.full)
    BY <1>1
  <2>2. QED
    BY <1>1, <1>4, <2>1 DEF ServeInv, SnapshotIsBuilt
<1>6. QED
  BY <1>2, <1>4, <1>5

LEMMA ApplyFirstServeInv ==
  ASSUME ShardInv, ServeInv, ApplyToTarget, ToOnly \/ ToFirst, Head(pending) = serving.generation
  PROVE  ServeInv'
<1> DEFINE g == serving.generation
           t == tables[g]
           ok == PublishSucceeds(t, message)
<1>0. PICK k0 \in Keys : k0 = message.primary_key
  BY ApplyFacts, RowFacts
<1>1. /\ message # NoRow /\ message \in UpdateRows /\ g \in Generations /\ t \in Tables
      /\ UNCHANGED <<log, next, folded, serving, targets, job>>
      /\ \A h \in Generations : h # g => tables'[h] = tables[h]
      /\ \A k \in Keys : tables'[g].latest[k]
           = IF k = k0 /\ Replaces(t, message) THEN message ELSE t.latest[k]
  BY <1>0, ApplyFacts
<1>2. k0 \in Keys /\ message.offset \in Nat /\ message.partition \in Partitions
  BY <1>1, RowFacts
<1>3. ok <=> Fits(t, message)
  BY <1>1, PublishFacts
<1>4. ~HalfApplied
  BY DEF HalfApplied, ToOnly, ToFirst
<1>5. \A k \in Keys : ServingRow(k)' = IF k = k0 /\ Replaces(t, message) THEN message ELSE ServingRow(k)
  BY <1>1 DEF ServingRow
<1>6. job.kind # "none" => \A k \in Keys : SuccessorRow(k)' = SuccessorRow(k)
  BY <1>1, GenerationFacts DEF SuccessorRow
<1>7. \A k \in Keys : Get(serving, k)' = Layered(ServingRow(k)', serving, k)
                      /\ acknowledged[k] = Layered(ServingRow(k), serving, k)
  BY <1>1, <1>4, GetIsLayered DEF ServeInv, ServesTheStream, ServingRow
<1>8. acknowledged \in [Keys -> SomeRows]
  BY DEF ShardInv, AcknowledgedOK, RowMaps
<1>9. RowsAreInLog' /\ LayersAreFolded' /\ StreamIsServed' /\ SnapshotIsBuilt' /\ ReaderOK'
      /\ (job.kind # "none" => BoundaryRows' = BoundaryRows)
  BY ApplyRowsInLog, ApplySame, ApplyReaderOK
(* refused *)
<1>10. CASE ~Fits(t, message)
  <2>1. message' = NoRow /\ acknowledged' = acknowledged
    BY <1>3, <1>10 DEF ApplyToTarget
  <2>2. \A k \in Keys : ServingRow(k)' = ServingRow(k)
    BY <1>5, <1>10 DEF Replaces
  <2>3. ServesTheStream' /\ HalfAppliedIsServed'
    BY <1>7, <2>1, <2>2 DEF ServesTheStream, HalfAppliedIsServed, HalfApplied
  <2>4. SuccessorIsContained'
    BY <1>1, <1>6, <2>2 DEF ServeInv, SuccessorIsContained
  <2>5. SuccessorFollows'
    <3> SUFFICES ASSUME job.kind # "none", serving = job.previous, NEW k \in Keys
                 PROVE  (HasCaughtUp(k) \/ WillCatchUp(k))'
      BY <1>1 DEF SuccessorFollows
    <3>1. message # ServingRow(k)
      <4> SUFFICES ASSUME message = ServingRow(k) PROVE FALSE
        OBVIOUS
      <4>1. k = k0
        BY <1>0, <1>1, LatestFacts DEF ServingRow
      <4>2. QED
        BY <1>0, <1>1, <1>10, <4>1 DEF Fits, ServingRow
    <3>2. QED
      BY <1>1, <1>6, <1>9, <2>1, <2>2, <3>1
         DEF ServeInv, SuccessorFollows, HasCaughtUp, WillCatchUp
  <2>6. QED
    BY <1>9, <2>3, <2>4, <2>5 DEF ServeInv
<1>11. ASSUME Fits(t, message)
       PROVE  /\ Layered(ServingRow(k0)', serving, k0) = Newest(acknowledged[k0], message)
              /\ ServingRow(k0)' # NoRow
              /\ ServingRow(k0)'.partition = message.partition
              /\ message.offset <= ServingRow(k0)'.offset
  <2>1. ServingRow(k0)' = IF Replaces(t, message) THEN message ELSE ServingRow(k0)
    BY <1>2, <1>5
  <2>2. QED
    BY <1>0, <1>1, <1>4, <1>11, <2>1, FirstTargetServes
(* the only target *)
<1>12. CASE Fits(t, message) /\ ToOnly
  <2>1. message' = NoRow /\ acknowledged' = [acknowledged EXCEPT ![k0] = Newest(acknowledged[k0], message)]
    <3>1. Len(pending) = 1
      BY <1>12 DEF ToOnly
    <3>2. QED
      BY <1>0, <1>2, <1>3, <1>8, <1>12, <3>1 DEF ApplyToTarget
  <2>2. ServesTheStream'
    <3>1. ASSUME NEW k \in Keys PROVE Get(serving, k)' = acknowledged'[k]
      <4>1. CASE k = k0
        BY <1>7, <1>8, <1>11, <1>12, <2>1, <4>1
      <4>2. CASE k # k0
        BY <1>5, <1>7, <1>8, <2>1, <4>2
      <4>3. QED
        BY <4>1, <4>2
    <3>2. QED
      BY <2>1, <3>1 DEF ServesTheStream, HalfApplied
  <2>3. HalfAppliedIsServed'
    BY <2>1 DEF HalfAppliedIsServed, HalfApplied
  <2>4. SuccessorIsContained' /\ SuccessorFollows'
    BY <1>1, <1>12 DEF ToOnly, SuccessorIsContained, SuccessorFollows
  <2>5. QED
    BY <1>9, <2>2, <2>3, <2>4 DEF ServeInv
(* the first of two *)
<1>13. CASE Fits(t, message) /\ ToFirst
  <2>0. job.kind # "none"
    BY <1>13 DEF ToFirst
  <2>1. message' = message /\ acknowledged' = acknowledged
    <3>1. Len(pending) = 2
      BY <1>13 DEF ToFirst
    <3>2. QED
      BY <1>3, <1>13, <3>1 DEF ApplyToTarget
  <2>2. HalfApplied'
    <3>1. pending' = Tail(pending) /\ targets' = targets
      BY <1>1, <1>3, <1>13 DEF ApplyToTarget
    <3>2. pending = <<g, job.successor>> /\ targets = <<g, job.successor>>
      BY <1>13 DEF ToFirst, ServeInv, StreamIsServed
    <3>3. Tail(<<g, job.successor>>) # <<g, job.successor>>
      <4>1. Len(Tail(<<g, job.successor>>)) = 1 /\ Len(<<g, job.successor>>) = 2
        OBVIOUS
      <4>2. QED
        BY <4>1
    <3>4. QED
      BY <1>1, <2>1, <3>1, <3>2, <3>3 DEF HalfApplied
  <2>3. ServesTheStream'
    <3>1. ASSUME NEW k \in Keys
          PROVE  Get(serving, k)' = IF k = k0 THEN Newest(acknowledged[k], message) ELSE acknowledged[k]
      <4>1. CASE k = k0
        BY <1>7, <1>11, <1>13, <4>1
      <4>2. CASE k # k0
        BY <1>5, <1>7, <4>2
      <4>3. QED
        BY <4>1, <4>2
    <3>2. QED
      BY <1>0, <2>1, <2>2, <3>1 DEF ServesTheStream, Newest
  <2>4. HalfAppliedIsServed'
    <3>1. /\ ServingRow(message.primary_key)' # NoRow
          /\ ServingRow(message.primary_key)'.partition = message.partition
          /\ message.offset <= ServingRow(message.primary_key)'.offset
      <4>1. ServingRow(message.primary_key)' = ServingRow(k0)'
        BY <1>0, <2>1 DEF ServingRow
      <4>2. QED
        BY <1>11, <1>13, <4>1
    <3>2. QED
      BY <2>1, <3>1 DEF HalfAppliedIsServed
  (* the new row is above what both tables had *)
  <2>5. ASSUME Replaces(t, message), SuccessorRow(k0) # NoRow
        PROVE  SuccessorRow(k0).partition = message.partition
               /\ SuccessorRow(k0).offset < message.offset
               /\ SuccessorRow(k0).offset \in Nat
    <3>1. /\ ServingRow(k0) # NoRow /\ SuccessorRow(k0).partition = ServingRow(k0).partition
          /\ SuccessorRow(k0).offset <= ServingRow(k0).offset
      BY <1>2, <2>0, <2>5 DEF ServeInv, SuccessorIsContained
    <3>2. ServingRow(k0).partition = message.partition /\ ServingRow(k0).offset < message.offset
      BY <1>0, <2>5, <3>1 DEF Replaces, Fits, ServingRow
    <3>3. ServingRow(k0) \in UpdateRows /\ SuccessorRow(k0) \in UpdateRows
      BY <1>1, <1>2, <2>0, <2>5, <3>1, GenerationFacts, LatestFacts DEF ServingRow, SuccessorRow
    <3>4. ServingRow(k0).offset \in Nat /\ SuccessorRow(k0).offset \in Nat
      BY <3>3, RowFacts
    <3>5. QED
      BY <1>2, <3>1, <3>2, <3>4
  <2>6. SuccessorIsContained'
    <3> SUFFICES ASSUME NEW k \in Keys, SuccessorRow(k) # NoRow
                 PROVE  /\ ServingRow(k)' # NoRow
                        /\ SuccessorRow(k).partition = ServingRow(k)'.partition
                        /\ SuccessorRow(k).offset <= ServingRow(k)'.offset
      BY <1>1, <1>6, <2>0 DEF SuccessorIsContained
    <3>1. CASE k = k0 /\ Replaces(t, message)
      BY <1>1, <1>2, <1>5, <2>5, <3>1
    <3>2. CASE ~(k = k0 /\ Replaces(t, message))
      BY <1>5, <2>0, <3>2 DEF ServeInv, SuccessorIsContained
    <3>3. QED
      BY <3>1, <3>2
  <2>7. SuccessorFollows'
    <3> SUFFICES ASSUME serving = job.previous, NEW k \in Keys
                 PROVE  (HasCaughtUp(k) \/ WillCatchUp(k))'
      BY <1>1 DEF SuccessorFollows
    <3>1. CASE k = k0 /\ Replaces(t, message)
      <4>1. ServingRow(k)' = message /\ SuccessorRow(k)' = SuccessorRow(k)
        BY <1>5, <1>6, <2>0, <3>1
      <4>2. WillCatchUp(k)'
        BY <1>1, <2>1, <2>5, <3>1, <4>1 DEF WillCatchUp
      <4>3. QED
        BY <4>2
    <3>2. CASE ~(k = k0 /\ Replaces(t, message))
      <4>1. ServingRow(k)' = ServingRow(k) /\ SuccessorRow(k)' = SuccessorRow(k)
        BY <1>5, <1>6, <2>0, <3>2
      <4>2. HasCaughtUp(k) \/ WillCatchUp(k)
        BY <2>0 DEF ServeInv, SuccessorFollows
      <4>3. QED
        BY <1>1, <1>9, <2>0, <2>1, <4>1, <4>2 DEF HasCaughtUp, WillCatchUp
    <3>3. QED
      BY <3>1, <3>2
  <2>8. QED
    BY <1>9, <2>3, <2>4, <2>6, <2>7 DEF ServeInv
<1>14. QED
  BY <1>10, <1>12, <1>13

LEMMA ApplySecondServeInv ==
  ASSUME ShardInv, ServeInv, ApplyToTarget, ToSecond, Head(pending) = job.successor
  PROVE  ServeInv'
<1> DEFINE g == job.successor
           s == tables[g]
<1>0. PICK k0 \in Keys : k0 = message.primary_key
  BY ApplyFacts, RowFacts
<1>1. /\ message # NoRow /\ message \in UpdateRows /\ g \in Generations /\ s \in Tables
      /\ UNCHANGED <<log, next, folded, serving, targets, job>>
      /\ \A h \in Generations : h # g => tables'[h] = tables[h]
      /\ \A k \in Keys : tables'[g].latest[k]
           = IF k = k0 /\ Replaces(s, message) THEN message ELSE s.latest[k]
  BY <1>0, ApplyFacts
<1>2. message.offset \in Nat /\ message.partition \in Partitions
  BY <1>1, RowFacts
<1>3. HalfApplied /\ Fits(s, message) /\ job.kind # "none"
  BY <1>1, SecondTargetFits DEF ToSecond
<1>4. \A k \in Keys : SuccessorRow(k)' = IF k = k0 /\ Replaces(s, message) THEN message ELSE SuccessorRow(k)
  BY <1>1 DEF SuccessorRow
<1>5. \A k \in Keys : ServingRow(k)' = ServingRow(k)
  BY <1>1, <1>3, GenerationFacts DEF ServingRow
<1>6. \A k \in Keys : Get(serving, k)' = Get(serving, k)
  BY <1>1, <1>5, GetIsLayered DEF ServingRow
<1>7. acknowledged \in [Keys -> SomeRows]
  BY DEF ShardInv, AcknowledgedOK, RowMaps
<1>8. message' = NoRow /\ acknowledged' = [acknowledged EXCEPT ![k0] = Newest(acknowledged[k0], message)]
  <2>1. PublishSucceeds(s, message)
    BY <1>1, <1>3, PublishFacts
  <2>2. Len(pending) = 1
    BY DEF ToSecond
  <2>3. QED
    BY <1>0, <1>7, <2>1, <2>2 DEF ApplyToTarget
<1>9. RowsAreInLog' /\ LayersAreFolded' /\ StreamIsServed' /\ SnapshotIsBuilt' /\ ReaderOK'
      /\ BoundaryRows' = BoundaryRows
  BY <1>3, ApplyRowsInLog, ApplySame, ApplyReaderOK
<1>10. ServesTheStream' /\ HalfAppliedIsServed'
  <2>1. \A k \in Keys : Get(serving, k)' = acknowledged'[k]
    BY <1>0, <1>3, <1>6, <1>7, <1>8 DEF ServeInv, ServesTheStream
  <2>2. QED
    BY <1>8, <2>1 DEF ServesTheStream, HalfAppliedIsServed, HalfApplied
<1> DEFINE c == ServingRow(k0)
<1>11. /\ c # NoRow /\ c.partition = message.partition /\ message.offset <= c.offset
       /\ c \in UpdateRows /\ c.primary_key = k0 /\ c.offset \in Nat
  <2>1. c # NoRow /\ c.partition = message.partition /\ message.offset <= c.offset
    BY <1>0, <1>3 DEF ServeInv, HalfAppliedIsServed
  <2>2. c \in UpdateRows /\ c.primary_key = k0
    BY <2>1, GenerationFacts, LatestFacts DEF ServingRow
  <2>3. QED
    BY <2>1, <2>2, RowFacts
<1>12. SuccessorIsContained'
  BY <1>1, <1>4, <1>5, <1>11 DEF ServeInv, SuccessorIsContained
<1>13. SuccessorFollows'
  <2> SUFFICES ASSUME serving = job.previous, NEW k \in Keys
               PROVE  (HasCaughtUp(k) \/ WillCatchUp(k))'
    BY <1>1 DEF SuccessorFollows
  <2>1. HasCaughtUp(k) \/ WillCatchUp(k)
    BY <1>3 DEF ServeInv, SuccessorFollows
  <2>2. next[message.partition] = message.offset + 1
    BY <1>1 DEF ServeInv, RowsAreInLog
  <2>3. CASE k # k0
    <3>1. message # ServingRow(k)
      BY <1>0, <1>1, <2>3, GenerationFacts, LatestFacts DEF ServingRow
    <3>2. QED
      BY <1>1, <1>4, <1>5, <1>9, <2>1, <2>3, <3>1 DEF HasCaughtUp, WillCatchUp
  <2>4. CASE k = k0 /\ Replaces(s, message)
    <3>1. SuccessorRow(k)' = message /\ ServingRow(k)' = c
      BY <1>4, <1>5, <2>4
    <3>2. CASE message.offset = c.offset
      <4>1. message = c
        BY <1>0, <1>1, <1>11, <3>2, RowFacts
      <4>2. HasCaughtUp(k)'
        BY <1>1, <3>1, <4>1 DEF HasCaughtUp
      <4>3. QED
        BY <4>2
    <3>3. CASE message.offset # c.offset
      <4>1. message.offset < c.offset /\ next'[c.partition] <= c.offset
        BY <1>1, <1>2, <1>11, <2>2, <3>3
      <4>2. WillCatchUp(k)'
        BY <1>1, <1>11, <3>1, <4>1 DEF WillCatchUp
      <4>3. QED
        BY <4>2
    <3>4. QED
      BY <3>2, <3>3
  <2>5. CASE k = k0 /\ ~Replaces(s, message)
    <3>1. SuccessorRow(k)' = SuccessorRow(k) /\ ServingRow(k)' = c /\ c = ServingRow(k)
      BY <1>4, <1>5, <2>5
    <3>2. SuccessorRow(k) # NoRow /\ ~(SuccessorRow(k).offset < message.offset)
      BY <1>0, <1>3, <2>5 DEF Replaces, SuccessorRow
    <3>3. SuccessorRow(k).offset \in Nat
      BY <1>1, <3>2, LatestFacts, RowFacts DEF SuccessorRow
    <3>4. CASE HasCaughtUp(k)
      BY <1>9, <3>1, <3>4 DEF HasCaughtUp
    <3>5. CASE WillCatchUp(k)
      <4>1. SuccessorRow(k).partition = c.partition /\ SuccessorRow(k).offset < c.offset
        BY <3>1, <3>2, <3>5 DEF WillCatchUp
      <4>2. next'[c.partition] <= c.offset
        BY <1>1, <1>2, <1>11, <2>2, <3>2, <3>3, <4>1
      <4>3. WillCatchUp(k)'
        BY <1>11, <3>1, <3>2, <4>1, <4>2 DEF WillCatchUp
      <4>4. QED
        BY <4>3
    <3>6. QED
      BY <2>1, <3>4, <3>5
  <2>6. QED
    BY <2>3, <2>4, <2>5
<1>14. QED
  BY <1>9, <1>10, <1>12, <1>13 DEF ServeInv

LEMMA ApplyServeInv ==
  ASSUME ShardInv, ServeInv, ApplyToTarget
  PROVE  ServeInv'
<1>1. message # NoRow
  BY DEF ApplyToTarget
<1>2. QED
  BY <1>1, PendingFacts, ApplyFirstServeInv, ApplySecondServeInv DEF ServeInv, StreamIsServed

-----------------------------------------------------------------------------
(* Maintenance jobs and external loads. *)

(* A job in progress is of no concern to lookups. *)
LEMMA BeginJobFrame ==
  ASSUME ShardInv, ServeInv, NEW kind \in {"compaction", "rebase"}, BeginJob(kind)
  PROVE  /\ RowsAreInLog' /\ LayersAreFolded' /\ StreamIsServed'
         /\ ServesTheStream' /\ HalfAppliedIsServed' /\ ReaderOK'
<1>1. /\ UNCHANGED <<log, next, folded, message, acknowledged, tables, serving, load, reader>>
      /\ message = NoRow /\ next_generation' = next_generation + 1 /\ next_generation \in Nat
  BY DEF BeginJob, Idle, stream, history, Generations
<1>2. job'.successor = next_generation
  BY DEF BeginJob, NoJob
<1>3. RowsAreInLog' /\ LayersAreFolded'
  BY <1>1 DEF ServeInv, RowsAreInLog, InLog, LayersAreFolded, IsFolded
<1>4. ServesTheStream' /\ HalfAppliedIsServed'
  BY <1>1 DEF ServeInv, ServesTheStream, HalfAppliedIsServed, HalfApplied, Get
<1>5. StreamIsServed'
  <2>1. \A a, b : Head(<<a, b>>) = a
    OBVIOUS
  <2>2. StreamTarget' = StreamTarget
    BY <2>1 DEF BeginJob, StreamTarget
  <2>3. QED
    BY <1>1, <2>2 DEF ServeInv, StreamIsServed
<1>6. ReaderOK'
  <2>1. \A n \in 1 .. next_generation - 1 : n \in 1 .. next_generation' - 1 /\ n # next_generation
    BY <1>1
  <2>2. QED
    BY <1>1, <1>2, <2>1 DEF ServeInv, ReaderOK
<1>7. QED
  BY <1>3, <1>4, <1>5, <1>6

LEMMA BeginJobServeInv ==
  ASSUME ShardInv, ServeInv, NEW kind \in {"compaction", "rebase"}, BeginJob(kind)
  PROVE  ServeInv'
<1>1. UNCHANGED <<stream, tables, serving, reader>> /\ message = NoRow
      /\ next_generation' = next_generation + 1 /\ next_generation \in Generations
  BY DEF BeginJob, Idle
<1>2. /\ job'.kind = kind /\ job'.built = FALSE /\ job'.successor = next_generation
      /\ job'.previous = serving /\ job'.boundary = Len(tables[serving.generation].rows)
  BY DEF BeginJob, NoJob, CaptureCompactionBoundary
<1>3. /\ RowsAreInLog' /\ LayersAreFolded' /\ StreamIsServed'
      /\ ServesTheStream' /\ HalfAppliedIsServed' /\ ReaderOK'
  BY BeginJobFrame
<1>4. \A k \in Keys : SuccessorRow(k)' = NoRow
  <2>1. tables[next_generation] = EmptyTable
    BY <1>1 DEF ShardInv, TablesOK, Generations
  <2>2. QED
    BY <1>1, <1>2, <2>1 DEF SuccessorRow, EmptyTable
<1>5. SuccessorIsContained' /\ SnapshotIsBuilt'
  BY <1>2, <1>4 DEF SuccessorIsContained, SnapshotIsBuilt
<1>6. BoundaryRows' = tables[serving.generation].latest
  <2>1. BoundaryRows' = ScanVisibleRows(tables[serving.generation], Len(tables[serving.generation].rows))
    BY <1>1, <1>2 DEF BoundaryRows
  <2>2. tables[serving.generation] \in Tables /\ LatestIsNewestSealed(tables[serving.generation])
    BY GenerationFacts DEF ShardInv, TablesOK
  <2>3. QED
    BY <2>1, <2>2, ScanFindsLatest
<1>7. SuccessorFollows'
  BY <1>1, <1>4, <1>6 DEF SuccessorFollows, HasCaughtUp, ServingRow
<1>8. QED
  BY <1>3, <1>5, <1>7 DEF ServeInv

(* A table that is neither served nor a target nor one that a lookup holds *)
(* on to may change: whatever it holds are messages of the log.            *)
LEMMA UnreadTableFrame ==
  ASSUME ShardInv, ServeInv, NEW g \in Generations,
         \A h \in Generations : h # g => tables'[h] = tables[h],
         \A i \in 1 .. Len(tables'[g].rows) : InLog(tables'[g].rows[i].row),
         g # serving.generation, UNCHANGED <<stream, history, serving>>
  PROVE  /\ RowsAreInLog' /\ LayersAreFolded'
         /\ \A k \in Keys : ServingRow(k)' = ServingRow(k)
         /\ \A k \in Keys : Get(serving, k)' = Get(serving, k)
<1>1. UNCHANGED <<log, next, folded, message, pending, acknowledged, serving>>
  BY DEF stream, history
<1>2. \A k \in Keys : ServingRow(k)' = ServingRow(k)
  BY <1>1, GenerationFacts DEF ServingRow
<1>3. \A k \in Keys : Get(serving, k)' = Get(serving, k)
  BY <1>1, GenerationFacts, GetIsLayered DEF ServingRow
<1>4. \A h \in Generations : \A i \in 1 .. Len(tables'[h].rows) : InLog(tables'[h].rows[i].row)
  BY DEF ServeInv, RowsAreInLog
<1>5. RowsAreInLog'
  BY <1>1, <1>4 DEF ServeInv, RowsAreInLog, InLog
<1>6. LayersAreFolded'
  BY <1>1 DEF ServeInv, LayersAreFolded, IsFolded
<1>7. QED
  BY <1>2, <1>3, <1>5, <1>6

LEMMA EmptyTableHasNoRows == \A i \in 1 .. Len(EmptyTable.rows) : FALSE
<1>1. EmptyTable.rows = <<>> /\ Len(<<>>) = 0
  BY DEF EmptyTable
<1>2. QED
  BY <1>1

LEMMA AbandonServeInv ==
  ASSUME ShardInv, ServeInv, AbandonJob
  PROVE  ServeInv'
<1>1. /\ UNCHANGED <<stream, history, serving, load, reader, next_generation>>
      /\ message = NoRow /\ job' = NoJob /\ job.kind # "none" /\ targets' = <<StreamTarget>>
  BY DEF AbandonJob
<1>2. PICK g \in Generations : g = job.successor /\ g < next_generation /\ g # serving.generation
  BY <1>1, GenerationFacts
<1>3. tables' = [tables EXCEPT ![g] = EmptyTable] /\ tables \in [Generations -> Tables]
  BY <1>2 DEF AbandonJob, ShardInv, TablesOK
<1>4. tables'[g] = EmptyTable /\ \A h \in Generations : h # g => tables'[h] = tables[h]
  BY <1>3
<1>5. \A i \in 1 .. Len(tables'[g].rows) : InLog(tables'[g].rows[i].row)
  BY <1>4, EmptyTableHasNoRows
<1>6. /\ RowsAreInLog' /\ LayersAreFolded'
      /\ \A k \in Keys : Get(serving, k)' = Get(serving, k)
  BY <1>1, <1>2, <1>4, <1>5, UnreadTableFrame
<1>7. StreamIsServed'
  <2>1. \A a : Head(<<a>>) = a
    OBVIOUS
  <2>2. StreamTarget' = StreamTarget
    BY <1>1, <2>1 DEF StreamTarget
  <2>3. QED
    BY <1>1, <2>2 DEF ServeInv, StreamIsServed
<1>8. ServesTheStream' /\ HalfAppliedIsServed'
  <2>1. UNCHANGED <<message, acknowledged>>
    BY <1>1 DEF stream
  <2>2. QED
    BY <1>1, <1>6, <2>1 DEF ServeInv, ServesTheStream, HalfAppliedIsServed, HalfApplied
<1>9. ReaderOK'
  BY <1>1, NoJobFacts DEF ServeInv, ReaderOK
<1>10. QED
  BY <1>1, <1>6, <1>7, <1>8, <1>9, NoJobFacts
     DEF ServeInv, SuccessorIsContained, SuccessorFollows, SnapshotIsBuilt

(* The table of a load changes or is given up: neither the shard nor a job *)
(* reads it.                                                               *)
LEMMA LoadTableServeInv ==
  ASSUME ShardInv, ServeInv, NEW g \in Generations, g # serving.generation,
         job.kind # "none" => g # job.successor /\ g # job.previous.generation,
         \A h \in Generations : h # g => tables'[h] = tables[h],
         \A i \in 1 .. Len(tables'[g].rows) : InLog(tables'[g].rows[i].row),
         UNCHANGED <<stream, history, serving, driver, reader>>,
         load'.active => load'.active = load.active /\ load'.generation = load.generation
  PROVE  ServeInv'
<1>1. UNCHANGED <<log, next, folded, message, pending, acknowledged, targets, job, next_generation>>
  BY DEF stream, history, driver
<1>2. /\ RowsAreInLog' /\ LayersAreFolded'
      /\ \A k \in Keys : ServingRow(k)' = ServingRow(k)
      /\ \A k \in Keys : Get(serving, k)' = Get(serving, k)
  BY UnreadTableFrame
<1>3. job.kind # "none" =>
        /\ tables'[job.successor] = tables[job.successor]
        /\ tables'[job.previous.generation] = tables[job.previous.generation]
  BY JobGenerations
<1>4. job.kind # "none" =>
        /\ \A k \in Keys : SuccessorRow(k)' = SuccessorRow(k)
        /\ BoundaryRows' = BoundaryRows
        /\ CompactedRows(job.previous, job.boundary)' = CompactedRows(job.previous, job.boundary)
  BY <1>1, <1>3 DEF SuccessorRow, BoundaryRows, CompactedRows
<1>5. StreamIsServed'
  BY <1>1 DEF ServeInv, StreamIsServed, StreamTarget
<1>6. ServesTheStream' /\ HalfAppliedIsServed'
  <2>1. ServesTheStream'
    BY <1>1, <1>2 DEF ServeInv, ServesTheStream, HalfApplied
  <2>2. HalfAppliedIsServed'
    <3> SUFFICES ASSUME HalfApplied
                 PROVE  /\ ServingRow(message.primary_key)' # NoRow
                        /\ ServingRow(message.primary_key)'.partition = message.partition
                        /\ message.offset <= ServingRow(message.primary_key)'.offset
      BY <1>1 DEF HalfAppliedIsServed, HalfApplied
    <3>1. message.primary_key \in Keys
      BY RowFacts DEF HalfApplied, ShardInv, StreamOK
    <3>2. ServingRow(message.primary_key)' = ServingRow(message.primary_key)
      BY <1>1, <3>1, GenerationFacts DEF ServingRow
    <3>3. QED
      BY <3>2 DEF ServeInv, HalfAppliedIsServed
  <2>3. QED
    BY <2>1, <2>2
<1>7. SuccessorIsContained' /\ SuccessorFollows'
  BY <1>1, <1>2, <1>4 DEF ServeInv, SuccessorIsContained, SuccessorFollows, HasCaughtUp, WillCatchUp
<1>8. SnapshotIsBuilt'
  <2>1. Over(RowsOf(job.previous.compact), job.previous.full)'
          = Over(RowsOf(job.previous.compact), job.previous.full)
    BY <1>1
  <2>2. QED
    BY <1>1, <1>4, <2>1 DEF ServeInv, SnapshotIsBuilt
<1>9. ReaderOK'
  BY <1>1 DEF ServeInv, ReaderOK
<1>10. QED
  BY <1>2, <1>5, <1>6, <1>7, <1>8, <1>9 DEF ServeInv

LEMMA LoadReplaysServeInv ==
  ASSUME ShardInv, ServeInv, NEW p \in Partitions, LoadReplays(p)
  PROVE  ServeInv'
<1>1. PICK g \in Generations, row \in UpdateRows :
           /\ g = load.generation /\ g # serving.generation
           /\ job.kind # "none" => g # job.successor /\ g # job.previous.generation
           /\ InLog(row)
           /\ tables' = [tables EXCEPT ![g] = Publish(tables[g], row)]
           /\ UNCHANGED <<stream, history, serving, driver, reader>>
           /\ load' = [load EXCEPT !.position[p] = load.position[p] + 1]
  BY LoadFacts
<1>2. tables \in [Generations -> Tables]
  BY DEF ShardInv, TablesOK
<1>3. PICK t \in Tables : t = tables[g]
  BY <1>2
<1>4. tables'[g] = Publish(t, row) /\ \A h \in Generations : h # g => tables'[h] = tables[h]
  BY <1>1, <1>2, <1>3
<1>5. PICK rows \in Seq(Entries) : rows = t.rows
  BY DEF Tables
<1>6. PICK e : e.row = row /\ Publish(t, row).rows = Append(rows, e)
  <2>1. Publish(t, row).rows
          = Append(t.rows, [row |-> row, sealed_visible |-> Replaces(t, row)])
    BY PublishFacts
  <2>2. PICK f : f = [row |-> row, sealed_visible |-> Replaces(t, row)]
    OBVIOUS
  <2>3. f.row = row
    BY <2>2
  <2>4. QED
    BY <1>5, <2>1, <2>2, <2>3
<1>7. ASSUME NEW i \in 1 .. Len(tables'[g].rows) PROVE InLog(tables'[g].rows[i].row)
  <2>1. i \in 1 .. Len(Append(rows, e)) /\ tables'[g].rows[i] = Append(rows, e)[i]
    BY <1>4, <1>6
  <2>2. \/ i \in 1 .. Len(rows) /\ Append(rows, e)[i] = rows[i]
        \/ Append(rows, e)[i] = e
    BY <2>1
  <2>3. \A j \in 1 .. Len(rows) : InLog(rows[j].row)
    BY <1>3, <1>5 DEF ServeInv, RowsAreInLog
  <2>4. QED
    BY <1>1, <1>6, <2>1, <2>2, <2>3
<1>8. load'.active = load.active /\ load'.generation = load.generation
  BY <1>1 DEF ShardInv, LoadOK
<1>9. QED
  BY <1>1, <1>4, <1>7, <1>8, LoadTableServeInv

LEMMA LoadEndsServeInv ==
  ASSUME ShardInv, ServeInv, LoadEnds
  PROVE  ServeInv'
<1>1. UNCHANGED <<stream, history, serving, driver, reader>> /\ load' = NoLoad /\ load.active
  BY DEF LoadEnds
<1>2. PICK g \in Generations :
        /\ g = load.generation /\ g # serving.generation
        /\ job.kind # "none" => g # job.successor /\ g # job.previous.generation
  <2>1. load.generation \in 1 .. next_generation - 1 /\ next_generation \in 2 .. MaxGeneration + 1
    BY <1>1 DEF ShardInv, LoadOK, GenerationsOK
  <2>2. load.generation \in Generations
    BY <2>1, ShardAssumption DEF Generations
  <2>3. QED
    BY <1>1, <2>2 DEF ShardInv, LoadOK
<1>3. tables' = [tables EXCEPT ![g] = EmptyTable] /\ tables \in [Generations -> Tables]
  BY <1>2 DEF LoadEnds, ShardInv, TablesOK
<1>4. tables'[g] = EmptyTable /\ \A h \in Generations : h # g => tables'[h] = tables[h]
  BY <1>3
<1>5. \A i \in 1 .. Len(tables'[g].rows) : InLog(tables'[g].rows[i].row)
  BY <1>4, EmptyTableHasNoRows
<1>6. QED
  BY <1>1, <1>2, <1>4, <1>5, NoLoadFacts, LoadTableServeInv

LEMMA BuildServeInv ==
  ASSUME ShardInv, ServeInv, BuildCompactedDeltaSnapshot \/ BuildRebasedFullSnapshot
  PROVE  ServeInv'
<1>0. job.kind # "none" /\ job \in Jobs
  BY DEF BuildCompactedDeltaSnapshot, BuildRebasedFullSnapshot, ShardInv, GenerationsOK
<1>1. PICK snapshot :
        /\ Built(snapshot)
        /\ job.kind = "compaction" => snapshot = CompactedRows(job.previous, job.boundary)
        /\ job.kind = "rebase" => /\ job.previous.full # NoSnapshot
                                  /\ snapshot = Over(RowsOf(job.previous.compact), job.previous.full)
  BY DEF BuildCompactedDeltaSnapshot, BuildRebasedFullSnapshot
<1>2. /\ job'.kind = job.kind /\ job'.boundary = job.boundary /\ job'.snapshot = snapshot
      /\ job'.successor = job.successor /\ job'.previous = job.previous
  BY <1>0, <1>1 DEF Jobs, Built
<1>3. UNCHANGED <<log, next, folded, message, pending, acknowledged, tables, serving, targets,
                  next_generation, load, reader>>
  BY <1>1 DEF Built, stream, history
<1>4. RowsAreInLog' /\ LayersAreFolded' /\ StreamIsServed'
  BY <1>3 DEF ServeInv, RowsAreInLog, InLog, LayersAreFolded, IsFolded, StreamIsServed, StreamTarget
<1>5. ServesTheStream' /\ HalfAppliedIsServed'
  BY <1>3 DEF ServeInv, ServesTheStream, HalfAppliedIsServed, HalfApplied, ServingRow, Get
<1>6. SuccessorIsContained' /\ SuccessorFollows'
  BY <1>2, <1>3 DEF ServeInv, SuccessorIsContained, SuccessorFollows, HasCaughtUp, WillCatchUp,
                    ServingRow, SuccessorRow, BoundaryRows
<1>7. SnapshotIsBuilt'
  BY <1>1, <1>2, <1>3 DEF SnapshotIsBuilt, CompactedRows
<1>8. ReaderOK'
  BY <1>2, <1>3 DEF ServeInv, ReaderOK
<1>9. QED
  BY <1>4, <1>5, <1>6, <1>7, <1>8 DEF ServeInv

(* At the end of the log nothing is left for the successor to catch up     *)
(* with.                                                                   *)
LEMMA SuccessorHasCaughtUp ==
  ASSUME ShardInv, ServeInv, job.kind # "none", serving = job.previous, message = NoRow,
         ~Behind, NEW k \in Keys
  PROVE  HasCaughtUp(k)
<1> SUFFICES ASSUME WillCatchUp(k) PROVE FALSE
  BY DEF ServeInv, SuccessorFollows
<1> DEFINE r == ServingRow(k)
<1>1. r # NoRow /\ next[r.partition] <= r.offset
  BY DEF WillCatchUp
<1>2. r \in UpdateRows /\ InLog(r)
  BY <1>1, GenerationFacts, LatestFacts DEF ServingRow, ServeInv
<1>3. r.partition \in Partitions /\ r.offset \in Nat
  BY <1>2, RowFacts DEF UpdateRows
<1>4. r.offset < Len(log[r.partition]) /\ ~(next[r.partition] < Len(log[r.partition]))
  BY <1>2, <1>3 DEF InLog, Behind
<1>5. next[r.partition] \in Nat /\ Len(log[r.partition]) \in Nat
  BY <1>3 DEF ShardInv, StreamOK
<1>6. QED
  BY <1>1, <1>3, <1>4, <1>5

(* The rows that a job compacts are messages of the log. *)
LEMMA BoundaryRowsFacts ==
  ASSUME ShardInv, ServeInv, job.kind # "none", NEW k \in Keys
  PROVE  /\ BoundaryRows \in [Keys -> UpdateRows \cup {NoRow}]
         /\ BoundaryRows[k] \in UpdateRows => InLog(BoundaryRows[k])
<1>1. PICK g \in Generations : g = job.previous.generation
  BY GenerationFacts
<1>2. PICK b \in Nat : b = job.boundary
  BY DEF ShardInv, GenerationsOK, Jobs
<1>3. tables[g] \in Tables /\ LatestIsNewestSealed(tables[g])
  BY DEF ShardInv, TablesOK
<1>4. BoundaryRows = ScanVisibleRows(tables[g], b)
  BY <1>1, <1>2 DEF BoundaryRows
<1>5. BoundaryRows \in [Keys -> UpdateRows \cup {NoRow}]
      /\ (BoundaryRows[k] # NoRow => BoundaryRows[k] \in SealedRows(tables[g], b, k))
  BY <1>3, <1>4, ScanType
<1>6. ASSUME BoundaryRows[k] \in UpdateRows PROVE InLog(BoundaryRows[k])
  <2>1. PICK i \in 1 .. Len(tables[g].rows) : BoundaryRows[k] = tables[g].rows[i].row
    BY <1>5, <1>6, RowFacts DEF SealedRows
  <2>2. QED
    BY <2>1 DEF ServeInv, RowsAreInLog
<1>7. QED
  BY <1>5, <1>6

(* FinishDeltaCompaction and FinishFullRebase: the layers below the        *)
(* successor's table hold what the previous generation's table had at the  *)
(* boundary and what was below it.                                         *)
LEMMA FinishedLayers ==
  ASSUME ShardInv, ServeInv, FinishJob, ~Behind, NEW k \in Keys
  PROVE  /\ IsFolded(SnapshotRow(serving.compact, k))'
         /\ IsFolded(SnapshotRow(serving.full, k))'
         /\ Layered(SuccessorRow(k), serving', k) = Layered(ServingRow(k), serving, k)
<1>1. /\ job.kind \in {"compaction", "rebase"} /\ job.built /\ message = NoRow
      /\ serving = job.previous
  BY DEF FinishJob, Idle, ShardInv, GenerationsOK, Jobs
<1>2. HasCaughtUp(k)
  BY <1>1, SuccessorHasCaughtUp
<1> DEFINE InFold(row) == row \in UpdateRows => row.offset < folded'[row.partition]
<1>i. \A row \in UpdateRows :
        /\ row.offset < folded[row.partition] => InFold(row)
        /\ InLog(row) => InFold(row)
  <2> SUFFICES ASSUME NEW row \in UpdateRows
               PROVE  /\ row.offset < folded[row.partition] => row.offset < folded'[row.partition]
                      /\ InLog(row) => row.offset < folded'[row.partition]
    OBVIOUS
  <2>1. row.partition \in Partitions /\ row.offset \in Nat
    BY RowFacts
  <2>2. folded'[row.partition] = Len(log[row.partition]) /\ Len(log[row.partition]) \in Nat
        /\ folded[row.partition] \in Nat /\ folded[row.partition] <= Len(log[row.partition])
    BY <2>1 DEF FinishJob, ShardInv, HistoryOK, StreamOK
  <2>3. QED
    BY <2>1, <2>2 DEF InLog
<1> HIDE DEF InFold
<1>3. serving \in ShardStates /\ SnapshotRow(serving.compact, k) \in SomeRows
      /\ InFold(SnapshotRow(serving.compact, k)) /\ InFold(SnapshotRow(serving.full, k))
  <2>1. IsFolded(SnapshotRow(serving.compact, k)) /\ IsFolded(SnapshotRow(serving.full, k))
    BY DEF ServeInv, LayersAreFolded
  <2>2. \A row : IsFolded(row) => InFold(row)
    BY <1>i DEF IsFolded, InFold
  <2>3. QED
    BY <2>1, <2>2, GenerationFacts, SnapshotRowType
<1>4. BoundaryRows \in [Keys -> UpdateRows \cup {NoRow}] /\ InFold(BoundaryRows[k])
  BY <1>1, <1>i, BoundaryRowsFacts DEF InFold
<1>f. SUFFICES /\ InFold(SnapshotRow(serving'.compact, k)) /\ InFold(SnapshotRow(serving'.full, k))
               /\ Layered(SuccessorRow(k), serving', k) = Layered(ServingRow(k), serving, k)
  BY DEF InFold, IsFolded, SnapshotRow
<1>5. CASE job.kind = "compaction"
  <2>1. serving'.compact = job.snapshot /\ serving'.full = serving.full
    BY <1>1, <1>5 DEF FinishJob, CompactedState
  <2>2. job.snapshot = CompactedRows(job.previous, job.boundary)
        /\ job.snapshot \in RowMaps
    BY <1>1, <1>5, CompactedRowsType DEF ServeInv, SnapshotIsBuilt
  <2>3. SnapshotRow(serving'.compact, k)
          = IF BoundaryRows[k] # NoRow THEN BoundaryRows[k] ELSE SnapshotRow(serving.compact, k)
    BY <1>1, <2>1, <2>2, ShardAssumption DEF SnapshotRow, CompactedRows, Over, RowsOf, BoundaryRows
  <2>4. QED
    BY <1>2, <1>3, <1>4, <2>1, <2>3 DEF HasCaughtUp, Layered
<1>6. CASE job.kind = "rebase"
  <2>1. serving'.compact = NoSnapshot /\ serving'.full = job.snapshot
    BY <1>6 DEF FinishJob, RebasedState
  <2>2. /\ job.snapshot = Over(RowsOf(serving.compact), serving.full)
        /\ job.snapshot \in RowMaps /\ serving.full # NoSnapshot
    BY <1>1, <1>6, CompactedRowsType DEF ServeInv, SnapshotIsBuilt
  <2>3. /\ SnapshotRow(serving'.compact, k) = NoRow
        /\ SnapshotRow(serving'.full, k)
             = IF SnapshotRow(serving.compact, k) # NoRow
                 THEN SnapshotRow(serving.compact, k) ELSE SnapshotRow(serving.full, k)
    BY <2>1, <2>2, ShardAssumption DEF SnapshotRow, Over, RowsOf
  <2>4. ServingRow(k) = NoRow
    <3>1. tables[serving.generation] \in Tables /\ LatestIsNewestSealed(tables[serving.generation])
      BY GenerationFacts DEF ShardInv, TablesOK
    <3>2. ScanVisibleRows(tables[serving.generation], Len(tables[serving.generation].rows))
            = [j \in Keys |-> NoRow]
      BY <1>1, <1>6 DEF FinishJob, FinishAccepts, PreviousRealtimeIsEmpty, CaptureCompactionBoundary
    <3>3. QED
      BY <3>1, <3>2, ScanFindsLatest DEF ServingRow
  <2>5. SuccessorRow(k) = NoRow
    BY <1>1, <2>4 DEF ServeInv, SuccessorIsContained
  <2>6. InFold(NoRow)
    BY RowFacts DEF InFold
  <2>7. QED
    BY <1>3, <2>3, <2>4, <2>5, <2>6 DEF Layered
<1>7. QED
  BY <1>1, <1>5, <1>6

LEMMA FinishServeInv ==
  ASSUME ShardInv, ServeInv, FinishJob, ~replayed'
  PROVE  ServeInv'
<1>1. /\ UNCHANGED <<log, next, message, acknowledged, tables, load, reader, next_generation>>
      /\ ~Behind /\ message = NoRow /\ job' = NoJob /\ ~load.active
      /\ serving'.generation = job.successor /\ targets' = <<job.successor>>
  BY DEF FinishJob, Idle, stream, RebasedState, CompactedState
<1>2. RowsAreInLog'
  BY <1>1 DEF ServeInv, RowsAreInLog, InLog
<1>3. LayersAreFolded'
  BY <1>1, FinishedLayers DEF LayersAreFolded
<1>4. StreamIsServed'
  <2>1. \A a : Head(<<a>>) = a
    OBVIOUS
  <2>2. QED
    BY <1>1, <2>1 DEF StreamIsServed, StreamTarget
<1>5. ServesTheStream'
  <2> SUFFICES ASSUME NEW k \in Keys PROVE Get(serving, k)' = acknowledged[k]
    BY <1>1 DEF ServesTheStream, HalfApplied
  <2>1. Get(serving, k)' = Layered(SuccessorRow(k), serving', k)
    BY <1>1, GetIsLayered DEF SuccessorRow
  <2>2. acknowledged[k] = Layered(ServingRow(k), serving, k)
    BY <1>1, GetIsLayered DEF ServeInv, ServesTheStream, HalfApplied
  <2>3. QED
    BY <1>1, <2>1, <2>2, FinishedLayers
<1>6. HalfAppliedIsServed'
  BY <1>1 DEF HalfAppliedIsServed, HalfApplied
<1>7. ReaderOK'
  BY <1>1, NoJobFacts DEF ServeInv, ReaderOK, FinishJob, ShardInv, GenerationsOK
<1>8. SuccessorIsContained' /\ SuccessorFollows' /\ SnapshotIsBuilt'
  BY <1>1, NoJobFacts DEF SuccessorIsContained, SuccessorFollows, SnapshotIsBuilt
<1>9. QED
  BY <1>2, <1>3, <1>4, <1>5, <1>6, <1>7, <1>8 DEF ServeInv

(* A disturbed shard stays so. *)
LEMMA StaysDisturbed ==
  ASSUME [Next]_vars, Undisturbed'
  PROVE  Undisturbed /\ ~ExternalCutover /\ ~replayed'
<1>1. CASE UNCHANGED history
  <2>1. ~ExternalCutover \/ loaded
    BY <1>1 DEF ExternalCutover, history
  <2>2. QED
    BY <1>1, <2>1 DEF Undisturbed, history
<1>2. ASSUME NEW p \in Partitions, NEW k \in Keys, Deliver(p, k)
      PROVE  Undisturbed /\ ~ExternalCutover /\ ~replayed'
  <2>1. loaded' = loaded /\ (replayed => replayed')
    BY <1>2 DEF Deliver
  <2>2. QED
    BY <2>1 DEF Undisturbed, ExternalCutover
<1>3. CASE FinishJob
  <2>1. loaded' = loaded /\ (replayed => replayed')
    BY <1>3 DEF FinishJob
  <2>2. QED
    BY <2>1 DEF Undisturbed, ExternalCutover
<1>4. ~ExternalCutover
  BY DEF Undisturbed, ExternalCutover
<1>5. CASE \/ UNCHANGED vars \/ GetEnds \/ ApplyToTarget \/ Commit \/ Rewind \/ AbandonJob
           \/ BuildCompactedDeltaSnapshot \/ BuildRebasedFullSnapshot
           \/ BeginExternalLoad \/ LoadEnds
  <2>1. UNCHANGED history
    BY <1>5 DEF vars, GetEnds, ApplyToTarget, Commit, Rewind, AbandonJob, Built,
       BuildCompactedDeltaSnapshot, BuildRebasedFullSnapshot, BeginExternalLoad, LoadEnds
  <2>2. QED
    BY <1>1, <2>1
<1>6. CASE \/ \E k \in ReaderKeys : GetBegins(k)
           \/ \E kind \in {"compaction", "rebase"} : BeginJob(kind)
           \/ \E p \in Partitions : LoadReplays(p)
  <2>1. UNCHANGED history
    BY <1>6 DEF GetBegins, BeginJob, LoadReplays
  <2>2. QED
    BY <1>1, <2>1
<1>7. QED
  BY <1>2, <1>3, <1>4, <1>5, <1>6 DEF Next

LEMMA NextServeInv ==
  ASSUME ShardInv, ServeInv, [Next]_vars, Undisturbed'
  PROVE  ServeInv'
<1>0. ~ExternalCutover /\ ~replayed'
  BY StaysDisturbed
<1>1. CASE UNCHANGED vars
  BY <1>1, OtherLookupsServeInv
<1>2. CASE Next
  BY <1>0, <1>2, GetBeginsServeInv, OtherLookupsServeInv, DeliverServeInv, ApplyServeInv,
     OffsetsServeInv, BeginJobServeInv, BuildServeInv, FinishServeInv, AbandonServeInv,
     BeginLoadServeInv, LoadReplaysServeInv, LoadEndsServeInv DEF Next
<1>3. QED
  BY <1>1, <1>2

(* Until a load cuts over or the stream goes back behind the cutover of a  *)
(* job, what makes the shard serve the stream holds throughout.            *)
THEOREM ServeInvariant == Spec => []ServeInvWhileUndisturbed
<1>1. Init => ServeInvWhileUndisturbed
  BY InitServeInv DEF ServeInvWhileUndisturbed
<1>2. ServeInvWhileUndisturbed /\ ShardInv /\ [Next]_vars => ServeInvWhileUndisturbed'
  <2> SUFFICES ASSUME ServeInvWhileUndisturbed, ShardInv, [Next]_vars, Undisturbed'
               PROVE  ServeInv'
    BY DEF ServeInvWhileUndisturbed
  <2>1. Undisturbed
    BY StaysDisturbed
  <2>2. QED
    BY <2>1, NextServeInv DEF ServeInvWhileUndisturbed
<1>3. QED
  BY <1>1, <1>2, ShardInvariant, PTL DEF Spec

(* ForwardIndex::Get serves every acknowledged update and nothing older,   *)
(* through compactions, rebases, abandoned jobs, running and failed loads, *)
(* failed applies and redelivered messages, until a load cuts over or the  *)
(* stream goes back behind the cutover of a job.                           *)
THEOREM AcknowledgedServed == Spec => []ServesAcknowledged
<1>1. ServeInvWhileUndisturbed => ServesAcknowledged
  BY DEF ServeInvWhileUndisturbed, Undisturbed, ServeInv, ServesTheStream, ServesAcknowledged,
         UpToDate, HalfApplied
<1>2. QED
  BY <1>1, ServeInvariant, PTL

-----------------------------------------------------------------------------
(* Lookups see one atomic row per key. *)

(* A row that a reader finds depends on the table of its generation alone. *)
LEMMA SameView ==
  ASSUME \A k \in Keys : Get(serving, k)' = Get(serving, k), reader' = reader,
         reader.key # NoRow =>
           \A k \in Keys : tables'[reader.state.generation].latest[k]
                             = tables[reader.state.generation].latest[k],
         ReaderOK
  PROVE  UNCHANGED <<ServedView, LookupView>>
<1>1. ServedView' = ServedView
  BY DEF ServedView
<1>2. LookupView' = LookupView
  <2>1. CASE reader.key = NoRow
    BY <2>1 DEF LookupView
  <2>2. CASE reader.key # NoRow
    <3>1. reader.key \in Keys
      BY <2>2 DEF ReaderOK
    <3>2. /\ Get(reader.state, reader.key) =
              Layered(tables[reader.state.generation].latest[reader.key],
                      reader.state, reader.key)
          /\ Get(reader.state, reader.key)' =
              Layered(tables'[reader'.state.generation].latest[reader'.key],
                      reader'.state, reader'.key)
      BY <3>1 DEF Get, Over, RowsOf, Layered
    <3>3. Get(reader.state, reader.key)' = Get(reader.state, reader.key)
      BY <2>2, <3>1, <3>2
    <3>4. QED
      BY <2>2, <3>3 DEF LookupView
  <2>3. QED
    BY <2>1, <2>2
<1>3. QED
  BY <1>1, <1>2

LEMMA QuietStepServes ==
  ASSUME ServeInv, UNCHANGED <<tables, serving, reader>>
  PROVE  UNCHANGED <<ServedView, LookupView>>
<1>1. \A k \in Keys : Get(serving, k)' = Get(serving, k)
  BY DEF Get, Over, RowsOf, SnapshotRow
<1>2. QED
  BY <1>1, SameView DEF ServeInv

LEMMA InitServes == Init => Served!Init
<1> SUFFICES ASSUME Init PROVE Served!Init
  OBVIOUS
<1>1. ServeInv /\ acknowledged = FirstFull /\ message = NoRow /\ reader.key = NoRow
  BY InitServeInv DEF Init, NoReader
<1>2. ServedView = FirstFull
  BY <1>1 DEF ServeInv, ServesTheStream, HalfApplied, ServedView, FirstFull
<1>3. LookupView = Served!NoLookup
  BY <1>1 DEF LookupView, Served!NoLookup
<1>4. (replayed \/ loaded) = FALSE
  BY DEF Init
<1>5. QED
  BY <1>2, <1>3, <1>4 DEF Served!Init

LEMMA GetBeginsServes ==
  ASSUME NEW k \in ReaderKeys, GetBegins(k)
  PROVE  Served!LookupBegins(k)
<1>0. k \in Keys /\ k # NoRow
  BY ShardAssumption
<1>1. reader.key = NoRow /\ reader'.key = k /\ reader'.state = serving
      /\ UNCHANGED <<tables, serving>>
  BY DEF GetBegins
<1>2. ServedView' = ServedView /\ ServedView[k] = Get(serving, k)
  BY <1>0, <1>1 DEF ServedView, Get, Over, RowsOf, SnapshotRow
<1>3. Get(reader.state, reader.key)' = Get(serving, k)
  BY <1>1 DEF Get, Over, RowsOf, SnapshotRow
<1>4. LookupView.key = NoRow /\ LookupView' = [key |-> k, row |-> Get(serving, k)]
  BY <1>0, <1>1, <1>3 DEF LookupView
<1>5. QED
  BY <1>2, <1>4 DEF Served!LookupBegins

LEMMA GetEndsServes ==
  ASSUME GetEnds
  PROVE  Served!LookupEnds
<1>1. reader.key # NoRow /\ reader'.key = NoRow /\ UNCHANGED <<tables, serving>>
  BY DEF GetEnds, NoReader
<1>2. ServedView' = ServedView
  BY <1>1 DEF ServedView, Get, Over, RowsOf, SnapshotRow
<1>3. LookupView.key # NoRow /\ LookupView' = Served!NoLookup
  BY <1>1 DEF LookupView, Served!NoLookup
<1>4. QED
  BY <1>2, <1>3 DEF Served!LookupEnds

(* The swap of a generation is invisible: before and after it the shard    *)
(* serves what was acknowledged.                                           *)
LEMMA SwapServes ==
  ASSUME ShardInv, ServeInv, ServeInv', FinishJob
  PROVE  UNCHANGED <<ServedView, LookupView>>
<1>1. message = NoRow /\ UNCHANGED <<message, acknowledged, tables, reader>>
  BY DEF FinishJob, Idle, stream
<1>2. \A k \in Keys : Get(serving, k)' = Get(serving, k)
  BY <1>1 DEF ServeInv, ServesTheStream, HalfApplied
<1>3. QED
  BY <1>1, <1>2, SameView DEF ServeInv

(* A table that nobody reads changes: the successor's or a load's. *)
LEMMA UnreadTableServes ==
  ASSUME ShardInv, ServeInv, UNCHANGED <<serving, reader>>, NEW g, g # serving.generation,
         \A h \in Generations : h # g => tables'[h] = tables[h],
         reader.key # NoRow => reader.state.generation # g
  PROVE  UNCHANGED <<ServedView, LookupView>>
<1>1. \A k \in Keys : Get(serving, k)' = Get(serving, k)
  BY GenerationFacts, GetIsLayered DEF ServingRow
<1>2. ReaderOK
  BY DEF ServeInv
<1>3. reader.key # NoRow => tables'[reader.state.generation] = tables[reader.state.generation]
  BY <1>2, ShardAssumption DEF ReaderOK, ShardInv, GenerationsOK, Generations
<1>4. QED
  BY <1>1, <1>2, <1>3, SameView

LEMMA DropServes ==
  ASSUME ShardInv, ServeInv, AbandonJob \/ LoadEnds \/ \E p \in Partitions : LoadReplays(p)
  PROVE  UNCHANGED <<ServedView, LookupView>>
<1>1. CASE AbandonJob
  <2>1. UNCHANGED <<serving, reader>> /\ job.kind # "none"
        /\ \A h \in Generations : h # job.successor => tables'[h] = tables[h]
    BY <1>1 DEF AbandonJob, ShardInv, TablesOK
  <2>2. /\ job.successor # serving.generation
        /\ reader.key # NoRow => reader.state.generation # job.successor
    BY <2>1 DEF ServeInv, ReaderOK, ShardInv, GenerationsOK
  <2>3. QED
    BY <2>1, <2>2, UnreadTableServes
<1>2. CASE LoadEnds \/ \E p \in Partitions : LoadReplays(p)
  <2>1. UNCHANGED <<serving, reader>> /\ load.active
        /\ \A h \in Generations : h # load.generation => tables'[h] = tables[h]
    BY <1>2 DEF LoadEnds, LoadReplays, ShardInv, TablesOK
  <2>2. /\ load.generation # serving.generation
        /\ reader.key # NoRow => reader.state.generation # load.generation
    BY <2>1 DEF ServeInv, ReaderOK, ShardInv, LoadOK
  <2>3. QED
    BY <2>1, <2>2, UnreadTableServes
<1>3. QED
  BY <1>1, <1>2

(* The first target is the serving table: an update takes effect there,    *)
(* for lookups that hold on to the serving generation too.                 *)
LEMMA ApplyFirstServes ==
  ASSUME ShardInv, ServeInv, ApplyToTarget, ~HalfApplied, Head(pending) = serving.generation
  PROVE  (\E k \in Keys : Served!Update(k)) \/ UNCHANGED <<ServedView, LookupView>>
<1> DEFINE g == serving.generation
           t == tables[g]
<1>0. PICK k0 \in Keys : k0 = message.primary_key
  BY ApplyFacts, RowFacts
<1>1. /\ message # NoRow /\ message \in UpdateRows
      /\ UNCHANGED <<serving, reader>>
      /\ \A h \in Generations : h # g => tables'[h] = tables[h]
      /\ \A k \in Keys : tables'[g].latest[k]
           = IF k = k0 /\ Replaces(t, message) THEN message ELSE t.latest[k]
  BY <1>0, ApplyFacts
<1>2. \A k \in Keys : /\ Get(serving, k) = Layered(t.latest[k], serving, k)
                      /\ Get(serving, k)' = Layered(tables'[g].latest[k], serving, k)
  BY <1>1, GetIsLayered DEF ServingRow
<1>3. ReaderOK
  BY DEF ServeInv
<1>4. reader.key # NoRow => reader.state.generation \in Generations
  BY <1>3, ShardAssumption DEF ReaderOK, ShardInv, GenerationsOK, Generations
<1>5. CASE ~Replaces(t, message)
  <2>1. \A k \in Keys : tables'[g].latest[k] = t.latest[k]
    BY <1>1, <1>5
  <2>2. UNCHANGED <<ServedView, LookupView>>
    BY <1>1, <1>2, <1>3, <1>4, <2>1, SameView
  <2>3. QED
    BY <2>2
<1>6. CASE Replaces(t, message)
  <2>1. /\ Get(serving, k0)' = message
        /\ \A k \in Keys : k # k0 => Get(serving, k)' = Get(serving, k)
    BY <1>0, <1>1, <1>2, <1>6 DEF Layered
  <2>2. message = Newest(Get(serving, k0), message)
    <3>1. Fits(t, message)
      BY <1>6 DEF Replaces
    <3>2. Layered(message, serving, k0) = Newest(acknowledged[k0], message)
      BY <1>0, <1>1, <1>6, <3>1, FirstTargetServes
    <3>3. Get(serving, k0) = acknowledged[k0]
      BY DEF ServeInv, ServesTheStream
    <3>4. QED
      BY <1>1, <3>2, <3>3 DEF Layered
  <2>3. LookupView' = LookupView \/
          (LookupView.key = k0 /\ LookupView' = [LookupView EXCEPT !.row = message])
    <3>1. CASE reader.key = NoRow
      BY <1>1, <3>1 DEF LookupView
    <3>2. CASE reader.key # NoRow /\ reader.state.generation # g
      <4>1. tables'[reader.state.generation] = tables[reader.state.generation]
        BY <1>1, <1>4, <3>2
      <4>2. Get(reader.state, reader.key)' = Get(reader.state, reader.key)
        BY <1>1, <4>1 DEF Get, Over, RowsOf, SnapshotRow
      <4>3. QED
        BY <1>1, <4>2 DEF LookupView
    <3>3. CASE reader.key # NoRow /\ reader.state.generation = g
      <4>1. reader.state = serving /\ reader.key \in Keys
        BY <1>3, <3>3 DEF ReaderOK
      <4>2. /\ Get(reader.state, reader.key) = Get(serving, reader.key)
            /\ Get(reader.state, reader.key)' = Layered(tables'[g].latest[reader.key], serving, reader.key)
        BY <1>1, <4>1 DEF Get, Over, RowsOf, SnapshotRow, Layered
      <4>3. CASE reader.key = k0
        <5>1. Get(reader.state, reader.key)' = message
          BY <1>1, <1>6, <4>2, <4>3 DEF Layered
        <5>2. QED
          BY <1>1, <3>3, <4>3, <5>1 DEF LookupView
      <4>4. CASE reader.key # k0
        <5>1. Get(reader.state, reader.key)' = Get(reader.state, reader.key)
          BY <1>1, <1>2, <4>1, <4>2, <4>4
        <5>2. QED
          BY <1>1, <5>1 DEF LookupView
      <4>5. QED
        BY <4>3, <4>4
    <3>4. QED
      BY <3>1, <3>2, <3>3
  <2>4. CASE Get(serving, k0) # message
    <3>1. ServedView' = [ServedView EXCEPT ![k0] = message] /\ ServedView'[k0] = message
          /\ ServedView[k0] = Get(serving, k0)
      BY <1>0, <2>1 DEF ServedView
    <3>2. Served!Supersedes(message, Get(serving, k0))
      <4> DEFINE old == Get(serving, k0)
      <4>1. old = NoRow \/ old.partition # message.partition \/ ~(message.offset <= old.offset)
        BY <2>2, <2>4 DEF Newest
      <4>2. old = acknowledged[k0]
        BY DEF ServeInv, ServesTheStream
      <4>3. old \in UpdateRows \/ old \in {NoRow, ArtifactRow(k0)}
        BY <4>2, FirstFullFacts DEF ShardInv, AcknowledgedOK
      <4>4. message.offset \in Nat /\ message.partition \in Nat
            /\ (old \in UpdateRows => old.offset \in Nat) /\ ArtifactRow(k0).partition = -1
        BY <1>1, RowFacts DEF ArtifactRow
      <4>5. QED
        BY <4>1, <4>3, <4>4 DEF Served!Supersedes
    <3>3. Served!Update(k0)
      BY <1>0, <1>1, <2>3, <3>1, <3>2 DEF Served!Update
    <3>4. QED
      BY <3>3
  <2>5. CASE Get(serving, k0) = message
    <3>1. \A k \in Keys : Get(serving, k)' = Get(serving, k)
      BY <2>1, <2>5
    <3>2. LookupView' = LookupView
      <4>1. CASE LookupView.key = k0 /\ LookupView' = [LookupView EXCEPT !.row = message]
        <5>1. reader.key = k0 /\ reader.key # NoRow
          BY <4>1, ShardAssumption DEF LookupView
        <5>2. CASE reader.state.generation = g
          <6>1. reader.state = serving
            BY <1>3, <5>1, <5>2 DEF ReaderOK
          <6>2. LookupView.row = message
            BY <2>5, <5>1, <6>1 DEF LookupView
          <6>3. QED
            BY <4>1, <6>2 DEF LookupView
        <5>3. CASE reader.state.generation # g
          <6>1. tables'[reader.state.generation] = tables[reader.state.generation]
            BY <1>1, <1>4, <5>1, <5>3
          <6>2. Get(reader.state, reader.key)' = Get(reader.state, reader.key)
            BY <1>1, <6>1 DEF Get, Over, RowsOf, SnapshotRow
          <6>3. QED
            BY <1>1, <6>2 DEF LookupView
        <5>4. QED
          BY <5>2, <5>3
      <4>2. QED
        BY <2>3, <4>1
    <3>3. QED
      BY <3>1, <3>2 DEF ServedView
  <2>6. QED
    BY <2>4, <2>5
<1>7. QED
  BY <1>5, <1>6

(* The second target is nobody's to read yet. *)
LEMMA ApplySecondServes ==
  ASSUME ShardInv, ServeInv, ApplyToTarget, ToSecond, Head(pending) = job.successor
  PROVE  UNCHANGED <<ServedView, LookupView>>
<1>1. /\ UNCHANGED <<serving, reader>>
      /\ \A h \in Generations : h # job.successor => tables'[h] = tables[h]
  BY ApplyFacts
<1>2. job.kind # "none" /\ serving.generation # job.successor
  BY GenerationFacts DEF ToSecond
<1>3. reader.key # NoRow => reader.state.generation # job.successor
  BY <1>2 DEF ServeInv, ReaderOK
<1>4. QED
  BY <1>1, <1>2, <1>3, UnreadTableServes

(* A step of an undisturbed shard. *)
LEMMA UndisturbedServes ==
  ASSUME ShardInv, ServeInv, [Next]_vars, Undisturbed'
  PROVE  \/ \E k \in ReaderKeys : Served!LookupBegins(k)
         \/ Served!LookupEnds
         \/ \E k \in Keys : Served!Update(k)
         \/ UNCHANGED <<ServedView, LookupView>>
<1>0. ServeInv' /\ ~ExternalCutover
  BY NextServeInv, StaysDisturbed
<1>1. CASE \E k \in ReaderKeys : GetBegins(k)
  BY <1>1, GetBeginsServes
<1>2. CASE GetEnds
  BY <1>2, GetEndsServes
<1>3. CASE ApplyToTarget
  <2>1. message # NoRow
    BY <1>3 DEF ApplyToTarget
  <2>2. \/ ToSecond /\ Head(pending) = job.successor
        \/ ~HalfApplied /\ Head(pending) = serving.generation
    BY <2>1, PendingFacts DEF HalfApplied, ToOnly, ToFirst, ServeInv, StreamIsServed
  <2>3. QED
    BY <1>3, <2>2, ApplyFirstServes, ApplySecondServes
<1>4. CASE FinishJob
  BY <1>0, <1>4, SwapServes
<1>5. CASE AbandonJob \/ LoadEnds \/ \E p \in Partitions : LoadReplays(p)
  BY <1>5, DropServes
<1>6. CASE UNCHANGED <<tables, serving, reader>>
  BY <1>6, QuietStepServes
<1>7. QED
  <2>1. CASE \E p \in Partitions, k \in Keys : Deliver(p, k)
    BY <1>6, <2>1 DEF Deliver
  <2>2. CASE Commit \/ Rewind \/ BeginExternalLoad \/ UNCHANGED vars
    BY <1>6, <2>2 DEF Commit, Rewind, BeginExternalLoad, vars
  <2>3. CASE \E kind \in {"compaction", "rebase"} : BeginJob(kind)
    BY <1>6, <2>3 DEF BeginJob
  <2>4. CASE BuildCompactedDeltaSnapshot \/ BuildRebasedFullSnapshot
    BY <1>6, <2>4 DEF BuildCompactedDeltaSnapshot, BuildRebasedFullSnapshot, Built
  <2>5. QED
    BY <1>0, <1>1, <1>2, <1>3, <1>4, <1>5, <2>1, <2>2, <2>3, <2>4 DEF Next

LEMMA NextServes ==
  ASSUME ShardInv, ServeInvWhileUndisturbed, [Next]_vars
  PROVE  [Served!Next]_(Served!vars)
<1>1. CASE ~Undisturbed'
  <2>1. (replayed \/ loaded)' = TRUE
    BY <1>1 DEF Undisturbed
  <2>2. QED
    BY <2>1 DEF Served!Next
<1>2. CASE Undisturbed'
  <2>1. Undisturbed /\ ServeInv
    BY <1>2, StaysDisturbed DEF ServeInvWhileUndisturbed
  <2>2. (replayed \/ loaded) = FALSE /\ (replayed \/ loaded)' = FALSE
    BY <1>2, <2>1 DEF Undisturbed
  <2>3. \/ \E k \in ReaderKeys : Served!LookupBegins(k)
        \/ Served!LookupEnds
        \/ \E k \in Keys : Served!Update(k)
        \/ UNCHANGED <<ServedView, LookupView>>
    BY <1>2, <2>1, UndisturbedServes
  <2>4. QED
    BY <2>2, <2>3 DEF Served!Next, Served!Undisturbed, Served!vars
<1>3. QED
  BY <1>1, <1>2

(* ForwardIndex::Get is linearizable through every generation swap of a    *)
(* job: the shard refines one atomic row per key, although a Get may hold  *)
(* on to a generation that a compaction or a rebase has replaced, until a  *)
(* load cuts over or the stream goes back behind the cutover of a job.     *)
THEOREM LookupsAreAtomic == Spec => ImplementsServedRows
<1>1. ServeInvWhileUndisturbed /\ ShardInv /\ [Next]_vars => [Served!Next]_(Served!vars)
  BY NextServes
<1>2. QED
  BY <1>1, InitServes, ServeInvariant, ShardInvariant, PTL DEF Spec, ImplementsServedRows, Served!Spec

===============================================================================
