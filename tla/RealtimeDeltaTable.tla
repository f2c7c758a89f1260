-------------------------- MODULE RealtimeDeltaTable --------------------------
(***************************************************************************)
(* RealtimeDeltaAtomicTable (src/store/realtime_delta.cc) as a value with  *)
(* two parts: `rows', the append-only rows_ with their sealed_visible      *)
(* marks, and `latest', the content of the hash map.  Publish, boundary    *)
(* capture and scan all hold rows_mutex_, so each is one step; Get reads   *)
(* the map alone.  That the lock-free map behaves as the function `latest' *)
(* is theorem Linearizable of RealtimeAtomicHashMapProofs; its             *)
(* kUnavailable answer needs a second publisher, which the mutex excludes. *)
(***************************************************************************)
EXTENDS SourcePositions, Sequences, FiniteSets

CONSTANTS Keys,       \* primary keys
          Capacity,   \* of a realtime hash map
          NoRow       \* no row: a miss

EmptyTable == [rows |-> <<>>, latest |-> [k \in Keys |-> NoRow]]

KeyCount(table) == Cardinality({k \in Keys : table.latest[k] # NoRow})

(* RealtimeAtomicHashMap::PublishAndReport without concurrent publishers. *)
PublishAndReport(table, row) ==
  LET current == table.latest[row.primary_key] IN
  IF current = NoRow
    THEN IF KeyCount(table) < Capacity THEN "kTrue" ELSE "kFailedPrecondition"
    ELSE CASE ClassifySourcePositionUpdate(current, row) = "kNewer" -> "kTrue"
           [] ClassifySourcePositionUpdate(current, row)
                \in {"kStale", "kIdempotent"} -> "kFalse"
           [] OTHER -> "kFailedPrecondition"

PublishSucceeds(table, row) == PublishAndReport(table, row) \in {"kTrue", "kFalse"}

(* Mutant: a refused row is marked for compaction. *)
PublishSealsRefused(table, row) ==
  [rows |-> Append(table.rows, [row |-> row, sealed_visible |-> TRUE]),
   latest |-> IF PublishAndReport(table, row) = "kTrue"
                THEN [table.latest EXCEPT ![row.primary_key] = row]
                ELSE table.latest]

(* The row is appended first and stays there when the map refuses it. *)
Publish(table, row) ==
  LET visible == PublishAndReport(table, row) = "kTrue" IN
  [rows |-> Append(table.rows, [row |-> row, sealed_visible |-> visible]),
   latest |-> IF visible THEN [table.latest EXCEPT ![row.primary_key] = row]
              ELSE table.latest]

CaptureCompactionBoundary(table) == Len(table.rows)

(* Mutant: the scan ignores the boundary. *)
SealedRowsUnbounded(table, boundary, k) ==
  {table.rows[i].row : i \in {j \in 1 .. Len(table.rows) :
                                /\ table.rows[j].sealed_visible
                                /\ table.rows[j].row.primary_key = k}}

(* The sealed rows of a key among the first `boundary' ones. *)
SealedRows(table, boundary, k) ==
  {table.rows[i].row : i \in {j \in 1 .. Len(table.rows) :
                                /\ j <= boundary
                                /\ table.rows[j].sealed_visible
                                /\ table.rows[j].row.primary_key = k}}

(* Two sealed rows of a key in different partitions make the scan fail. *)
ScanSucceeds(table, boundary) ==
  \A k \in Keys : \A r, s \in SealedRows(table, boundary, k) :
    r.partition = s.partition

ScanVisibleRows(table, boundary) ==
  [k \in Keys |->
     LET sealed == SealedRows(table, boundary, k) IN
     IF sealed = {} THEN NoRow
     ELSE CHOOSE r \in sealed : \A s \in sealed : ~IsNewer(r, s)]

===============================================================================
