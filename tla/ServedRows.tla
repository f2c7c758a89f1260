------------------------------ MODULE ServedRows ------------------------------
(***************************************************************************)
(* What a shard promises to lookups, without generations, layers, jobs and *)
(* loads: one row per key that only newer rows replace, and a lookup that  *)
(* returns a row the shard served at some moment between its begin and its *)
(* end.  The promise ends when the shard is disturbed: by the cutover of   *)
(* an external load, which serves what the load has replayed, or by a      *)
(* stream that goes back behind the cutover of a maintenance job.          *)
(***************************************************************************)
EXTENDS Integers

CONSTANTS Keys,        \* primary keys
          ReaderKeys,  \* keys that are looked up concurrently
          UpdateRows,  \* rows of the update stream
          FirstRows,   \* the rows of the first full snapshot
          NoRow        \* no row: a miss

VARIABLES rows,        \* the row each key is served with
          lookup,      \* a lookup in progress and the row it has found so far
          disturbed    \* the promise has ended

vars == <<rows, lookup, disturbed>>

NoLookup == [key |-> NoRow, row |-> NoRow]

Init == rows = FirstRows /\ lookup = NoLookup /\ disturbed = FALSE

LookupBegins(k) ==
  /\ lookup.key = NoRow
  /\ lookup' = [key |-> k, row |-> rows[k]]
  /\ UNCHANGED rows

(* The caller gets lookup.row. *)
LookupEnds ==
  /\ lookup.key # NoRow
  /\ lookup' = NoLookup
  /\ UNCHANGED rows

(* A row never replaces itself or a later row of its partition.  A row of  *)
(* another partition may replace it: after a compaction nobody knows the   *)
(* partition of the row.                                                   *)
Supersedes(row, old) ==
  old = NoRow \/ old.partition # row.partition \/ old.offset < row.offset

(* Key k gets a row of the update stream.  A lookup of k may see it or be  *)
(* too early for it.                                                       *)
Update(k) ==
  /\ rows'[k] \in UpdateRows
  /\ rows'[k].primary_key = k
  /\ Supersedes(rows'[k], rows[k])
  /\ rows' = [rows EXCEPT ![k] = rows'[k]]
  /\ \/ UNCHANGED lookup
     \/ lookup.key = k /\ lookup' = [lookup EXCEPT !.row = rows'[k]]

Undisturbed ==
  /\ \/ \E k \in ReaderKeys : LookupBegins(k)
     \/ LookupEnds
     \/ \E k \in Keys : Update(k)
  /\ UNCHANGED disturbed

Next == disturbed' = TRUE \/ (~disturbed /\ Undisturbed)

Spec == Init /\ [][Next]_vars

===============================================================================
