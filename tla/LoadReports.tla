----------------------------- MODULE LoadReports -----------------------------
(***************************************************************************)
(* What the load API promises to its clients and to lookups, without       *)
(* workers, flags, consumers and destructors: a load is reported once as   *)
(* running and once as ended, its counters grow one by one and in order,   *)
(* a shard is served from the load only when all shards are ready and is   *)
(* reported right after, kFailed means that not everything was replaced    *)
(* and that what was is reported, and kSucceeded that everything was.      *)
(***************************************************************************)
EXTENDS Integers

CONSTANTS Loads,       \* load ids
          ShardCount

VARIABLES entries,     \* what GetLoadState returns for each load
          published    \* the shards that each load has replaced

vars == <<entries, published>>

Unknown ==
  [code |-> "kUnknown", terminal |-> TRUE, loaded |-> 0, prewarmed |-> 0, cutover |-> 0]

Running == [Unknown EXCEPT !.code = "kRunning", !.terminal = FALSE]

Init ==
  /\ entries = [l \in Loads |-> Unknown]
  /\ published = [l \in Loads |-> {}]

Begin(l) ==
  /\ entries[l] = Unknown
  /\ entries' = [entries EXCEPT ![l] = Running]
  /\ UNCHANGED published

Reject(l) ==
  /\ entries[l] = Unknown
  /\ entries' = [entries EXCEPT ![l] = [Unknown EXCEPT !.code = "kFailed"]]
  /\ UNCHANGED published

(* The outcome of a load is reported once.  After kCancelled the counters  *)
(* go on until the load has noticed.                                       *)
End(l, code) ==
  /\ entries[l].code = "kRunning"
  /\ code = "kFailed" =>
       published[l] = 0 .. entries[l].cutover - 1 /\ entries[l].cutover < ShardCount
  /\ code = "kSucceeded" => entries[l].cutover = ShardCount
  /\ entries' = [entries EXCEPT ![l] = [@ EXCEPT !.code = code, !.terminal = TRUE]]
  /\ UNCHANGED published

Active(l) == entries[l].code \in {"kRunning", "kCancelled"}

ShardLoaded(l) ==
  /\ Active(l)
  /\ entries[l].loaded < ShardCount
  /\ entries' = [entries EXCEPT ![l].loaded = @ + 1]
  /\ UNCHANGED published

ShardPrewarmed(l) ==
  /\ Active(l)
  /\ entries[l].loaded = ShardCount /\ entries[l].prewarmed < ShardCount
  /\ entries' = [entries EXCEPT ![l].prewarmed = @ + 1]
  /\ UNCHANGED published

ShardPublished(l) ==
  /\ Active(l)
  /\ entries[l].loaded = ShardCount /\ entries[l].prewarmed = ShardCount
  /\ entries[l].cutover < ShardCount
  /\ published[l] = 0 .. entries[l].cutover - 1
  /\ published' = [published EXCEPT ![l] = @ \cup {entries[l].cutover}]
  /\ UNCHANGED entries

ShardReported(l) ==
  /\ Active(l)
  /\ published[l] = 0 .. entries[l].cutover
  /\ entries' = [entries EXCEPT ![l].cutover = @ + 1]
  /\ UNCHANGED published

Next ==
  \E l \in Loads :
    \/ Begin(l) \/ Reject(l)
    \/ ShardLoaded(l) \/ ShardPrewarmed(l) \/ ShardPublished(l) \/ ShardReported(l)
    \/ \E code \in {"kSucceeded", "kFailed", "kCancelled"} : End(l, code)

Spec == Init /\ [][Next]_vars

==============================================================================
