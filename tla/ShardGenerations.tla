--------------------------- MODULE ShardGenerations ---------------------------
(***************************************************************************)
(* The generations of one shard: layered reads (src/runtime/shard_state.cc *)
(* and shard_directory.cc), delta compaction (src/rebuild/compaction.cc),  *)
(* internal full rebase (src/rebuild/full_rebase.cc) and the update stream *)
(* that writes to every target route of the applier                        *)
(* (src/ingest/update_applier.cc).                                         *)
(*                                                                         *)
(* The library has the building blocks of a maintenance job but not the    *)
(* thread that runs it; the driver here does what the tests and the design *)
(* do: capture the boundary and add the successor's realtime table as a    *)
(* second target between two messages, build in the background, and        *)
(* publish the successor between two messages.                             *)
(***************************************************************************)
EXTENDS RealtimeDeltaTable, SequencesExt

CONSTANTS Partitions,           \* partitions of the update topic
          MaxMessages,          \* bound on the messages of all partitions
          MaxGeneration,        \* bound on the generations of the shard
          MaxRewinds,           \* bound on the times the consumer goes back
          ReaderKeys,           \* keys that are looked up concurrently
          FullKeys,             \* keys of the first full snapshot
          UsesCompactDelta,     \* ForwardIndexModeUsesCompactDelta(mode)
          NoSnapshot            \* an absent layer

Generations == 1 .. MaxGeneration
NoGeneration == 0

(* A row of the first artifact has no source position. *)
ArtifactRow(k) == [primary_key |-> k, partition |-> -1, offset |-> -1]

UpdateRows == [primary_key : Keys, partition : Partitions, offset : 0 .. MaxMessages - 1]

SomeRows == UpdateRows \cup {ArtifactRow(k) : k \in Keys} \cup {NoRow}

RowMaps == [Keys -> SomeRows]

ASSUME ShardAssumption ==
  /\ IsFiniteSet(Keys) /\ IsFiniteSet(Partitions)
  /\ Partitions \subseteq Nat
  /\ MaxMessages \in Nat /\ MaxGeneration \in Nat \ {0} /\ MaxRewinds \in Nat
  /\ Capacity \in Nat
  /\ FullKeys \subseteq Keys /\ ReaderKeys \subseteq Keys
  /\ UsesCompactDelta \in BOOLEAN
  /\ NoRow \notin Keys \cup UpdateRows \cup {ArtifactRow(k) : k \in Keys}
  /\ NoSnapshot \notin RowMaps

VARIABLES log,              \* broker: the keys of each partition's messages
          next,             \* next offset of each partition to deliver
          committed,        \* next offset the group has committed
          rewinds,          \* times the consumer went back
          tables,           \* the realtime table of each generation
          serving,          \* the directory's entry: generation and snapshots
          targets,          \* generations the applier writes to, in order
          message,          \* the message being applied
          pending,          \* targets that do not have it yet
          apply_failed,     \* Apply returned an error; nothing is delivered
          job,              \* the maintenance job
          load,             \* the external load: its table and its consumer
          next_generation,
          acknowledged,     \* history: the row each key must be served with
          folded,           \* history: log lengths at the last job's cutover
          replayed,         \* history: the stream went back behind a cutover
          loaded,           \* history: an external load has cut over
          reader            \* a Get between loading the shard and reading it

stream == <<log, next, committed, rewinds, message, pending, apply_failed, acknowledged>>
driver == <<targets, job, next_generation>>
history == <<folded, replayed, loaded>>
vars == <<stream, tables, serving, driver, load, history, reader>>

NoJob ==
  [kind |-> "none", built |-> FALSE, boundary |-> 0, successor |-> NoGeneration,
   previous |-> [generation |-> NoGeneration, compact |-> NoSnapshot, full |-> NoSnapshot],
   snapshot |-> NoSnapshot]

Nowhere == [p \in Partitions |-> 0]

NoLoad == [active |-> FALSE, generation |-> NoGeneration, position |-> Nowhere]

NoReader == [key |-> NoRow, state |-> NoJob.previous]

FirstFull == [k \in Keys |-> IF k \in FullKeys THEN ArtifactRow(k) ELSE NoRow]

Init ==
  /\ log = [p \in Partitions |-> <<>>]
  /\ next = Nowhere
  /\ committed = Nowhere
  /\ rewinds = 0
  /\ tables = [g \in Generations |-> EmptyTable]
  /\ serving = [generation |-> 1, compact |-> NoSnapshot, full |-> FirstFull]
  /\ targets = <<1>>
  /\ message = NoRow
  /\ pending = <<>>
  /\ apply_failed = FALSE
  /\ job = NoJob
  /\ load = NoLoad
  /\ next_generation = 2
  /\ acknowledged = FirstFull
  /\ folded = Nowhere
  /\ replayed = FALSE
  /\ loaded = FALSE
  /\ reader = NoReader

-----------------------------------------------------------------------------
(* Lookups *)

(* ImmutableRowSnapshotView::Get; an absent layer has no rows. *)
SnapshotRow(snapshot, k) == IF snapshot = NoSnapshot THEN NoRow ELSE snapshot[k]

Over(upper, lower) == [k \in Keys |-> IF upper[k] # NoRow THEN upper[k] ELSE lower[k]]

RowsOf(snapshot) == [k \in Keys |-> SnapshotRow(snapshot, k)]

(* Mutant: the compact delta is read before the realtime delta. *)
GetCompactFirst(state, k) ==
  Over(RowsOf(state.compact),
       Over(tables[state.generation].latest, RowsOf(state.full)))[k]

(* ShardState::Get: realtime delta, then compact delta, then full. *)
Get(state, k) ==
  Over(tables[state.generation].latest,
       Over(RowsOf(state.compact), RowsOf(state.full)))[k]

(* ForwardIndex::Get loads the shard from the directory and reads it some  *)
(* time before it returns.                                                 *)
GetBegins(k) ==
  /\ reader.key = NoRow
  /\ reader' = [key |-> k, state |-> serving]
  /\ UNCHANGED <<stream, history, tables, serving, driver, load>>

GetEnds ==
  /\ reader.key # NoRow
  /\ reader' = NoReader
  /\ UNCHANGED <<stream, history, tables, serving, driver, load>>

-----------------------------------------------------------------------------
(* The update stream *)

Idle == message = NoRow /\ ~apply_failed

MessageCount ==
  Cardinality({m \in Partitions \X (1 .. MaxMessages) : m[2] <= Len(log[m[1]])})

(* A message is delivered for the first time, or again after a rewind,     *)
(* perhaps one that a job's snapshot holds without its source position.    *)
Deliver(p, k) ==
  LET o == next[p] IN
  /\ Idle
  /\ IF o < Len(log[p]) THEN k = log[p][o + 1] ELSE MessageCount < MaxMessages
  /\ log' = IF o < Len(log[p]) THEN log ELSE [log EXCEPT ![p] = Append(@, k)]
  /\ next' = [next EXCEPT ![p] = o + 1]
  /\ message' = [primary_key |-> k, partition |-> p, offset |-> o]
  /\ pending' = targets
  /\ replayed' = (replayed \/ o < folded[p])
  /\ UNCHANGED <<committed, rewinds, apply_failed, acknowledged, folded, loaded,
                 tables, serving, driver, load, reader>>

(* What a reader must find once `row' was acknowledged on top of `old'. *)
Newest(old, row) ==
  IF old # NoRow /\ old.partition = row.partition /\ row.offset <= old.offset
    THEN old ELSE row

(* UpdateApplier::Apply publishes to one target after the other and stops  *)
(* at the first error.                                                     *)
ApplyToTarget ==
  LET g == Head(pending)
      ok == PublishSucceeds(tables[g], message)
      last == Len(pending) = 1
      k == message.primary_key
  IN
  /\ message # NoRow
  /\ tables' = [tables EXCEPT ![g] = Publish(@, message)]
  /\ pending' = IF ok THEN Tail(pending) ELSE <<>>
  /\ message' = IF ok /\ ~last THEN message ELSE NoRow
  /\ apply_failed' = ~ok
  /\ acknowledged' = IF ok /\ last
                       THEN [acknowledged EXCEPT ![k] = Newest(@, message)]
                       ELSE acknowledged
  /\ UNCHANGED <<log, next, committed, rewinds, history, serving, driver, load,
                 reader>>

(* The coordinator commits what was applied; it does not after an error. *)
Commit ==
  /\ Idle
  /\ committed # next
  /\ committed' = next
  /\ UNCHANGED <<log, next, rewinds, message, pending, apply_failed, acknowledged,
                 history, tables, serving, driver, load, reader>>

(* Mutant: the consumer restarts at the earliest offset. *)
RewindToStart ==
  /\ message = NoRow
  /\ committed # next
  /\ rewinds < MaxRewinds
  /\ rewinds' = rewinds + 1
  /\ next' = Nowhere
  /\ apply_failed' = FALSE
  /\ UNCHANGED <<log, committed, message, pending, acknowledged, history, tables,
                 serving, driver, load, reader>>

(* A restarted or reassigned consumer continues at the committed offset. *)
Rewind ==
  /\ message = NoRow
  /\ committed # next
  /\ rewinds < MaxRewinds
  /\ rewinds' = rewinds + 1
  /\ next' = committed
  /\ apply_failed' = FALSE
  /\ UNCHANGED <<log, committed, message, pending, acknowledged, history, tables,
                 serving, driver, load, reader>>

-----------------------------------------------------------------------------
(* Maintenance jobs *)

(* The table of the stream, whatever job or load is going on. *)
StreamTarget == Head(targets)

(* Boundary, fresh successor table, and the successor as second target. *)
BeginJob(kind) ==
  /\ job.kind = "none"
  /\ Idle
  /\ next_generation \in Generations
  /\ job' = [NoJob EXCEPT
       !.kind = kind, !.previous = serving, !.successor = next_generation,
       !.boundary = CaptureCompactionBoundary(tables[serving.generation])]
  /\ targets' = <<StreamTarget, next_generation>>
  /\ next_generation' = next_generation + 1
  /\ UNCHANGED <<stream, history, tables, serving, load, reader>>

Built(snapshot) ==
  /\ job' = [job EXCEPT !.built = TRUE, !.snapshot = snapshot]
  /\ UNCHANGED <<stream, history, tables, serving, targets, next_generation, load, reader>>

(* Mutant: old compact rows win over realtime rows. *)
CompactedRowsKeepOld(state, boundary) ==
  Over(RowsOf(state.compact), ScanVisibleRows(tables[state.generation], boundary))

(* Realtime rows up to the boundary, then old compact rows of other keys. *)
CompactedRows(state, boundary) ==
  Over(ScanVisibleRows(tables[state.generation], boundary), RowsOf(state.compact))

BuildCompactedDeltaSnapshot ==
  /\ job.kind = "compaction" /\ ~job.built
  /\ UsesCompactDelta
  /\ ScanSucceeds(tables[job.previous.generation], job.boundary)
  /\ Built(CompactedRows(job.previous, job.boundary))

(* Compact rows over full rows; the realtime delta is not read. *)
BuildRebasedFullSnapshot ==
  /\ job.kind = "rebase" /\ ~job.built
  /\ UsesCompactDelta
  /\ ~load.active
  /\ job.previous.full # NoSnapshot
  /\ Built(Over(RowsOf(job.previous.compact), job.previous.full))

(* FinishDeltaCompaction *)
CompactedState ==
  [generation |-> job.successor, compact |-> job.snapshot, full |-> job.previous.full]

(* FinishFullRebase *)
RebasedState ==
  [generation |-> job.successor, compact |-> NoSnapshot, full |-> job.snapshot]

PreviousRealtimeIsEmpty(state) ==
  LET table == tables[state.generation] IN
  ScanVisibleRows(table, CaptureCompactionBoundary(table)) = [k \in Keys |-> NoRow]

FinishAccepts ==
  /\ UsesCompactDelta
  /\ job.kind = "rebase" => PreviousRealtimeIsEmpty(job.previous)

(* A rewound stream has not come back to its end. *)
Behind == \E p \in Partitions : next[p] < Len(log[p])

(* The driver publishes the successor between two messages.  It gives a    *)
(* job up for an external load: FinishDeltaCompaction and FinishFullRebase *)
(* would not notice one that began after the build.  Nothing makes it wait *)
(* for a rewound stream, nor for the commit of what the snapshot holds.    *)
FinishJob ==
  /\ job.built
  /\ Idle
  /\ ~load.active /\ serving = job.previous
  /\ FinishAccepts
  /\ serving' = IF job.kind = "rebase" THEN RebasedState ELSE CompactedState
  /\ targets' = <<job.successor>>
  /\ job' = NoJob
  /\ folded' = [p \in Partitions |-> Len(log[p])]
  /\ replayed' = (replayed \/ Behind)
  /\ UNCHANGED <<stream, loaded, tables, next_generation, load, reader>>

(* A refused or given up job: the shard keeps its generation, and the      *)
(* successor's table goes with the job.                                    *)
AbandonJob ==
  /\ job.kind # "none"
  /\ message = NoRow
  /\ targets' = <<StreamTarget>>
  /\ job' = NoJob
  /\ tables' = [tables EXCEPT ![job.successor] = EmptyTable]
  /\ UNCHANGED <<stream, history, serving, next_generation, load, reader>>

-----------------------------------------------------------------------------
(* An external load of this shard: a table and a consumer of its own       *)
(* beside those of the stream.  Its artifact is the first full snapshot,   *)
(* with checkpoint 0.  One load at a time.                                 *)

(* CreateRealtimeShards: the load's table is empty. *)
BeginExternalLoad ==
  /\ ~load.active
  /\ next_generation \in Generations
  /\ load' = [NoLoad EXCEPT !.active = TRUE, !.generation = next_generation]
  /\ next_generation' = next_generation + 1
  /\ UNCHANGED <<stream, history, tables, serving, targets, job, reader>>

(* PollApplyCommitOnce of the load's runner: a message of the log, perhaps *)
(* one that the stream has not acknowledged.                               *)
LoadReplays(p) ==
  LET o == load.position[p]
      g == load.generation
      row == [primary_key |-> log[p][o + 1], partition |-> p, offset |-> o]
  IN
  /\ load.active
  /\ o < Len(log[p])
  /\ PublishSucceeds(tables[g], row)
  /\ tables' = [tables EXCEPT ![g] = Publish(@, row)]
  /\ load' = [load EXCEPT !.position[p] = o + 1]
  /\ UNCHANGED <<stream, history, serving, driver, reader>>

(* A load that fails, on a refused row or elsewhere, or is cancelled: the  *)
(* shard keeps its generation and the load's table goes with it.           *)
LoadEnds ==
  /\ load.active
  /\ load' = NoLoad
  /\ tables' = [tables EXCEPT ![load.generation] = EmptyTable]
  /\ UNCHANGED <<stream, history, serving, driver, reader>>

(* The load publishes its artifact under what its consumer has applied so  *)
(* far, and its consumer ends.  The stream goes on writing where it did.   *)
ExternalCutover ==
  /\ load.active
  /\ serving' = [generation |-> load.generation, compact |-> NoSnapshot,
                 full |-> FirstFull]
  /\ load' = NoLoad
  /\ loaded' = TRUE
  /\ UNCHANGED <<stream, folded, replayed, tables, driver, reader>>

-----------------------------------------------------------------------------

Next ==
  \/ \E k \in ReaderKeys : GetBegins(k)
  \/ GetEnds
  \/ \E p \in Partitions, k \in Keys : Deliver(p, k)
  \/ ApplyToTarget \/ Commit \/ Rewind
  \/ \E kind \in {"compaction", "rebase"} : BeginJob(kind)
  \/ BuildCompactedDeltaSnapshot \/ BuildRebasedFullSnapshot
  \/ FinishJob \/ AbandonJob
  \/ BeginExternalLoad \/ (\E p \in Partitions : LoadReplays(p))
  \/ LoadEnds \/ ExternalCutover

Spec == Init /\ [][Next]_vars

-----------------------------------------------------------------------------
(* Properties *)

ShardStates ==
  [generation : Generations \cup {NoGeneration},
   compact : RowMaps \cup {NoSnapshot}, full : RowMaps \cup {NoSnapshot}]

(* Types. *)
TypeOK ==
  /\ \A p \in Partitions : /\ log[p] \in Seq(Keys) /\ Len(log[p]) <= MaxMessages
                           /\ next[p] \in 0 .. Len(log[p])
                           /\ committed[p] \in 0 .. next[p]
  /\ \A g \in Generations : /\ tables[g].latest \in [Keys -> UpdateRows \cup {NoRow}]
                            /\ KeyCount(tables[g]) <= Capacity
  /\ serving \in ShardStates /\ job.previous \in ShardStates
  /\ message \in UpdateRows \cup {NoRow}
  /\ pending \in Seq(Generations) /\ targets \in Seq(Generations)
  /\ (message = NoRow) = (pending = <<>>)
  /\ acknowledged \in RowMaps

(* The append-only rows and the hash map agree: a scan of all rows finds,  *)
(* key by key, what lookups find, refused and stale rows notwithstanding.  *)
ScanMatchesMap ==
  \A g \in Generations :
    LET table == tables[g] IN
    /\ ScanSucceeds(table, CaptureCompactionBoundary(table))
    /\ ScanVisibleRows(table, CaptureCompactionBoundary(table)) = table.latest

(* What a compaction builds does not depend on when it scans: updates that *)
(* arrive after the boundary never change it.                              *)
CompactionInputIsFrozen ==
  [][job.kind = "compaction" /\ job' = job =>
       CompactedRows(job.previous, job.boundary)'
         = CompactedRows(job.previous, job.boundary)]_vars

(* Every key is served with the row that was acknowledged; only a key      *)
(* whose message is being applied may be ahead, with that message.         *)
UpToDate(k) ==
  \/ Get(serving, k) = acknowledged[k]
  \/ /\ message # NoRow /\ message.primary_key = k
     /\ Get(serving, k) = Newest(acknowledged[k], message)

(* A key's updates are ordered only within one partition. *)
HasOnePartition(k) ==
  \A p, q \in Partitions : k \in Range(log[p]) /\ k \in Range(log[q]) => p = q

(* The shard serves what was acknowledged: through compactions, rebases,   *)
(* abandoned jobs, running and failed loads, failed applies and redelivery *)
(* no acknowledged update is lost and no older row comes back, as long as  *)
(* the stream does not go back behind a job's cutover and no load has cut  *)
(* over with what its own consumer had.                                    *)
ServesAcknowledged ==
  ~replayed /\ ~loaded =>
    \A k \in Keys : HasOnePartition(k) => UpToDate(k)

(* Redelivery is harmless also behind the cutover of a job: a message that *)
(* was applied before is stale or a repetition wherever it arrives again   *)
(* (ClassifySourcePositionUpdate in every layer's place).                  *)
ReplayIsSafe ==
  ~loaded => \A k \in Keys : HasOnePartition(k) => UpToDate(k)

ServedView == [k \in Keys |-> Get(serving, k)]

(* A lookup in progress, with the row its pinned generation has now. *)
LookupView ==
  [key |-> reader.key,
   row |-> IF reader.key = NoRow THEN NoRow ELSE Get(reader.state, reader.key)]

Served == INSTANCE ServedRows
            WITH rows <- ServedView, lookup <- LookupView, FirstRows <- FirstFull,
                 disturbed <- replayed \/ loaded

(* ShardDirectory and ShardState behave as one atomic row per key: the     *)
(* swaps of generations by jobs are invisible, a served row is only ever   *)
(* replaced by an update that supersedes it, and a Get that holds on to a  *)
(* replaced generation returns a row that was served after it began.  It   *)
(* ends with the first load that cuts over, or when the stream goes back   *)
(* behind a job's cutover.                                                 *)
ImplementsServedRows == Served!Spec

===============================================================================
