# TLA+ verification of kv_index

kv_index is an in-memory forward index: a primary key leads to a row of typed
fields. Rows come from immutable *full artifacts* that an offline builder
writes and the index maps into memory, and from a Kafka topic of updates.
This directory models the library's own logic (`src/src`, `src/include`,
`src/tools/offline`), checks it with TLC on small instances, and proves with TLAPS, for all sizes, that
the hash map, loads, consumer, shards, frozen index, layouts and mapped files
keep their promises. `src/` stands for the root of the repository:
`src/src/store/...` is its `src/store/...`.

- [Inventory](#inventory)
- [Modules](#modules)
- [Runs](#runs)
- [Fairness](#fairness)
- [Proofs](#proofs)
- [Where the code and its documents disagree](#where-the-code-and-its-documents-disagree)
- [What is not modelled](#what-is-not-modelled)
- [Plan](#plan)

`PROJECT.json` has the machine-readable side of this text: the components, the
source lines behind every definition, the runs, the hazards with the properties
that cover them, and the theorems.

## Inventory

| Component | State | Operations | Interacts with |
|---|---|---|---|
| Realtime hash map (`store/realtime_delta.cc`) | slots with an atomic state, a plain key and an atomic row pointer; key counter | `PublishAndReport`, `Get`, `ReserveSlotForTesting` | called by any thread, without locks |
| Realtime delta table (same file) | append-only `rows_` with `sealed_visible` marks under `rows_mutex_`, and a hash map | `Publish`, `CaptureCompactionBoundary`, `ScanVisibleRows` | update applier writes, lookups read, compaction scans |
| Frozen primary key index, snapshot builder and views (`store/frozen_primary_key_index.cc`, `snapshot*.cc`) | header, control bytes with a mirrored group, key and offset arrays | add a row, build, `Validate`, lookup, enumeration | built offline, by compaction and by rebase; read from a mapping |
| Schema and layout (`model/schema.cc`) | active and deleted fields; compiled offsets | `AddField`, `DeleteField`, `Compile` | every row, artifact and update target |
| Row storage (`model/row_storage.cc`, `base/byte_io.h`) | row slot, arena, dictionaries | write and read a field, make and check accessors | applier writes, clients read |
| Shard state and directory (`runtime/`) | realtime, compact and full layer of a shard; one atomic pointer per shard | `Get`, `Load`, `Publish` | lookups pin a generation; loads and maintenance replace it |
| Delta compaction, full rebase (`rebuild/compaction.cc`, `full_rebase.cc`) | none of their own | build a snapshot, finish with a successor state | a driver outside the library calls them |
| Load API (`api/forward_index.cc`) | load table under `load_mu_`, cancellation flags, threads | `LoadAsync`, `CancelLoad`, `GetLoadState`, destructor | one worker thread per load stores into the table |
| Async load and catch-up (`rebuild/async_load.cc`) | the worker's `LoadState`, its realtime shards | load, prewarm, catch up, cut over | artifact files, consumer, directory, load table |
| Kafka consumer (`ingest/kafka_update_consumer.cc`) | librdkafka objects, assignment and position; the group's offsets in the broker | create, poll, seek, progress, commit, destroy | broker; one per load |
| Coordinator and applier (`ingest/update_coordinator.cc`, `update_applier.cc`) | targets with their layouts and tables | poll, decode, encode for every target, publish, commit | consumer; realtime tables of the targets |
| Artifact writer, format, mapping (`artifact/`) | one file per shard, or one file with every shard | write, parse, map, read a row | builder and index meet only in the file system |
| Offline builder (`tools/offline/`) | none that outlives it | parse arguments and schema file, read tables, encode, route, write schema file and shards | Parquet files, artifact writer |

What is hard here: publishers, readers and testers race on single atomic
operations of the hash map; workers, clients and the destructor race on the
load table; the group's committed offsets are shared by everything that ever
consumed in the group; messages are redelivered after failures and partitions
are assigned late; compaction and rebase scan while updates arrive, and swap
generations under readers; polls fail with messages in their hands; builders die
between two files or lose what they wrote; mappings outlive their validation;
layouts of several ages are in use at once; three programs agree on the bytes of a
file only by what each of them checks.

What makes the components correct:

- *Hash map*: linearizable; one slot per key; visible rows only advance; calls
  return; it refuses keys only when it is full.
- *Delta table, compaction, rebase*: scans agree with lookups; a compaction
  depends on its boundary only; the shard serves exactly what was acknowledged,
  through every change of generation; readers see nothing stale.
- *Load API and worker*: what a client was told stays true; a load that fails
  between two shards says how many it has replaced; reported cutovers are the real ones; catch-up is complete at the
  cutover; only applied messages are committed; loads, cancellations and the
  destructor end.
- *Frozen index*: what was built is found, exactly; what `Validate` accepts can
  be read safely.
- *Consumer*: commits leave no gap behind; objects are released once; an
  unhindered consumer gets to the end.
- *Artifacts*: what is accepted is what was written; an accepted build is served
  completely, with the values of the builder's input; what the writer wrote is
  accepted; a build that ended well has left nothing of an earlier one in place of
  its files; a shard reads what was validated.
- *Rows*: truncated payloads are refused; every field reads back; layouts do not
  overlap; ids keep their meaning; all targets have an acknowledged message.

## Modules

| Module | Models | State and actions |
|---|---|---|
| `SourcePositions` | `types.h`: validity and order of (partition, offset) | operators |
| `RealtimeAtomicHashMap` | the lock-free map | a slot is `slot_state`, `slot_key`, `slot_row`; a thread is `pc`, `call`, `probe`, `current`, `result`. One action per atomic operation: `PublishProbe`, `Reserve`, `WriteKey`, `WriteRow`, `Occupy`, `Count`, `LoadCurrent`, `Swap`, `SwapFails` (the weak exchange may fail spuriously), `GetProbe`, `GetLoad` |
| `AtomicRowMap` | the promise: a map from keys to rows on which every call takes effect at once | refined by `RealtimeAtomicHashMap` with `latest <- Latest, phase <- Phases` |
| `ServedRows` | the promise of a shard: one row per key, replaced by superseding updates only, and lookups that return a row served while they ran; it ends when the shard is `disturbed`, by the cutover of a load or a stream that goes back behind a job's cutover | refined by `ShardGenerations` with `rows <- ServedView, lookup <- LookupView` |
| `LoadReports` | the promise of the load API: each load is reported in order and with one outcome, shards are replaced in order when all are ready, and a failed load has reported those it replaced | refined by `AsyncLoad` with `entries <- ReportView` |
| `RealtimeDeltaTable` | the table as a value: `rows` and `latest` | operators `Publish`, `CaptureCompactionBoundary`, `ScanVisibleRows`; each holds `rows_mutex_` in the code, so it is one step of a module that uses it |
| `ShardGenerations` | one shard: layered `Get`, the applier's targets, compaction, rebase, and a load beside them | composes `RealtimeDeltaTable` with the update stream (`Deliver`, `ApplyToTarget`, `Commit`, `Rewind`), the jobs (`BeginJob`, `Build...`, `FinishJob`, `AbandonJob`), a load with its own table and consumer (`BeginExternalLoad`, `LoadReplays`, `LoadEnds`, `ExternalCutover`) and a reader (`GetBegins`, `GetEnds`) |
| `SourceProgress` | the arithmetic of safe progress and commit checkpoints | operators |
| `AsyncLoad` | load table, cancellation, destructor, worker threads, directory, consumer and broker | clients: `LoadAsync`, `LoadAsyncRejected`, `CancelLoad`, `Destroy`, `Join`; a worker step is one access to shared state (`PublishShard` and `PublishRefused` are the two results of `publish_shard`); broker: `Produce`, `Rebalance` |
| `FrozenPrimaryKeyIndex` | build, storage, validation and lookup | `AddRow`, `BeginBuild`, `InsertEntry`, `MirrorControl`, `StoredByteChanges`; `Validate` and `Lookup` are operators |
| `KafkaUpdateConsumer` | the consumer call by call, the coordinator above it and the runner that drives it | `pc` of the load, `handles` alive, `position`, `eof`, `batch`, `published`; creation: `Create`, `SetKafkaConfig`, `NewConsumer`, `PollSetConsumer`, `Subscribe`; work: `Seek`, `Capture`, `BeginPoll`, `PollMessage`, `PollEof`, `PollError`, `EndPoll`, `CheckBatch`, `Apply`, `Commit`; broker: `Assign`, `Revoke`, `Produce` |
| `RowLayout` | layout compilation and encoding policy | operators |
| `RowEncoding` | slot, arena and dictionaries of a row; writers and readers of every field kind | operators |
| `ByteStream` | length-prefixed reading and writing | operators |
| `WirePayload` | decoder of update payloads | operators |
| `SchemaSection` | schema section of an artifact, written and parsed | operators |
| `RowStorage` | schema evolution and update targets | composes the five above: `AddField`, `DeleteField`, `NewTarget`, `FillUp`, `Apply` (decode and encode for all targets), then `PublishTo` or `PublishRefused` target by target |
| `ArtifactImage` | the contents of an artifact file: writer, `ParseArtifact`, `LoadShard`, `EncodedRowAt` | operators |
| `SchemaFile` | `ParseSchemaFile` and `WriteSchemaFile` | operators |
| `OfflineBuilder` | arguments, input files, Arrow columns, row encoding, routing: what a build will write | operators; `PlanBuild` is `BuildArtifactDirectory` up to its first write |
| `ArtifactFiles` | builder processes, storage, loads, lookups | composes the three above: `BeginBuild`, `MakeDirs`, `WriteSchema`, `OpenFile`, `WriteFile`, `WriteFileFails`, `DamageFile`, `BeginLoad`, `MapShard`, `LoadFails`, `CheckProgress`, `PublishShard` |
| `...Proofs` | theorems about the module of that name, and their proofs | see [Proofs](#proofs) |
| `NumberFacts` | remainders, counting, least numbers, numbers defined step by step: lemmas that several proofs cite | no state |
| `MC...` | instances for TLC | constants only |

An operator whose comment begins with "Mutant:" is a deliberately wrong variant
of the definition that follows it, as a plausible bug would have it. It is not
used by any specification; putting it in the place of that definition makes the
property it is listed with in `PROJECT.json` fail, which shows that the property
looks at that code.

How the modules fit together: `ShardGenerations` takes the map as the function
`latest`, which is what theorem `Linearizable` justifies; its
load (`BeginExternalLoad` to `ExternalCutover`) is what one shard sees of a load of
`AsyncLoad`.
`AsyncLoad` treats an artifact as its source progress section, and a poll as one
step; `ArtifactFiles` treats a load as its file accesses, and `KafkaUpdateConsumer`
takes a poll apart. `RowStorage` follows one row through one or two targets;
`ShardGenerations` follows positions of rows and ignores their bytes.

### Abstractions to know about

- *Hash map.* A slot's key is a plain field that is written before and read
  after the release/acquire pair on the state, so that loading `kOccupied` and
  comparing the key is one step. `HashModulus` stands for 2^64, the width at
  which `hash + probe` wraps.
- *AsyncLoad.* Two reads of the cancellation flag in a row are one. Seek errors
  of single partitions are not looked at by the code
  (`kafka_update_consumer.cc:330-343`), so a seek moves the partitions assigned
  by then. A poll returns any number of messages of assigned partitions, in
  order. `publish_shard` may be refused at every shard; the directory of the library
  never does, the callback of a test does (`tests/unit/runtime_status_test.cc:532`). The mode of the index is chosen initially. `published` and `late` are
  history variables.
- *ShardGenerations.* The library has no thread that runs compactions. The
  driver modelled does what the tests and the design describe: it captures the
  boundary and adds the successor as a second target between two messages, and
  publishes the successor between two messages, when no load is active. It does not
  wait for commits nor for a stream that went back. A load has a table and a consumer
  of its own, which reads the log from the artifact's checkpoint; it cuts over with
  what that consumer has applied by then, after which the consumer is gone while the
  stream goes on writing where it did. When a load has enough is the subject of
  `AsyncLoad`; here it may cut over at any time. `acknowledged`, `folded` (the log at
  the last job's cutover), `replayed` (the stream went back behind it) and `loaded` (a
  load has cut over) are history variables.
- *FrozenPrimaryKeyIndex.* Sections are functions, the header is a record;
  hash values have ten bits, of which seven are the control byte.
- *ByteStream, WirePayload, ArtifactImage.* An integer of any width is one number of
  a sequence and a byte of a string is another, so that lengths, counts and ends
  behave as in the code and widths do not matter; `RowEncoding` has real bytes,
  little-endian. Checksums and layout fingerprints are taken to be injective. A
  section of a file is located by offset and length; header and directory are
  records. A frozen index is the list of its entries there.
- *Reads that may fail* yield a set: the result, or nothing. That keeps early
  returns visible without an error value in every operator.
- *ArtifactFiles.* `Catalogue` has what each build writes and what a load finds in
  it, whole or damaged; the state machine takes it as the constant `Artifacts`, so
  that TLC evaluates it once (an assumption says that the two are equal). A file is
  named by its build, the number of the run that wrote it, its part and its damage.
  Builds go into new paths or over what is there, as `MakeDirs` accepts `EEXIST` and
  files are truncated in place; `MaxBuilds` bounds them and `finished` is a history
  variable. Others
  see a file that is being written empty or without its last byte. A write that
  fails leaves a file that ends at, or one byte before, the end of the header, of
  the directory or of a section, or a section whose bytes were never stored. `MaxDamages`
  bounds failing writes and damaged copies together. Damaged copies
  have one changed header or directory field, or one section with other bytes.
- *SchemaFile.* Words that matter as a whole are one character code; quotes,
  blanks, comments and digits are characters. `kUInt32Max` and `kUInt64Max` are
  small stand-ins.
- *OfflineBuilder.* A Parquet file is the table that Arrow reads: columns with a
  type, an element type and chunks.
- *KafkaUpdateConsumer.* A librdkafka object is counted while it lives. A seek
  moves the partitions assigned at that time. A partition's end is announced once
  when it is reached. `origin` and `mine` are history variables: where reading of a
  partition began and what this client committed.
- *RowStorage.* Numbers are below 2^16. The schema version, which no operation
  changes, is a constant. The module follows one key: `full` are the targets whose
  tables other keys have filled, and a table that has the key refuses a message of
  another partition. A message that was not acknowledged is delivered again before any
  later one; `reached` (the targets that have it) and `due` (those that must agree) are
  history variables.

## Runs

Run one with `tlc -workers 2 -config <cfg> <module>`.

| Run | Instance | Distinct states | Shows |
|---|---|---|---|
| `hash_map` | 2 threads, 3 keys with the same hash, 2 slots, rows of one key with 5 positions (three offsets, another partition, invalid) | 93 thousand | linearizability, one slot per key, exact counter, rows only advance, "exhausted" only when full, every call returns, and the inductive invariant of the proofs |
| `load_catch_up` | 1 load, 2 shards, 2 partitions, logs of up to 2 | 16 thousand | complete catch-up, commits of applied messages only, the load ends |
| `load_concurrent` | 2 loads of an up-to-date artifact, 2 shards, 1 partition, with and without Kafka | 77 thousand | refinement of `LoadReports`, reported cutovers are real, also of a load that fails between two shards, the destructor and cancelled loads end |
| `load_after_restart` | 1 load, a group that committed the log end | violation | see below |
| `load_nothing_new` | 1 load, a new group and an up-to-date artifact | violation | see below |
| `shard_maintenance` | 2 keys, 2 partitions, 3 messages, 3 generations, 1 rewind, tables of 1 key, a reader, a load | 1.2 million | scans match the map, acknowledged rows are served until a load cuts over or the stream goes back behind a cutover, compaction input is frozen, refinement of `ServedRows` |
| `shard_replay` | 1 key, 1 partition, 2 messages, 2 generations, 1 rewind | violation | see below |
| `index` | 8 keys with homes 6 and 7 of 8, groups of 8, up to 8 rows (the table grows at 8); up to 3 changed bytes for 3 of the keys | 2.2 million | exact lookups, an empty slot always left, accepted bytes are consistent |
| `artifact` | 4 keys, 2 shards, 2 paths, 2 builds, 1 damage; 6 command lines that get to writing (one differs from the index in the seed, one in the version, one in the number of shards, one has an id that does not fit), 24 that are refused, and a file with both shards and source progress; index with and without Kafka | 1.6 million | accepted files are as written, lookups return the builder's input, no file changes under a reader unless a later build opens it, a build that ended well has replaced what earlier ones left; `CatalogueAssumption`, what the theorems suppose of the builds, and `SchemaFilesReadBack` |
| `artifact_empty_shard` | a file with 16 shards of which one has a row | violation | see below |
| `rows` | 1 target with 63 fields, among them all 12 kinds, and 2 targets with schemas of 1 to 4 fields, full tables and 2 partitions; 2 and 3 schema changes; whole, cut and malformed payloads | 178 thousand | sound layouts, fields read back, targets agree whichever refused a message before, ids keep their meaning, artifacts keep their layout |
| `ingest` | 3 partitions in 2 topics, logs of 1 to 3 messages with one bad key, 6 requests of which 3 are refused at different steps, 1 failing call, 1 revoked partition | 101 thousand | commits leave no gap, objects are released once, what is ahead is committed |

Why the bounds are enough to be interesting:

- `hash_map`: colliding keys make every race of the reservation loop happen, two
  slots are too few for three keys, hash 7 of 8 makes the probe sequence wrap, and three
  offsets let a row be overtaken between its classification and its exchange, and
  the other positions give the remaining verdicts. Two threads are enough for
  every pairwise race; the theorems cover any number.
- `load_*`: with two shards a load can be between its first and second cutover;
  with two partitions one can be caught up and the other not, or unassigned.
  Two loads exchange the partition; one message is enough for that, and
  `load_catch_up` has the longer logs. With an up-to-date artifact a worker may
  wait for ever, which is when cancellation and the destructor matter. A load of `load_catch_up` always has
  something to catch up on: the other case is `load_nothing_new`. Two loads may
  starve each other, so `LoadsEnd` is stated for one.
- `shard_*`: three generations are two jobs in a row, or a job and a load; three
  messages give two rows of one key around a boundary and a row of another key
  or partition. A table of one key is full after the first key. The constraint
  `UntilDisturbed` makes TLC check the states in which a load has cut over or the
  stream has gone back behind a cutover, and not go on from them: what lookups are
  promised ends there.
- `index`: the search for an empty slot and lookups wrap around, and eight rows
  are the first that do not fit eight slots. An entry has two control bytes and
  the row count, so that three changes remove an entry consistently.
- `rows`: 60 to 65 fields lie around the first word of presence bits; a payload is
  cut after each of its numbers. With two targets one of them can have a message that
  the other refuses, and with two partitions a refusal stays until the target is
  replaced.
- `artifact`: three rows of the first build have every encoding, absent values and
  columns that are chunked differently; the second reads two files. One damage is
  enough for every check of the parser; two paths let one artifact be served while
  the next is written, and two runs let the second go over the files of the first,
  served or half written. The refused command lines, schema files and inputs violate
  one condition of the code each.
- `artifact_empty_shard`: `std::sort` is stable in effect up to 16 elements, which a
  file of few shards does not exceed.
- `ingest`: batches of one and of two messages; a bad key behind a good one and in
  front of one; a load that begins behind it. One failing call at every place, and
  then a client that starts anew from what was committed.

`CHECK_DEADLOCK FALSE` is set for the load, shard and index runs: a destroyed
index, a bounded log that is consumed and a stored index are final states. The
bounds (`MaxLoads`, `MaxOffset`, `MaxMessages`, `MaxGeneration`, `MaxRewinds`,
`MaxRows`, `MaxDoublings`, `MaxChanges`, `ChangedKeys`, `MaxBuilds`, `MaxDamages`,
`MaxFaults`, `MaxRebalances`, and `maxChanges` of each deployment of `rows`) are guards of the actions that would exceed them.

## Fairness

- *Hash map*: weak fairness of every thread's steps (a thread in a call keeps
  running) and strong fairness of `Swap`: `compare_exchange_weak` may fail
  spuriously, but not for ever when it could succeed again and again. Nothing is
  assumed of the start of calls. That another publisher always wins is excluded
  by the data: each success is by a newer row of finitely many.
- *AsyncLoad*: weak fairness of every worker thread and of the join, and strong
  fairness of a poll that returns messages: a consumer that owns a partition
  with unread messages and polls for ever receives some of them, which is what
  Kafka promises a live consumer. There is no fairness of clients, of
  producers or of partition assignment: a load whose partitions are not
  assigned fails at its first progress check, as in the code.
- *KafkaUpdateConsumer*: weak fairness of the load thread's steps and strong fairness
  of the delivery of a message of each partition. `WhatIsAheadIsCommitted` is stated
  for a consumer that nothing hinders any more: no more failures, rebalances or new
  messages, its partitions assigned, and what lies ahead convertible. There is no
  fairness of creation, assignment or production.

## Proofs

Check one module with `tlapm <module>.tla`. The theorems hold for every value of
the constants that satisfies the named assumptions of the model, which TLC evaluates
in the runs. Where a theorem has a hypothesis of its own, the table names it and the
text says why it is needed; the passing runs satisfy every one of them.

An invariant of the runs is seldom inductive. Each section below has an inductive
invariant, proved with one lemma per action, from which the properties follow.

### Hash map: `RealtimeAtomicHashMapProofs`

For every set of keys with key 0, every finite set of threads, all rows and hash
values, every capacity (zero and those that are no power of two included) and every
width of the probe arithmetic (`MapAssumption`, `ThreadsAssumption`):

| Theorem | Statement |
|---|---|
| `MapInvariant` | `Spec => []MapInv` |
| `TypeCorrect` | `Spec => []TypeOK` |
| `OneSlotPerKey` | `Spec => []KeyHasOneSlot` |
| `RowsOnlyAdvance` | `Spec => VisibleRowOnlyAdvances` |
| `Linearizable` | `Spec => ImplementsAtomicMap`, the specification of `AtomicRowMap` under the refinement mapping |
| `CountIsExact` | `Spec => []CountAgreesWithSlots` |
| `ExhaustedIsFull` | `Spec => []ExhaustedOnlyWhenFull`, if `SeamlessProbing` |

`KeyHasOneSlot` does not say why a publisher that reserves a slot could not be
reserving a second one for its key. `MapInv` adds what the code relies on:

- `OccupiedIsInitialised`: an occupied slot has a valid row of its own key;
- `FillingIsExclusive`: a slot between reservation and `kOccupied` belongs to one
  thread and holds what that thread wrote so far;
- `PublishedIsReachable`: the slot of a key lies on the key's probe sequence and
  all slots before it are occupied by other keys;
- `CallsAreOnTrack`: the slots a running call has gone past are occupied by other
  keys, and a call that found its key stays at that slot.

The last two together give one slot per key: a publisher that occupies a slot
has seen other keys in all slots before it, occupied slots never change their
key, and no slot of the key can lie behind an unoccupied one. For
`RowsOnlyAdvance`, slots keep their keys and rows are replaced only by `Swap`,
whose `current` row was classified as older and is compared again by the exchange.
For `Linearizable` each concrete step is shown to be one step of `AtomicRowMap` or
to leave it unchanged: a publish takes effect at `Occupy` or `Swap`, or when it
loads the row that makes it stale; a `Get` at the load of the row or at the first
slot that shows the key absent; an answer of unavailable or exhausted has no effect.
`CountIsExact` follows the cardinalities of the occupied slots and of the threads
that have still to count. `ExhaustedIsFull` needs that a round of probes visits
every slot. It does when `hash + probe` does not wrap, or wraps at a multiple of the
capacity, as with a power of two (`SeamlessProbing`); for other capacities it is false
of the code (see below).

### Loads: `AsyncLoadProofs`

For any number of loads, shards and partitions, any artifacts and offsets
(`LoadAssumption`), with and without Kafka:

| Theorem | Statement |
|---|---|
| `LoadInvariant` | `Spec => []LoadInv` |
| `TypeCorrect` | `Spec => []TypeOK` |
| `CancelPrompt` | `Spec => []CancelIsPrompt` |
| `CutoverReported` | `Spec => []CutoverIsReported` |
| `ReturnedSettled` | `Spec => []ReturnedLoadIsSettled` |
| `PartialCutoverReported` | `Spec => []PartialCutoverIsReported` |
| `TerminalFinal` | `Spec => TerminalCodeIsFinal` |
| `LoadsAreReported` | `Spec => ImplementsLoadReports`, the specification of `LoadReports` under the refinement mapping |
| `CommittedApplied` | `Spec => []CommittedIsApplied`, if `FirstLoadOfGroup` |
| `CutoverCovers` | `Spec => []CutoverCoversLog`, if `FirstLoadOfGroup` |

`LoadInv` relates, through the worker's place in its code, three pieces of state that
are written at different times by different threads: the worker's own counters
(`CountersFollowPc`, `CodeFollowsPc`), what clients are told (`StoredFollowsState`:
the worker's state, or cancelled) and what the directory has (`PublishedInOrder`,
`LateIsTheLast`).

For `LoadsAreReported` every step of a worker, a client or the destructor is shown to
be one step of `LoadReports` or to leave it unchanged. `GetLoadState` returns what was
stored, which the worker, `CancelLoad` and the destructor write in turn: `StoreState`
merges the worker's state with a cancellation that came first, so that counters go on
and the outcome stays. `ReportInv` says that the counters in the table are the
worker's. A shard is published before it is reported, in two steps, and a refused
publication is between the report of one shard and the publication of the next, so
that `kFailed` always comes with the exact count; every other failure comes before the
first shard.
`CancelPrompt` is what the code gives of `docs/tasks/W06-artifact-async-load.md:78`: not
"no more work", but at most the one shard already decided on.
`TerminalFinal`, that a terminal code never changes, is one consequence; it is stated
apart because it needs no counters.

`CatchUpInv` adds that everything between the artifact's checkpoint and the group's
offset, the consumer's position and the offsets about to be committed has been
applied. `FirstLoadOfGroup` says that the process performs one load and that the
group has not committed beyond the checkpoint of an artifact. Without it the two
properties are false of the code: `load_after_restart` is the counterexample.

### Consumer: `KafkaUpdateConsumerProofs`

For any partitions, logs, requests, failures and rebalances (`ConsumerAssumption`):

| Theorem | Statement |
|---|---|
| `ConsumerInvariant` | `Spec => []ConsumerInv` |
| `CommitsWithoutGap` | `Spec => []CommitLeavesNoGap` |
| `HandlesBalance` | `Spec => []HandlesReleasedOnce` |

`CommitLeavesNoGap` is about commits only. `ConsumerInv` follows the messages on
their way to one: from where reading of a partition began to the position they are
published or in the batch (`PartitionOK`), a batch has no holes, also when a
rebalance in the middle of a poll moved the consumer back (`InBatchOK`), and outside
a poll the batch has been applied (`BatchApplied`). `HandlesReleasedOnce` is
inductive as it stands: one case per early return of `Create`.

### Shards: `ShardGenerationsProofs`

For any keys, partitions, messages, generations, rewinds and table capacities
(`ShardAssumption`), with and without a compact layer:

| Theorem | Statement |
|---|---|
| `ShardInvariant` | `Spec => []ShardInv` |
| `TypeCorrect` | `Spec => []TypeOK` |
| `ScansAgree` | `Spec => []ScanMatchesMap` |
| `CompactionFrozen` | `Spec => CompactionInputIsFrozen` |
| `ServeInvariant` | `Spec => []ServeInvWhileUndisturbed` |
| `AcknowledgedServed` | `Spec => []ServesAcknowledged` |
| `LookupsAreAtomic` | `Spec => ImplementsServedRows`, the specification of `ServedRows` under the refinement mapping |

`ShardInv` is structural: the map of a realtime table has the newest of the sealed
rows of each key (`LatestIsNewestSealed`), and generations are used once and in order.
`ServeInv` is the argument for the layers. It holds as long as no load has cut over
(`loaded`) and the stream has not gone back behind the cutover of a job (`replayed`);
nothing is assumed of the driver or of commits. A row in a snapshot has lost its source
position, so no message delivered from now on may be older (`LayersAreFolded`: its
offset is below `folded`); while a job runs, the successor's table over the rows up to
the boundary equals the serving table, or lags behind it by a row that it is being
given or that will be delivered again (`SuccessorFollows`), and is never ahead
(`SuccessorIsContained`); a message that has reached one of two targets is accounted
for (`ServesTheStream`, `HalfAppliedIsServed`); the stream writes to the table that is
served (`StreamIsServed`), which ends with the cutover of a load; and the generation
that a lookup holds on to is the serving one, or one that nobody writes to any more
(`ReaderOK`). Behind the two limits the properties are false of the code:
`shard_replay` is the counterexample for the one; for the other, a load's table may be
behind the generation it replaces, and nobody writes to it any more.

For `LookupsAreAtomic`, `ServedView` is what `Get` finds for each key in the serving
generation and `LookupView` what a running lookup finds in the generation it loaded.
Every publication of a successor by a compaction or a rebase leaves
both unchanged: for a row that went from the table into a snapshot because of
`ServesTheStream`, for a lookup because of `ReaderOK`. The cutover of a load is the
step that ends the promise (`disturbed`). An update takes effect when it
is applied to the first of its targets, which is the serving one; the second
application changes nothing that is served. A lookup that still reads the replaced
generation does not see the update, and returns what was served when it began or
later.

### Frozen index: `FrozenPrimaryKeyIndexProofs`

For any keys, hash values, group width, row size and number of rows and changed bytes
(`IndexAssumption`; it says of `2^j` that it is a positive number, because the
provers know nothing of powers, and that some permitted capacity is enough for
`MaxRows`):

| Theorem | Statement |
|---|---|
| `BuildInvariant` | `Spec => []BuildInv` |
| `EmptySlotLeft` | `Spec => []BuildLeavesAnEmptySlot` |
| `BuiltExact` | `Spec => []BuiltIndexIsExact` |
| `AcceptedConsistent` | `Spec => []AcceptedIndexIsConsistent` |

`BuildInv` says that the occupied slots are exactly those of the entries inserted so
far, each with its control byte and reachable: all slots from its home to it are
occupied. The load factor of 7/8 leaves an empty slot (by counting), where the
search of `InsertEntry` and every lookup of an absent key end. `AcceptedConsistent` is about arbitrary changes of
the stored bytes: what `Validate` accepts, lookups and enumeration agree on.

### Layouts: `RowStorageProofs`

For schemas of any number of fields of any types, any targets and any number of
changes (`RowStorageAssumption`: a schema is finite, ids are distinct numbers, types
are known):

| Theorem | Statement |
|---|---|
| `SchemaInvariant` | `Spec => []SchemaInv` |
| `LayoutsSound` | `Spec => []LayoutIsSound` |
| `IdsKeepTheirMeaning` | `Spec => []FieldIdKeepsItsMeaning` |

`FieldIdKeepsItsMeaning` compares layouts with active fields. `SchemaInv` also keeps
the deleted ones: all fields a schema ever had have distinct ids, and a layout is
compiled from some of them. `LayoutsSound` is about the two loops of `Compile`, which
place fixed fields at aligned offsets and references behind them. The cursor of the
first is a recursive function of the field's number (`FixedCursor`); lemma
`StepsUnwind` gives its equation, and monotony of the cursor then gives that no two
fields share a byte.

### Artifacts: `ArtifactFilesProofs`

For any catalogue of builds, any paths, shards, failures and damages, any number of
builds into new paths or over earlier ones, and with the hypotheses named here:

| Theorem | Statement |
|---|---|
| `FilesInvariant` | `Spec => []FilesInv` |
| `MappedFilesStay` | `Spec => []LookupSeesWholeRows` |
| `FinishedBuildsAreWhole` | `Spec => []FinishedBuildIsWhole` |
| `AcceptedFilesAreAsWritten` | `Spec => []AcceptedFileIsAsWritten`, if `ReadsBack` |
| `LoadedBuildsAreServed` | `Spec => []LoadedBuildIsServed`, if `ReadsBack` and `RoutesInput` |

Files are written in place and a mapping follows its file, so that what protects a
reader of a new file is that no load accepts one which this run will still write.
`FilesInv` says so: what is there of the files a build has still to write is of earlier
runs, and the one it is writing is refused (`BuilderOK`); every file is one that a
build wrote, whole or with one damage (`DirectoriesOK`); and every mapping of a load or
of a serving shard is of a file that was accepted, whose present contents are the same
or those of a later run (`MappingsOK`). The run that wrote a file is in the invariant
because a build may go over the files of an earlier one, of the same name too: only a
change of the run can change what a reader sees.

`FinishedInv` adds what a running build has done already (`BuildProgress`): each of its
files is written or among those left, and the schema file came first. Its end then
leaves no file of another run.

What the parser refuses is proved from `ParseArtifact`: a file that ends early, as it
does while it is being written, ends before one of its sections does, which
`CheckBounds` finds (`CutIsRefused`, `GrowingIsRefused`); one with a section that was
not stored has another checksum (`UnwrittenIsRefused`); and one that is accepted has
the configuration of the index in its header (`AcceptedConfiguration`), so that builder
and index compute the same shard for a key.

The provers cannot compute what the recursive writers and readers do with the bytes
of a given input. The theorems leave that to hypotheses about the catalogue, in which
no builder, load or failure occurs: an accepted file that is whole, or has a changed
field in its header or directory, reads back (`ReadsBack`), and the writer is given each
row of the input in the shard of its key (`RoutesInput`). TLC evaluates them on the builds of the runs (`CatalogueAssumption`
in `MCArtifactFiles`), together with the assumptions of the model: `Artifacts` is the
`Catalogue`, a build writes each of its files once (`BuildsAssumption`), and a written
file has its whole directory, its sections with the checksums stated there, and nothing
behind them (`ImagesAssumption`).

What the code does not exclude is in the statements and not in hypotheses.
`LookupSeesWholeRows` is about files that no later run has opened: a build into a
served path truncates mapped files. `ServesOneRun`, the premise of
`LoadedBuildIsServed`, also wants all shards from one run (a load takes a mixture that
a died build left), no damage to the header's shard count, seed or version (the header
has no checksum), and, for an index with hash version 0, which compares none, a build
with version 0. For a file with any other damage the proof shows that the header still
states the configuration of the build (`DamageKeepsField`).

### Only model-checked

- `EveryCallReturns`, `LoadsEnd`, `DestructorReturns`, `CancelledLoadReturns`,
  `WhatIsAheadIsCommitted`: liveness under fairness is out of the prover's reach.
- `RowsReadBack`, `TargetsAgree`, `ArtifactLayoutIsExact`: what encoders and decoders
  compute is defined by recursion over bytes, and the provers cannot do induction over
  data.
- `ReadsBack`, `RoutesInput`: what is in the files of a catalogue, which recursive
  parsers and writers compute; hypotheses of theorems, see above. `SchemaReadsBack`, that
  the schema file of a build describes its shards, is evaluated for the catalogue of
  the run, whose names have no `#`, and is not a hypothesis of any theorem.
- Catch-up for groups and processes beyond `FirstLoadOfGroup`.

## Where the code and its documents disagree

Four runs expect a violation; each states what a document of the repository
says, and TLC shows a behaviour of the code that contradicts it.

- `load_after_restart`: `CatchUpRequired` (`async_load.cc:107`) looks at the
  group's committed offset instead of the position of the load's own consumer.
  After a restart the group has committed the log end, no catch-up is required,
  and the index serves the artifact without the updates since its checkpoint.
- `load_nothing_new`: with a new group and an artifact that is up to date there
  is nothing to poll, hence nothing to commit, and the loop
  (`async_load.cc:459`) waits for a commit that never comes.
- `shard_replay`: a compaction keeps rows and drops their source positions
  (`compaction.cc:68`), so that a redelivered older message is taken for the
  first one of its key by the successor table. For the same reason the successor
  accepts a compacted key from another partition, which the old table would have
  refused; `docs/tasks/W07-compaction-full-rebase.md:40` has "same-key cross-partition
  ordering fails closed". `ServesAcknowledged` is therefore about keys with one partition.
- `artifact_empty_shard`: `ParseArtifact` (`artifact_format.cc:337`) sorts sections by
  offset alone and refuses a section that begins before the end of its
  predecessor. An empty shard has a `kRowSlots` section of size zero, which begins
  where the next section begins; with more than 16 sections `std::sort` may put the
  longer one first. A multi-shard file of `WriteArtifact` with empty shards is then
  refused ("artifact sections overlap"). Files of a single shard have fewer
  sections and are not affected.

Further disagreements met while reading, without a run of their own:

- With a capacity that is no power of two, `ProbeIndex` (`realtime_delta.cc:67`)
  jumps where `hash + probe` wraps at 2^64, probes some slots twice and others
  never; the loader always uses 1024.
- `CancelLoad` reports `kCancelled` at once, while the worker may still cut over
  the one shard it had decided to publish (theorem `CancelPrompt`: at most one);
  `docs/tasks/W06-artifact-async-load.md:78` wants `kCancelled` only when no more
  work will proceed, and `docs/tasks/W08-observability-finalization.md:76` wants every serving shard
  unchanged by a load that is cancelled before its last publication.
- A message may stay in some targets and be refused by the next one for ever
  (`update_applier.cc:808`): `docs/tasks/W05-kafka-update-pipeline.md:102` accepts the
  partial publication and relies on replay, which `TargetsAgree` shows to be enough
  as soon as every target accepts it.
- `LoadAsync` starts a second load while one runs; the design document (line 795)
  has one at a time.
- The consumer of a load is destroyed when the load ends (`async_load.cc:527`);
  no one applies later updates to the served shards, while `README.md:43`
  promises "live apply".
- `FinishFullRebase` (`full_rebase.cc:155`) refuses when any update arrived
  during the rebase, although such updates are in the successor;
  `docs/tasks/W07-compaction-full-rebase.md:66` says that they are visible after
  the cutover. It also does not look at `external_async_load_active` again
  (`full_rebase.cc:86`).
- With `options.hash_version` 0 the hash version of an artifact is not compared
  (`artifact_format.cc:277`) and keys are looked up in the wrong shards.
- A build into a directory that is being served truncates the mapped files
  (`artifact_writer.cc:470`), and one that dies there leaves files of two builds, which
  a load accepts: artifact ids are not compared (`async_load.cc:341`).
- A load cuts over with what its consumer has applied, which may be older than what the
  shard served before; `ServesAcknowledged` ends there.
- Default values of fields are not in the schema section, but the fingerprint
  covers them (`artifact_format.cc:123`): an artifact whose layout has a default
  is always refused. `ArtifactLayoutIsExact` says that it is never misread.
- The writer looks at the stream after `write` and not after closing it
  (`artifact_writer.cc:476`): what is lost with the last buffer leaves a short file
  and exit code 0. `AcceptedFileIsAsWritten` says that such a file is not loaded.
- A message with a key that is no number fails the poll that reads it
  (`kafka_update_consumer.cc:322`) and thereby every load that comes to it.
- A poll that fails drops what it has read. The load gives its consumer up, so that
  nothing is skipped (`CommitLeavesNoGap`); a caller that went on with the same
  consumer would skip the dropped messages with its next commit.
- Names with `#`, quotes or outer blanks do not survive `WriteSchemaFile` and
  `ParseSchemaFile` (`offline_artifact_builder.cc:471`).

## What is not modelled

- Arrow, Parquet, librdkafka and the file system, beyond what the code relies on.
- The widths of integers in wire format and artifact sections (see above), texts of
  error messages, the summary a build prints, the names of Kafka properties.
- Byte statistics, `ShouldCompactRealtimeDelta` (never called by the library),
  `GetRuntimeStatus` (reads what is modelled), the catch-up factory for tests.
- `MGet`: it repeats `Get` per key after loading each shard's pointer once.
- Accessors: `ValidateAccessor` (`row_storage.cc:31`) compares the layout that an
  accessor was made for with the row's, at one place.
- The allocation that a field count of the wire format asks for before any field is
  read (`update_applier.cc:340`): a payload with a wrong count is refused for its
  length, as modelled, if the allocation succeeds.
- Memory reclamation: generations are held by `shared_ptr`, rows of a realtime
  table live as long as the table.
- The stable hash and status helpers: the hash is a constant of the models.

## Plan

Modelled: hash map, delta table, shards, loads, consumer, frozen index, rows,
payloads, artifacts and the offline builder. Proved: what the section above lists,
with three refinements (`AtomicRowMap`, `ServedRows`, `LoadReports`). Left:

1. *`MGet`* against concurrent cutovers of several shards.
2. *`TargetsAgree`* as a theorem, from an abstract statement of what reading after
   writing a field yields, which stays with TLC.
3. *A whole index*: several shards of `ServedRows` behind one load of `LoadReports`,
   where lookups of keys in different shards see a load at different times.
