------------------------------ MODULE AsyncLoad ------------------------------
(***************************************************************************)
(* External artifact loads: the load table and cancellation flags of       *)
(* ForwardIndex (src/api/forward_index.cc), one worker thread per load     *)
(* (src/rebuild/async_load.cc, RunExternalArtifactLoad), the shard         *)
(* directory the workers publish into, and the Kafka catch-up through      *)
(* consumer, coordinator and applier (src/ingest).                         *)
(*                                                                         *)
(* A worker step is one access to shared state: a read of the cancellation *)
(* flag, a store into the load table under load_mu_, a publish into the    *)
(* directory, a call of the broker.  Purely local work is part of the step *)
(* that follows it.  Two checks of the flag in a row are one.              *)
(***************************************************************************)
EXTENDS SourceProgress, FiniteSets

CONSTANTS MaxLoads,          \* bound on LoadAsync calls that start a load
          ShardCount,        \* options.shard_count
          KafkaModes,        \* values of ForwardIndexModeUsesKafkaRealtime for
                             \* the modes an index may be constructed with
          Partitions,        \* partitions of the source topic
          MaxOffset,         \* bound on the length of a partition's log
          Artifacts,         \* source progress sections of the artifacts
          InitialHigh,       \* log lengths when the index is constructed
          InitialCommitted   \* offsets committed by the group before that

NoOffset == -1               \* the group has committed nothing
NoLoad == 0                  \* no load: an empty shard, an unowned partition

Loads == 1 .. MaxLoads
Shards == 0 .. ShardCount - 1

ASSUME LoadAssumption ==
  /\ MaxLoads \in Nat
  /\ ShardCount \in Nat \ {0}
  /\ KafkaModes \subseteq BOOLEAN
  /\ MaxOffset \in Nat
  /\ Partitions # {}
  /\ InitialHigh \in [Partitions -> 0 .. MaxOffset]
  /\ InitialCommitted \in [Partitions -> NoOffset .. MaxOffset]
  /\ Artifacts \subseteq
       [Partitions -> [checkpoint_next_offset : 0 .. MaxOffset,
                       high_watermark : 0 .. MaxOffset]]

VARIABLES
  next_load_id,
  stored,          \* loads_: what GetLoadState returns
  registered,      \* keys of load_cancellations_
  cancellation,    \* the cancellation flag of each load
  lifetime,        \* of the ForwardIndex: "live", "destroying", "destroyed"
  pc,              \* per worker: its next step
  artifact,        \* per worker: the progress section of its artifact
  state,           \* per worker: its own LoadState
  UsesKafkaRealtime, \* of options.mode, which never changes
  shards,          \* the shard directory: the generation each shard serves
  high_watermark,  \* broker: length of each partition's log
  committed,       \* broker: the group's committed offsets
  owner,           \* broker: the consumer each partition is assigned to
  position,        \* per worker: next offset its consumer fetches
  batch,           \* per worker: checkpoint of the batch being applied
  realtime,        \* per worker: messages in its realtime shards
  published,       \* history: shards each load has cut over
  late             \* history: those it cut over after it was cancelled

api == <<next_load_id, registered, cancellation, lifetime>>
broker == <<high_watermark, committed, owner>>
catchUp == <<position, batch, realtime>>
directory == <<UsesKafkaRealtime, shards, published, late>>
vars == <<api, stored, pc, artifact, state, directory, broker, catchUp>>

NewState ==
  [code |-> "kRunning", terminal |-> FALSE, loaded |-> 0, prewarmed |-> 0,
   cutover |-> 0, source_progress |-> NoProgress]

UnknownState == [NewState EXCEPT !.code = "kUnknown", !.terminal = TRUE]

Nowhere == [p \in Partitions |-> 0]

Init ==
  /\ next_load_id = 1
  /\ stored = [l \in Loads |-> UnknownState]
  /\ registered = {}
  /\ cancellation = [l \in Loads |-> FALSE]
  /\ lifetime = "live"
  /\ pc = [l \in Loads |-> "none"]
  /\ artifact = [l \in Loads |-> NoProgress]
  /\ state = [l \in Loads |-> UnknownState]
  /\ UsesKafkaRealtime \in KafkaModes
  /\ shards = [s \in Shards |-> NoLoad]
  /\ high_watermark = InitialHigh
  /\ committed = InitialCommitted
  /\ owner = [p \in Partitions |-> NoLoad]
  /\ position = [l \in Loads |-> Nowhere]
  /\ batch = [l \in Loads |-> NoProgress]
  /\ realtime = [l \in Loads |-> {}]
  /\ published = [l \in Loads |-> {}]
  /\ late = [l \in Loads |-> {}]

Goto(l, label) == pc' = [pc EXCEPT ![l] = label]

-----------------------------------------------------------------------------
(* The load table *)

MarkFailed(s) == [s EXCEPT !.code = "kFailed", !.terminal = TRUE]

MarkCancelled(s) == [s EXCEPT !.code = "kCancelled", !.terminal = TRUE]

(* Mutant: the worker's state replaces the one the client was told. *)
MergedOverwrites(old, new) == new

(* Mutant: a cancelled entry is not updated any more. *)
MergedKeepsOld(old, new) ==
  IF old.code = "kCancelled" /\ old.terminal THEN old ELSE new

(* store_state: once a client was told kCancelled the code stays so, while *)
(* the counters still follow the worker.                                   *)
Merged(old, new) ==
  IF old.code = "kCancelled" /\ old.terminal /\ new.code # "kCancelled"
    THEN MarkCancelled(new)
    ELSE new

(* The worker changes its own state and stores it. *)
StoreState(l, s) ==
  /\ state' = [state EXCEPT ![l] = s]
  /\ stored' = [stored EXCEPT ![l] = Merged(stored[l], s)]

(* The last store of a worker; RunExternalArtifactLoad returns. *)
Finish(l, s) == StoreState(l, s) /\ Goto(l, "return")

Fail(l) == Finish(l, MarkFailed(state[l]))

-----------------------------------------------------------------------------
(* Client calls *)

(* The URI names no local file: a terminal entry and no worker. *)
LoadAsyncRejected ==
  /\ lifetime = "live"
  /\ next_load_id \in Loads
  /\ stored' = [stored EXCEPT ![next_load_id] = MarkFailed(NewState)]
  /\ pc' = [pc EXCEPT ![next_load_id] = "done"]
  /\ next_load_id' = next_load_id + 1
  /\ UNCHANGED <<registered, cancellation, lifetime, artifact, state,
                 directory, broker, catchUp>>

(* An artifact's progress section describes the log as it was earlier. *)
LoadAsync(a) ==
  LET id == next_load_id IN
  /\ lifetime = "live"
  /\ id \in Loads
  /\ \A p \in Partitions : a[p].high_watermark <= high_watermark[p]
  /\ stored' = [stored EXCEPT ![id] = NewState]
  /\ registered' = registered \cup {id}
  /\ pc' = [pc EXCEPT ![id] = "start"]
  /\ artifact' = [artifact EXCEPT ![id] = a]
  /\ next_load_id' = id + 1
  /\ UNCHANGED <<cancellation, lifetime, state, directory, broker, catchUp>>

(* CancelLoad that returns true; otherwise it changes nothing. *)
CancelLoad(l) ==
  /\ lifetime = "live"
  /\ ~stored[l].terminal
  /\ stored' = [stored EXCEPT ![l] = MarkCancelled(@)]
  /\ cancellation' = [cancellation EXCEPT ![l] = @ \/ l \in registered]
  /\ UNCHANGED <<next_load_id, registered, lifetime, pc, artifact, state,
                 directory, broker, catchUp>>

(* Mutant: the destructor only joins. *)
DestroyWithoutCancel ==
  /\ lifetime = "live"
  /\ lifetime' = "destroying"
  /\ UNCHANGED <<next_load_id, stored, registered, cancellation, pc, artifact,
                 state, directory, broker, catchUp>>

(* ~ForwardIndex sets the flag of every registered load and joins. *)
Destroy ==
  /\ lifetime = "live"
  /\ lifetime' = "destroying"
  /\ cancellation' = [l \in Loads |-> cancellation[l] \/ l \in registered]
  /\ UNCHANGED <<next_load_id, stored, registered, pc, artifact, state,
                 directory, broker, catchUp>>

Join ==
  /\ lifetime = "destroying"
  /\ \A l \in Loads : pc[l] \in {"none", "done"}
  /\ lifetime' = "destroyed"
  /\ UNCHANGED <<next_load_id, registered, cancellation, stored, pc, artifact,
                 state, directory, broker, catchUp>>

-----------------------------------------------------------------------------
(* RunExternalArtifactLoad up to the catch-up *)

Start(l) ==
  /\ pc[l] = "start"
  /\ StoreState(l, NewState)
  /\ Goto(l, "check_load")
  /\ UNCHANGED <<api, artifact, directory, broker, catchUp>>

(* CheckCancelled: where the worker goes when the flag is not set. *)
Unless ==
  [check_load |-> "load", check_prewarm |-> "prewarm",
   check_capture |-> "capture", check_poll |-> "poll",
   check_publish |-> "publish"]

(* Mutant: a cancelled load stops polling but not its loop. *)
CheckCancelledSkipsPoll(l) ==
  /\ pc[l] \in DOMAIN Unless
  /\ \/ /\ cancellation[l] /\ pc[l] # "check_poll"
        /\ Finish(l, MarkCancelled(state[l]))
     \/ /\ cancellation[l] /\ pc[l] = "check_poll"
        /\ Goto(l, "capture")
        /\ UNCHANGED <<state, stored>>
     \/ ~cancellation[l] /\ Goto(l, Unless[pc[l]]) /\ UNCHANGED <<state, stored>>
  /\ UNCHANGED <<api, artifact, directory, broker, catchUp>>

CheckCancelled(l) ==
  /\ pc[l] \in DOMAIN Unless
  /\ \/ cancellation[l] /\ Finish(l, MarkCancelled(state[l]))
     \/ ~cancellation[l] /\ Goto(l, Unless[pc[l]]) /\ UNCHANGED <<state, stored>>
  /\ UNCHANGED <<api, artifact, directory, broker, catchUp>>

(* One iteration of the load loop.  The progress section is read with      *)
(* shard 0.                                                                *)
LoadShard(l) ==
  LET s == [state[l] EXCEPT
              !.loaded = @ + 1,
              !.source_progress = IF state[l].loaded = 0
                                    THEN BuildSafeProgress(artifact[l]) ELSE @]
  IN
  /\ pc[l] = "load"
  /\ StoreState(l, s)
  /\ Goto(l, IF s.loaded < ShardCount THEN "check_load" ELSE "check_prewarm")
  /\ UNCHANGED <<api, artifact, directory, broker, catchUp>>

(* One iteration of the prewarm loop.  Without Kafka the worker then       *)
(* forgets the progress section and goes straight to the cutover.          *)
Prewarm(l) ==
  LET s == [state[l] EXCEPT !.prewarmed = @ + 1]
      last == s.prewarmed = ShardCount
  IN
  /\ pc[l] = "prewarm"
  /\ stored' = [stored EXCEPT ![l] = Merged(stored[l], s)]
  /\ state' = [state EXCEPT ![l] =
                 IF last /\ ~UsesKafkaRealtime
                   THEN [s EXCEPT !.source_progress = NoProgress] ELSE s]
  /\ Goto(l, IF ~last THEN "check_prewarm"
             ELSE IF UsesKafkaRealtime THEN "start_catch_up"
             ELSE "check_publish")
  /\ UNCHANGED <<api, artifact, directory, broker, catchUp>>

(* LoadShard, Prewarm, CreateCatchUpRunner, Runner::Start and              *)
(* CaptureSafeProgress may return an error.                                *)
WorkFails(l) ==
  /\ pc[l] \in {"load", "prewarm", "start_catch_up", "capture"}
  /\ Fail(l)
  /\ UNCHANGED <<api, artifact, directory, broker, catchUp>>

-----------------------------------------------------------------------------
(* Catch-up.  The group of the options is shared by all loads. *)

CatchingUp(l) == pc[l] \in {"check_capture", "capture", "check_poll", "poll", "commit"}

NextOffset(p) == IF committed[p] >= 0 THEN committed[p] ELSE 0

(* Create subscribes, Start seeks to the artifact's checkpoint.  A seek    *)
(* moves the partitions that are assigned by then; an error of a single    *)
(* partition is not reported.                                              *)
StartCatchUp(l, assigned) ==
  /\ pc[l] = "start_catch_up"
  /\ owner' = [p \in Partitions |-> IF p \in assigned THEN l ELSE owner[p]]
  /\ position' = [position EXCEPT ![l] =
       [p \in Partitions |->
          IF p \in assigned THEN artifact[l][p].checkpoint_next_offset ELSE 0]]
  /\ Goto(l, "check_capture")
  /\ UNCHANGED <<api, stored, artifact, state, directory, high_watermark,
                 committed, batch, realtime>>

(* Broker: an unowned partition is assigned to a member of the group,      *)
(* which starts at the committed offset, or at the earliest one.           *)
Rebalance(l, p) ==
  /\ CatchingUp(l)
  /\ owner[p] = NoLoad
  /\ owner' = [owner EXCEPT ![p] = l]
  /\ position' = [position EXCEPT ![l][p] = NextOffset(p)]
  /\ UNCHANGED <<api, stored, pc, artifact, state, directory, high_watermark,
                 committed, batch, realtime>>

(* KafkaUpdateConsumer::Progress: the assigned partitions only. *)
Progress(l) ==
  [p \in {q \in Partitions : owner[q] = l} |->
     [committed_next_offset |-> NextOffset(p),
      high_watermark |-> high_watermark[p]]]

(* CaptureSafeProgress and UpdateObservedSafeProgress, before and in the   *)
(* catch-up loop, and the loop's condition.                                *)
CaptureSafeProgress(l) ==
  LET target == state[l].source_progress
      s == [state[l] EXCEPT !.source_progress =
              UpdateObservedSafeProgress(target, Progress(l))]
  IN
  /\ pc[l] = "capture"
  /\ \/ ~CoversTarget(target, Progress(l)) /\ Fail(l)
     \/ /\ CoversTarget(target, Progress(l))
        /\ StoreState(l, s)
        /\ Goto(l, IF CatchUpRequired(s.source_progress) THEN "check_poll"
                   ELSE "check_publish")
  /\ UNCHANGED <<api, artifact, directory, broker, catchUp>>

(* Batches a poll may return: any number of messages of the assigned       *)
(* partitions, in offset order within each.                                *)
Polls(l) ==
  {next \in [Partitions -> 0 .. MaxOffset] :
     \A p \in Partitions :
       /\ next[p] >= position[l][p]
       /\ next[p] > position[l][p] =>
            owner[p] = l /\ next[p] <= high_watermark[p]}

Messages(from, to) ==
  UNION {{<<p, o>> : o \in from[p] .. to[p] - 1} : p \in Partitions}

(* PollApplyCommitOnce up to the commit.  The runner looks at the flag     *)
(* itself.  An empty batch is not committed.                               *)
PollAndApply(l, next) ==
  /\ pc[l] = "poll"
  /\ ~cancellation[l]
  /\ position' = [position EXCEPT ![l] = next]
  /\ batch' = [batch EXCEPT ![l] = BuildCommitCheckpoint(position[l], next)]
  /\ realtime' = [realtime EXCEPT ![l] = @ \cup Messages(position[l], next)]
  /\ Goto(l, IF next = position[l] THEN "capture" ELSE "commit")
  /\ UNCHANGED <<api, stored, artifact, state, directory, broker>>

MarkPollError(l) ==
  Finish(l, IF cancellation[l] THEN MarkCancelled(state[l])
            ELSE MarkFailed(state[l]))

(* The poll or its validation fails, or ApplyBatch stops at a message; the *)
(* messages before it are in the realtime shards and are not committed.    *)
PollOrApplyFails(l, applied) ==
  /\ pc[l] = "poll"
  /\ cancellation[l] => applied = position[l]
  /\ realtime' = [realtime EXCEPT ![l] = @ \cup Messages(position[l], applied)]
  /\ MarkPollError(l)
  /\ UNCHANGED <<api, artifact, directory, broker, position, batch>>

(* The broker refuses the commit of a consumer that lost the partition. *)
Commit(l) ==
  /\ pc[l] = "commit"
  /\ \A p \in DOMAIN batch[l] : owner[p] = l
  /\ committed' = [p \in Partitions |->
       IF p \in DOMAIN batch[l] THEN batch[l][p] ELSE committed[p]]
  /\ batch' = [batch EXCEPT ![l] = NoProgress]
  /\ Goto(l, "capture")
  /\ UNCHANGED <<api, stored, artifact, state, directory, high_watermark,
                 owner, position, realtime>>

CommitFails(l) ==
  /\ pc[l] = "commit"
  /\ batch' = [batch EXCEPT ![l] = NoProgress]
  /\ MarkPollError(l)
  /\ UNCHANGED <<api, artifact, directory, broker, position, realtime>>

-----------------------------------------------------------------------------
(* Cutover and return *)

(* publish_shard: the directory stores the shard whatever it held. *)
PublishShard(l) ==
  LET s == state[l].cutover IN
  /\ pc[l] = "publish"
  /\ shards' = [shards EXCEPT ![s] = l]
  /\ published' = [published EXCEPT ![l] = @ \cup {s}]
  /\ late' = [late EXCEPT ![l] = IF cancellation[l] THEN @ \cup {s} ELSE @]
  /\ Goto(l, "store_cutover")
  /\ UNCHANGED <<api, stored, artifact, state, UsesKafkaRealtime, broker, catchUp>>

(* Mutant: the shard is counted before the status is looked at. *)
PublishRefusedCounts(l) ==
  /\ pc[l] = "publish"
  /\ Finish(l, MarkFailed([state[l] EXCEPT !.cutover = @ + 1]))
  /\ UNCHANGED <<api, artifact, directory, broker, catchUp>>

(* publish_shard returns an error, with or without Kafka: the load fails   *)
(* and the shards before this one stay on the new generation.  The         *)
(* directory of ForwardIndex refuses only a shard id that is too large or  *)
(* a null shard; another owner of the callback may refuse anything.        *)
PublishRefused(l) ==
  /\ pc[l] = "publish"
  /\ Fail(l)
  /\ UNCHANGED <<api, artifact, directory, broker, catchUp>>

(* Mutant: the worker does not store its progress after a shard. *)
StoreCutoverLocally(l) ==
  LET s == [state[l] EXCEPT !.cutover = @ + 1] IN
  /\ pc[l] = "store_cutover"
  /\ state' = [state EXCEPT ![l] = s]
  /\ Goto(l, IF s.cutover < ShardCount THEN "check_publish" ELSE "succeed")
  /\ UNCHANGED <<api, stored, artifact, directory, broker, catchUp>>

(* Mutant: one shard too many. *)
StoreCutoverPastEnd(l) ==
  LET s == [state[l] EXCEPT !.cutover = @ + 1] IN
  /\ pc[l] = "store_cutover"
  /\ StoreState(l, s)
  /\ Goto(l, IF s.cutover <= ShardCount THEN "check_publish" ELSE "succeed")
  /\ UNCHANGED <<api, artifact, directory, broker, catchUp>>

StoreCutover(l) ==
  LET s == [state[l] EXCEPT !.cutover = @ + 1] IN
  /\ pc[l] = "store_cutover"
  /\ StoreState(l, s)
  /\ Goto(l, IF s.cutover < ShardCount THEN "check_publish" ELSE "succeed")
  /\ UNCHANGED <<api, artifact, directory, broker, catchUp>>

Succeed(l) ==
  /\ pc[l] = "succeed"
  /\ Finish(l, [state[l] EXCEPT !.code = "kSucceeded", !.terminal = TRUE])
  /\ UNCHANGED <<api, artifact, directory, broker, catchUp>>

(* The runner and its consumer are destroyed, then the flag is erased. *)
WorkerReturns(l) ==
  /\ pc[l] = "return"
  /\ registered' = registered \ {l}
  /\ owner' = [p \in Partitions |-> IF owner[p] = l THEN NoLoad ELSE owner[p]]
  /\ Goto(l, "done")
  /\ UNCHANGED <<next_load_id, cancellation, lifetime, stored, artifact, state,
                 directory, high_watermark, committed, catchUp>>

-----------------------------------------------------------------------------

(* Other programs append to the log. *)
Produce(p) ==
  /\ high_watermark[p] < MaxOffset
  /\ high_watermark' = [high_watermark EXCEPT ![p] = @ + 1]
  /\ UNCHANGED <<api, stored, pc, artifact, state, directory, committed, owner,
                 catchUp>>

Worker(l) ==
  \/ Start(l) \/ CheckCancelled(l) \/ LoadShard(l) \/ Prewarm(l) \/ WorkFails(l)
  \/ \E assigned \in SUBSET Partitions : StartCatchUp(l, assigned)
  \/ CaptureSafeProgress(l)
  \/ \E next \in Polls(l) : PollAndApply(l, next) \/ PollOrApplyFails(l, next)
  \/ Commit(l) \/ CommitFails(l)
  \/ PublishShard(l) \/ PublishRefused(l) \/ StoreCutover(l)
  \/ Succeed(l) \/ WorkerReturns(l)

Client ==
  \/ LoadAsyncRejected
  \/ \E a \in Artifacts : LoadAsync(a)
  \/ \E l \in Loads : CancelLoad(l)
  \/ Destroy \/ Join

Broker ==
  \/ \E p \in Partitions : Produce(p)
  \/ \E l \in Loads, p \in Partitions : Rebalance(l, p)

Next == Client \/ Broker \/ \E l \in Loads : Worker(l)

Spec == Init /\ [][Next]_vars

(* Worker threads run, a poll that can return messages again and again     *)
(* does so once, and the destructor's join returns when it can.            *)
Fairness ==
  /\ WF_vars(Join)
  /\ \A l \in Loads :
       /\ WF_vars(Worker(l))
       /\ SF_vars(\E next \in Polls(l) \ {position[l]} : PollAndApply(l, next))

FairSpec == Spec /\ Fairness

-----------------------------------------------------------------------------
(* Properties *)

Labels ==
  {"none", "start", "check_load", "load", "check_prewarm", "prewarm",
   "start_catch_up", "check_capture", "capture", "check_poll", "poll",
   "commit", "check_publish", "publish", "store_cutover", "succeed",
   "return", "done"}

Offsets == 0 .. MaxOffset

ProgressSections ==
  {NoProgress}
    \cup [Partitions -> [committed_next_offset : Offsets, high_watermark : Offsets]]

LoadStates ==
  [code : {"kUnknown", "kRunning", "kSucceeded", "kFailed", "kCancelled"},
   terminal : BOOLEAN, loaded : 0 .. ShardCount, prewarmed : 0 .. ShardCount,
   cutover : 0 .. ShardCount, source_progress : ProgressSections]

(* Types.  No loop runs past the last shard, and offsets stay in the log. *)
TypeOK ==
  /\ next_load_id \in 1 .. MaxLoads + 1
  /\ stored \in [Loads -> LoadStates]
  /\ registered \subseteq Loads
  /\ cancellation \in [Loads -> BOOLEAN]
  /\ lifetime \in {"live", "destroying", "destroyed"}
  /\ pc \in [Loads -> Labels]
  /\ artifact \in [Loads -> Artifacts \cup {NoProgress}]
  /\ state \in [Loads -> LoadStates]
  /\ UsesKafkaRealtime \in KafkaModes
  /\ shards \in [Shards -> Loads \cup {NoLoad}]
  /\ high_watermark \in [Partitions -> Offsets]
  /\ committed \in [Partitions -> Offsets \cup {NoOffset}]
  /\ owner \in [Partitions -> Loads \cup {NoLoad}]
  /\ position \in [Loads -> [Partitions -> Offsets]]
  /\ batch \in [Loads -> UNION {[P -> Offsets] : P \in SUBSET Partitions}]
  /\ realtime \in [Loads -> SUBSET (Partitions \X Offsets)]
  /\ published \in [Loads -> SUBSET Shards]
  /\ late \in [Loads -> SUBSET Shards]

(* What a client was told is final: a load that GetLoadState showed as     *)
(* terminal keeps that code, although its worker may still be running and  *)
(* storing states of its own.                                              *)
TerminalCodeIsFinal ==
  [][\A l \in Loads :
       stored[l].terminal /\ stored[l].code # "kUnknown" =>
         stored'[l].terminal /\ stored'[l].code = stored[l].code]_vars

Report(t) ==
  [code |-> t.code, terminal |-> t.terminal, loaded |-> t.loaded,
   prewarmed |-> t.prewarmed, cutover |-> t.cutover]

ReportView == [l \in Loads |-> Report(stored[l])]

Reports == INSTANCE LoadReports WITH entries <- ReportView

(* The load table and the shard directory together behave as clients are   *)
(* told: whatever CancelLoad, ~ForwardIndex, failures and the steps of     *)
(* other loads do to a worker, GetLoadState shows the life of the load in  *)
(* order and with one outcome, no shard is replaced out of order, and a    *)
(* load that fails has not replaced all of them and reports which.         *)
ImplementsLoadReports == Reports!Spec

(* Cancellation is honoured at the next shard: once the flag is set a load *)
(* cuts over at most the one shard it had already decided to publish.  The *)
(* documents ask for none (W06-artifact-async-load.md:78).                 *)
CancelIsPrompt == \A l \in Loads : Cardinality(late[l]) <= 1

(* The cutover progress in the load table never claims a shard that was    *)
(* not published and lags by at most the shard being published.            *)
CutoverIsReported ==
  \A l \in Loads :
    \E n \in {stored[l].cutover, stored[l].cutover + 1} :
      published[l] = 0 .. n - 1

(* When a worker has returned its entry is terminal, the shards it reports *)
(* are exactly the ones it cut over, and success means all of them.        *)
ReturnedLoadIsSettled ==
  \A l \in Loads : pc[l] \in {"return", "done"} =>
    /\ stored[l].terminal
    /\ published[l] = 0 .. stored[l].cutover - 1
    /\ stored[l].code = "kSucceeded" => published[l] = Shards

(* A serving shard is replaced only when all shards are loaded and         *)
(* prewarmed.  A load that fails after that, on a refused publish, has     *)
(* left the first shards on the new generation and the others, at least    *)
(* one, on the old: its entry tells how many, also when a client was told  *)
(* kCancelled in between.                                                  *)
PartialCutoverIsReported ==
  \A l \in Loads :
    /\ published[l] # {} =>
         state[l].loaded = ShardCount /\ state[l].prewarmed = ShardCount
    /\ state[l].code = "kFailed" =>
         /\ published[l] = 0 .. stored[l].cutover - 1
         /\ published[l] # Shards

(* A load that has cut over has replayed the log from its artifact's       *)
(* checkpoint up to the safe position it reports.                          *)
CutoverCoversLog ==
  \A l \in Loads : published[l] # {} /\ UsesKafkaRealtime =>
    \A p \in Partitions :
      \A o \in artifact[l][p].checkpoint_next_offset
               .. state[l].source_progress[p].high_watermark - 1 :
        <<p, o>> \in realtime[l]

(* Offsets are committed only for messages that were applied: what the     *)
(* group will skip after a restart is in the realtime shards of the load   *)
(* that owns the partition.                                                *)
CommittedIsApplied ==
  \A l \in Loads, p \in Partitions : owner[p] = l =>
    \A o \in artifact[l][p].checkpoint_next_offset .. committed[p] - 1 :
      <<p, o>> \in realtime[l]

(* The destructor returns: every worker notices its flag, also one that    *)
(* waits for messages that never come.                                     *)
DestructorReturns == lifetime = "destroying" ~> lifetime = "destroyed"

(* A cancelled load releases its thread and its consumer. *)
CancelledLoadReturns == \A l \in Loads : cancellation[l] ~> pc[l] = "done"

(* Every load becomes terminal, cancelled or not. *)
LoadsEnd == \A l \in Loads : pc[l] = "start" ~> pc[l] = "done"

=============================================================================
