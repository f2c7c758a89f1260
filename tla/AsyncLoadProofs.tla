--------------------------- MODULE AsyncLoadProofs ---------------------------
(***************************************************************************)
(* Proofs about external artifact loads, for every number of loads, shards *)
(* and partitions, every log and every set of artifacts.                   *)
(***************************************************************************)
EXTENDS AsyncLoad, FiniteSetTheorems, TLAPS

-----------------------------------------------------------------------------
(* The inductive invariant. *)

Ended == {"return", "done"}

Cutover == {"check_publish", "publish", "store_cutover", "succeed"}

CatchUp == {"start_catch_up", "check_capture", "capture", "check_poll", "poll", "commit"}

(* A worker counts the shards of its three loops, one after the other. *)
CountersFollowPc(l) ==
  LET s == state[l] IN
  /\ pc[l] \in {"check_load", "load"} => s.loaded < ShardCount /\ s.prewarmed = 0
  /\ pc[l] \in {"check_prewarm", "prewarm"} =>
       s.loaded = ShardCount /\ s.prewarmed < ShardCount
  /\ pc[l] \in CatchUp \cup Cutover => s.loaded = ShardCount /\ s.prewarmed = ShardCount
  /\ pc[l] \notin Cutover \cup Ended => s.cutover = 0
  /\ pc[l] \in {"check_publish", "publish", "store_cutover"} => s.cutover < ShardCount
  /\ pc[l] = "succeed" => s.cutover = ShardCount
  /\ s.cutover # 0 => s.loaded = ShardCount /\ s.prewarmed = ShardCount

(* What the worker's own state says. *)
CodeFollowsPc(l) ==
  LET s == state[l] IN
  /\ pc[l] \notin {"none", "start"} \cup Ended => s.code = "kRunning" /\ ~s.terminal
  /\ s.code = "kSucceeded" => s.cutover = ShardCount
  /\ s.code = "kFailed" => s.cutover < ShardCount

(* What clients are told: the worker's state, or that it was cancelled. *)
StoredFollowsState(l) ==
  LET t == stored[l] IN
  /\ t.cutover = state[l].cutover
  /\ pc[l] = "none" => t.code = "kUnknown" /\ t.terminal
  /\ pc[l] \notin {"none"} \cup Ended =>
       \/ t.code = "kRunning" /\ ~t.terminal
       \/ t.code = "kCancelled" /\ t.terminal
  /\ pc[l] \in Ended => t.terminal
  /\ t.code = "kSucceeded" => pc[l] \in Ended /\ t.cutover = ShardCount

(* Shards are published in order, each before it is counted. *)
PublishedInOrder(l) ==
  published[l] = IF pc[l] = "store_cutover" THEN 0 .. state[l].cutover
                 ELSE 0 .. state[l].cutover - 1

(* After a shard that was published late the flag is looked at. *)
LateIsTheLast(l) ==
  late[l] # {} =>
    /\ cancellation[l]
    /\ pc[l] \in {"store_cutover", "check_publish", "succeed"} \cup Ended
    /\ \E s \in Shards : late[l] = {s}

(* A worker has the artifact it was started with; loads get their ids in   *)
(* order.                                                                  *)
Begun(l) ==
  /\ pc[l] \notin {"none", "done"} => artifact[l] \in Artifacts
  /\ l >= next_load_id => pc[l] = "none"

LoadOK(l) ==
  /\ CountersFollowPc(l)
  /\ CodeFollowsPc(l)
  /\ StoredFollowsState(l)
  /\ PublishedInOrder(l)
  /\ LateIsTheLast(l)
  /\ Begun(l)

LoadInv == TypeOK /\ \A l \in Loads : LoadOK(l)

-----------------------------------------------------------------------------
(* Types of the values that the steps compute. *)

LEMMA StateTypes ==
  /\ NewState \in LoadStates /\ UnknownState \in LoadStates
  /\ \A s \in LoadStates : /\ MarkFailed(s) \in LoadStates
                           /\ MarkCancelled(s) \in LoadStates
  /\ \A s, t \in LoadStates : Merged(s, t) \in LoadStates
<1>1. NewState \in LoadStates
  BY LoadAssumption DEF NewState, LoadStates, ProgressSections
<1>2. UnknownState \in LoadStates
  BY <1>1 DEF UnknownState, LoadStates
<1>3. \A s \in LoadStates : MarkFailed(s) \in LoadStates /\ MarkCancelled(s) \in LoadStates
  BY DEF MarkFailed, MarkCancelled, LoadStates
<1>4. \A s, t \in LoadStates : Merged(s, t) \in LoadStates
  BY <1>3 DEF Merged
<1>5. QED
  BY <1>1, <1>2, <1>3, <1>4

(* Counters of a marked or merged state. *)
LEMMA MarkedFields ==
  ASSUME NEW s \in LoadStates
  PROVE  /\ MarkFailed(s).code = "kFailed" /\ MarkCancelled(s).code = "kCancelled"
         /\ \A m \in {MarkFailed(s), MarkCancelled(s)} :
              /\ m.terminal
              /\ m.loaded = s.loaded /\ m.prewarmed = s.prewarmed /\ m.cutover = s.cutover
              /\ m.source_progress = s.source_progress
BY DEF MarkFailed, MarkCancelled, LoadStates

LEMMA MergedFields ==
  ASSUME NEW s \in LoadStates, NEW t \in LoadStates
  PROVE  /\ Merged(s, t).cutover = t.cutover
         /\ s.code = "kCancelled" /\ s.terminal /\ t.code # "kCancelled" =>
              Merged(s, t).code = "kCancelled" /\ Merged(s, t).terminal
         /\ ~(s.code = "kCancelled" /\ s.terminal /\ t.code # "kCancelled") =>
              Merged(s, t) = t
BY MarkedFields DEF Merged

LEMMA InitLoadInv == Init => LoadInv
<1> SUFFICES ASSUME Init PROVE LoadInv
  OBVIOUS
<1>1. TypeOK
  <2>1. /\ stored \in [Loads -> LoadStates] /\ state \in [Loads -> LoadStates]
        /\ pc \in [Loads -> Labels]
    BY StateTypes DEF Init, Labels
  <2>2. /\ next_load_id \in 1 .. MaxLoads + 1
        /\ registered \subseteq Loads /\ cancellation \in [Loads -> BOOLEAN]
        /\ lifetime \in {"live", "destroying", "destroyed"}
        /\ artifact \in [Loads -> Artifacts \cup {NoProgress}]
        /\ UsesKafkaRealtime \in KafkaModes
        /\ shards \in [Shards -> Loads \cup {NoLoad}]
    BY LoadAssumption DEF Init
  <2>3. /\ high_watermark \in [Partitions -> Offsets]
        /\ committed \in [Partitions -> Offsets \cup {NoOffset}]
        /\ owner \in [Partitions -> Loads \cup {NoLoad}]
        /\ position \in [Loads -> [Partitions -> Offsets]]
    BY LoadAssumption DEF Init, Offsets, Nowhere, NoOffset
  <2>4. /\ batch \in [Loads -> UNION {[P -> Offsets] : P \in SUBSET Partitions}]
        /\ realtime \in [Loads -> SUBSET (Partitions \X Offsets)]
        /\ published \in [Loads -> SUBSET Shards] /\ late \in [Loads -> SUBSET Shards]
    <3>1. NoProgress \in [{} -> Offsets]
      BY DEF NoProgress
    <3>2. NoProgress \in UNION {[P -> Offsets] : P \in SUBSET Partitions}
      BY <3>1
    <3>3. QED
      BY <3>2 DEF Init
  <2>5. QED
    BY <2>1, <2>2, <2>3, <2>4 DEF TypeOK
<1>2. ASSUME NEW l \in Loads PROVE LoadOK(l)
  <2>1. state[l] = UnknownState /\ stored[l] = UnknownState /\ pc[l] = "none"
    BY DEF Init
  <2>2. CountersFollowPc(l) /\ CodeFollowsPc(l) /\ StoredFollowsState(l)
    BY <2>1 DEF CountersFollowPc, CodeFollowsPc, StoredFollowsState, UnknownState,
                NewState, Cutover, CatchUp, Ended
  <2>3. published[l] = {} /\ late[l] = {} /\ state[l].cutover = 0
    BY <2>1 DEF Init, UnknownState, NewState
  <2>4. PublishedInOrder(l) /\ LateIsTheLast(l) /\ Begun(l)
    BY <2>1, <2>3 DEF PublishedInOrder, LateIsTheLast, Begun
  <2>5. QED
    BY <2>2, <2>4 DEF LoadOK
<1>3. QED
  BY <1>1, <1>2 DEF LoadInv

-----------------------------------------------------------------------------
(* Steps of one worker. *)

(* A load whose entries a step leaves alone. *)
LEMMA OtherLoadKept ==
  ASSUME LoadInv, NEW u \in Loads,
         pc'[u] = pc[u], state'[u] = state[u], stored'[u] = stored[u],
         published'[u] = published[u], late'[u] = late[u],
         cancellation[u] => cancellation'[u], artifact'[u] = artifact[u],
         next_load_id' \in Nat, next_load_id' >= next_load_id
  PROVE  LoadOK(u)'
<1>1. LoadOK(u) /\ next_load_id \in Nat /\ u \in Nat
  BY LoadAssumption DEF LoadInv, TypeOK, Loads
<1>2. CountersFollowPc(u)' /\ CodeFollowsPc(u)' /\ StoredFollowsState(u)'
  BY <1>1 DEF LoadOK, CountersFollowPc, CodeFollowsPc, StoredFollowsState
<1>3. PublishedInOrder(u)' /\ LateIsTheLast(u)' /\ Begun(u)'
  BY <1>1 DEF LoadOK, PublishedInOrder, LateIsTheLast, Begun
<1>4. QED
  BY <1>2, <1>3 DEF LoadOK

(* A step that leaves the loads alone. *)
LEMMA AllLoadsKept ==
  ASSUME LoadInv, UNCHANGED <<api, stored, pc, artifact, state, directory>>
  PROVE  \A u \in Loads : LoadOK(u)'
<1>1. /\ pc' = pc /\ state' = state /\ stored' = stored /\ published' = published
      /\ late' = late /\ cancellation' = cancellation /\ artifact' = artifact
      /\ next_load_id' = next_load_id
  BY DEF api, directory
<1>2. next_load_id \in Nat
  BY LoadAssumption DEF LoadInv, TypeOK
<1>3. TAKE u \in Loads
<1>4. QED
  BY <1>1, <1>2, OtherLoadKept

(* A worker stores a state and goes on. *)
LEMMA StoreAndGoto ==
  ASSUME LoadInv, NEW l \in Loads, NEW s \in LoadStates, NEW label \in Labels,
         StoreState(l, s), Goto(l, label),
         UNCHANGED <<api, artifact, directory>>
  PROVE  /\ state' \in [Loads -> LoadStates] /\ stored' \in [Loads -> LoadStates]
         /\ pc' \in [Loads -> Labels]
         /\ state'[l] = s /\ stored'[l] = Merged(stored[l], s) /\ pc'[l] = label
         /\ \A u \in Loads \ {l} : LoadOK(u)'
<1>1. /\ state \in [Loads -> LoadStates] /\ stored \in [Loads -> LoadStates]
      /\ pc \in [Loads -> Labels]
  BY DEF LoadInv, TypeOK
<1>2. stored[l] \in LoadStates /\ Merged(stored[l], s) \in LoadStates
  BY <1>1, StateTypes
<1>3. /\ state' = [state EXCEPT ![l] = s] /\ pc' = [pc EXCEPT ![l] = label]
      /\ stored' = [stored EXCEPT ![l] = Merged(stored[l], s)]
  BY DEF StoreState, Goto
<1>4. ASSUME NEW u \in Loads \ {l} PROVE LoadOK(u)'
  <2>1. pc'[u] = pc[u] /\ state'[u] = state[u] /\ stored'[u] = stored[u]
    BY <1>1, <1>3
  <2>2. /\ published'[u] = published[u] /\ late'[u] = late[u]
        /\ cancellation'[u] = cancellation[u] /\ artifact'[u] = artifact[u]
        /\ next_load_id' = next_load_id /\ next_load_id \in Nat
    BY LoadAssumption DEF api, directory, LoadInv, TypeOK
  <2>3. QED
    BY <2>1, <2>2, OtherLoadKept
<1>5. QED
  BY <1>1, <1>2, <1>3, <1>4

(* A step that changes nothing but the worker's state, its entry and its   *)
(* label keeps the types.                                                  *)
LEMMA WorkerTypes ==
  ASSUME LoadInv, UNCHANGED <<api, artifact, directory, broker, catchUp>>,
         state' \in [Loads -> LoadStates], stored' \in [Loads -> LoadStates],
         pc' \in [Loads -> Labels]
  PROVE  TypeOK'
BY DEF LoadInv, TypeOK, api, directory, broker, catchUp

(* A worker that ends early: the shards it has published stay counted.     *)
LEMMA EndEarly ==
  ASSUME LoadInv, NEW l \in Loads, NEW s \in LoadStates,
         pc[l] \notin {"none", "done", "store_cutover"},
         Finish(l, s), s \in {MarkFailed(state[l]), MarkCancelled(state[l])},
         s.code = "kFailed" => state[l].cutover < ShardCount,
         UNCHANGED <<api, artifact, directory>>
  PROVE  /\ state' \in [Loads -> LoadStates] /\ stored' \in [Loads -> LoadStates]
         /\ pc' \in [Loads -> Labels]
         /\ \A u \in Loads : LoadOK(u)'
<1>1. /\ state' \in [Loads -> LoadStates] /\ stored' \in [Loads -> LoadStates]
      /\ pc' \in [Loads -> Labels]
      /\ state'[l] = s /\ stored'[l] = Merged(stored[l], s) /\ pc'[l] = "return"
      /\ \A u \in Loads \ {l} : LoadOK(u)'
  BY StoreAndGoto DEF Finish, Labels
<1>2. /\ LoadOK(l) /\ stored[l] \in LoadStates /\ state[l] \in LoadStates
      /\ l \in Nat /\ next_load_id \in Nat
  BY LoadAssumption DEF LoadInv, TypeOK, Loads
<1>3. /\ s.code \in {"kFailed", "kCancelled"} /\ s.terminal
      /\ s.loaded = state[l].loaded /\ s.prewarmed = state[l].prewarmed
      /\ s.cutover = state[l].cutover
  BY <1>2, MarkedFields
<1>4. /\ stored'[l].cutover = s.cutover /\ stored'[l].terminal
      /\ stored'[l].code \in {"kFailed", "kCancelled"}
  BY <1>1, <1>2, <1>3, MergedFields
<1>5. CountersFollowPc(l)' /\ CodeFollowsPc(l)' /\ StoredFollowsState(l)'
  BY <1>1, <1>2, <1>3, <1>4 DEF LoadOK, CountersFollowPc, CodeFollowsPc,
     StoredFollowsState, Ended, Cutover, CatchUp
<1>6. /\ published'[l] = published[l] /\ late'[l] = late[l]
      /\ cancellation'[l] = cancellation[l] /\ artifact'[l] = artifact[l]
      /\ next_load_id' = next_load_id
  BY DEF api, directory
<1>7. PublishedInOrder(l)' /\ LateIsTheLast(l)' /\ Begun(l)'
  BY <1>1, <1>2, <1>3, <1>6 DEF LoadOK, PublishedInOrder, LateIsTheLast, Begun, Ended
<1>8. LoadOK(l)'
  BY <1>5, <1>7 DEF LoadOK
<1>9. QED
  BY <1>1, <1>8

(* A worker that runs on, outside the cutover. *)
LEMMA RunOn ==
  ASSUME LoadInv, NEW l \in Loads, NEW s \in LoadStates, NEW label \in Labels,
         StoreState(l, s), Goto(l, label),
         UNCHANGED <<api, artifact, directory>>,
         pc[l] \notin {"none"} \cup Cutover \cup Ended,
         label \notin {"none", "start", "publish", "store_cutover", "succeed"} \cup Ended,
         s.code = "kRunning", ~s.terminal, s.cutover = 0, late[l] = {},
         CountersFollowPc(l)'
  PROVE  \A u \in Loads : LoadOK(u)'
<1>1. /\ state'[l] = s /\ stored'[l] = Merged(stored[l], s) /\ pc'[l] = label
      /\ \A u \in Loads \ {l} : LoadOK(u)'
  BY StoreAndGoto
<1>2. /\ LoadOK(l) /\ stored[l] \in LoadStates /\ l \in Nat /\ next_load_id \in Nat
  BY LoadAssumption DEF LoadInv, TypeOK, Loads
<1>3. /\ stored'[l].cutover = 0
      /\ \/ stored'[l].code = "kRunning" /\ ~stored'[l].terminal
         \/ stored'[l].code = "kCancelled" /\ stored'[l].terminal
  BY <1>1, <1>2, MergedFields
<1>4. CodeFollowsPc(l)' /\ StoredFollowsState(l)'
  BY <1>1, <1>2, <1>3, LoadAssumption DEF LoadOK, CodeFollowsPc, StoredFollowsState, Ended
<1>5. /\ published'[l] = published[l] /\ late'[l] = late[l]
      /\ cancellation'[l] = cancellation[l] /\ artifact'[l] = artifact[l]
      /\ next_load_id' = next_load_id
  BY DEF api, directory
<1>6. state[l].cutover = 0
  BY <1>2 DEF LoadOK, CountersFollowPc
<1>7. PublishedInOrder(l)' /\ LateIsTheLast(l)' /\ Begun(l)'
  BY <1>1, <1>2, <1>5, <1>6 DEF LoadOK, PublishedInOrder, LateIsTheLast, Begun, Ended, Cutover
<1>8. LoadOK(l)'
  BY <1>4, <1>7 DEF LoadOK
<1>9. QED
  BY <1>1, <1>8

(* A worker that goes on without storing. *)
LEMMA GotoOnly ==
  ASSUME LoadInv, NEW l \in Loads, NEW label \in Labels, Goto(l, label),
         UNCHANGED <<api, stored, artifact, state, directory>>,
         pc[l] \notin {"none", "start", "store_cutover"} \cup Ended,
         label \notin {"none", "start", "store_cutover"} \cup Ended,
         late[l] = {}, CountersFollowPc(l)'
  PROVE  pc' \in [Loads -> Labels] /\ \A u \in Loads : LoadOK(u)'
<1>1. /\ pc' \in [Loads -> Labels] /\ pc'[l] = label
      /\ \A u \in Loads \ {l} : pc'[u] = pc[u]
  BY DEF LoadInv, TypeOK, Goto
<1>2. /\ \A u \in Loads : LoadOK(u) /\ u \in Nat
      /\ next_load_id \in Nat
  BY LoadAssumption DEF LoadInv, TypeOK, Loads
<1>3. /\ published' = published /\ late' = late /\ cancellation' = cancellation
      /\ artifact' = artifact /\ next_load_id' = next_load_id
      /\ state' = state /\ stored' = stored
  BY DEF api, directory
<1>4. ASSUME NEW u \in Loads \ {l} PROVE LoadOK(u)'
  BY <1>1, <1>2, <1>3, OtherLoadKept
<1>5. CodeFollowsPc(l)' /\ StoredFollowsState(l)'
  BY <1>1, <1>2, <1>3 DEF LoadOK, CodeFollowsPc, StoredFollowsState, Ended
<1>6. PublishedInOrder(l)' /\ LateIsTheLast(l)' /\ Begun(l)'
  BY <1>1, <1>2, <1>3 DEF LoadOK, PublishedInOrder, LateIsTheLast, Begun, Ended
<1>7. QED
  BY <1>1, <1>4, <1>5, <1>6 DEF LoadOK

(* No shard was published late before the cutover. *)
LEMMA NotYetLate ==
  ASSUME LoadInv, NEW l \in Loads,
         \/ pc[l] \notin {"store_cutover", "check_publish", "succeed"} \cup Ended
         \/ ~cancellation[l]
  PROVE  late[l] = {}
BY DEF LoadInv, LoadOK, LateIsTheLast

LEMMA StartKeeps == ASSUME LoadInv, NEW l \in Loads, Start(l) PROVE LoadInv'
<1>1. NewState \in LoadStates /\ "check_load" \in Labels
  BY StateTypes DEF Labels
<1>2. UNCHANGED <<api, artifact, directory>>
  BY DEF Start
<1>3. /\ state' \in [Loads -> LoadStates] /\ stored' \in [Loads -> LoadStates]
      /\ pc' \in [Loads -> Labels] /\ state'[l] = NewState /\ pc'[l] = "check_load"
  BY <1>1, <1>2, StoreAndGoto DEF Start
<1>4. CountersFollowPc(l)'
  BY <1>3, LoadAssumption DEF CountersFollowPc, NewState, CatchUp, Cutover, Ended
<1>5. late[l] = {}
  BY NotYetLate DEF Start, Ended
<1>6. /\ pc[l] \notin {"none"} \cup Cutover \cup Ended
      /\ "check_load" \notin {"none", "start", "publish", "store_cutover", "succeed"} \cup Ended
  BY DEF Start, Cutover, Ended
<1>7. NewState.code = "kRunning" /\ ~NewState.terminal /\ NewState.cutover = 0
  BY DEF NewState
<1>8. \A u \in Loads : LoadOK(u)'
  BY <1>1, <1>2, <1>4, <1>5, <1>6, <1>7, RunOn DEF Start
<1>9. QED
  BY <1>3, <1>8, WorkerTypes DEF Start, LoadInv

LEMMA CheckCancelledKeeps ==
  ASSUME LoadInv, NEW l \in Loads, CheckCancelled(l) PROVE LoadInv'
<1>1. /\ pc[l] \in {"check_load", "check_prewarm", "check_capture", "check_poll",
                    "check_publish"}
      /\ UNCHANGED <<api, artifact, directory, broker, catchUp>>
  BY DEF CheckCancelled, Unless
<1>2. state[l] \in LoadStates /\ LoadOK(l)
  BY DEF LoadInv, TypeOK
<1>3. CASE cancellation[l] /\ Finish(l, MarkCancelled(state[l]))
  <2>1. /\ MarkCancelled(state[l]) \in LoadStates
        /\ MarkCancelled(state[l]).code = "kCancelled"
    BY <1>2, StateTypes, MarkedFields
  <2>2. /\ state' \in [Loads -> LoadStates] /\ stored' \in [Loads -> LoadStates]
        /\ pc' \in [Loads -> Labels] /\ \A u \in Loads : LoadOK(u)'
    BY <1>1, <1>3, <2>1, EndEarly
  <2>3. QED
    BY <1>1, <2>2, WorkerTypes DEF LoadInv
<1>4. CASE ~cancellation[l] /\ Goto(l, Unless[pc[l]]) /\ UNCHANGED <<state, stored>>
  <2>1. PICK label : label = Unless[pc[l]]
    OBVIOUS
  <2>2. label \in {"load", "prewarm", "capture", "poll", "publish"}
    BY <1>1, <2>1 DEF Unless
  <2>3. label \in Labels
    BY <2>2 DEF Labels
  <2>4. pc'[l] = label
    BY <1>4, <2>1 DEF Goto, LoadInv, TypeOK
  <2>5. CountersFollowPc(l)'
    <3>1. state' = state
      BY <1>4
    <3>2. /\ pc[l] = "check_load" => label = "load"
          /\ pc[l] = "check_prewarm" => label = "prewarm"
          /\ pc[l] = "check_capture" => label = "capture"
          /\ pc[l] = "check_poll" => label = "poll"
          /\ pc[l] = "check_publish" => label = "publish"
      BY <2>1 DEF Unless
    <3>3. QED
      BY <1>1, <1>2, <2>4, <3>1, <3>2
         DEF LoadOK, CountersFollowPc, CatchUp, Cutover, Ended
  <2>6. late[l] = {}
    BY <1>4, NotYetLate
  <2>7. pc' \in [Loads -> Labels] /\ \A u \in Loads : LoadOK(u)'
    BY <1>1, <1>4, <2>1, <2>2, <2>3, <2>5, <2>6, GotoOnly DEF Ended
  <2>8. QED
    BY <1>1, <1>4, <2>7, WorkerTypes DEF LoadInv, TypeOK
<1>5. QED
  BY <1>3, <1>4 DEF CheckCancelled

(* The progress section of an artifact as the worker keeps it. *)
LEMMA SafeProgressType ==
  ASSUME NEW a \in Artifacts
  PROVE  BuildSafeProgress(a) \in
           [Partitions -> [committed_next_offset : Offsets, high_watermark : Offsets]]
<1>1. a \in [Partitions -> [checkpoint_next_offset : Offsets, high_watermark : Offsets]]
  BY LoadAssumption DEF Offsets
<1>2. QED
  BY <1>1 DEF BuildSafeProgress

LEMMA LoadShardKeeps ==
  ASSUME LoadInv, NEW l \in Loads, LoadShard(l) PROVE LoadInv'
<1> DEFINE s == [state[l] EXCEPT
                   !.loaded = @ + 1,
                   !.source_progress = IF state[l].loaded = 0
                                         THEN BuildSafeProgress(artifact[l]) ELSE @]
           label == IF s.loaded < ShardCount THEN "check_load" ELSE "check_prewarm"
<1>1. /\ pc[l] = "load" /\ StoreState(l, s) /\ Goto(l, label)
      /\ UNCHANGED <<api, artifact, directory, broker, catchUp>>
  BY DEF LoadShard
<1>2. /\ state[l] \in LoadStates /\ LoadOK(l) /\ ShardCount \in Nat
      /\ artifact[l] \in Artifacts
  BY <1>1, LoadAssumption DEF LoadInv, TypeOK, LoadOK, Begun
<1>3. /\ state[l].loaded < ShardCount /\ state[l].prewarmed = 0 /\ state[l].cutover = 0
      /\ state[l].code = "kRunning" /\ ~state[l].terminal /\ state[l].loaded \in Nat
  BY <1>1, <1>2 DEF LoadOK, CountersFollowPc, CodeFollowsPc, Cutover, Ended, LoadStates
<1>4. /\ s.loaded = state[l].loaded + 1 /\ s.prewarmed = 0 /\ s.cutover = 0
      /\ s.code = "kRunning" /\ ~s.terminal
  BY <1>2, <1>3 DEF LoadStates
<1>5. s \in LoadStates
  <2>1. BuildSafeProgress(artifact[l]) \in ProgressSections
    BY <1>2, SafeProgressType DEF ProgressSections
  <2>2. PICK progress \in ProgressSections :
          progress = IF state[l].loaded = 0 THEN BuildSafeProgress(artifact[l])
                     ELSE state[l].source_progress
    BY <1>2, <2>1 DEF LoadStates
  <2>3. s = [state[l] EXCEPT !.loaded = @ + 1, !.source_progress = progress]
    BY <2>2
  <2>4. state[l].loaded + 1 \in 0 .. ShardCount
    BY <1>2, <1>3
  <2>5. QED
    BY <1>2, <2>3, <2>4 DEF LoadStates
<1>6. /\ label \in Labels
      /\ \/ label = "check_load" /\ s.loaded < ShardCount
         \/ label = "check_prewarm" /\ s.loaded = ShardCount
  <2> HIDE DEF s
  <2> QED BY <1>2, <1>3, <1>4 DEF Labels
<1> HIDE DEF s, label
<1>7. /\ state' \in [Loads -> LoadStates] /\ stored' \in [Loads -> LoadStates]
      /\ pc' \in [Loads -> Labels] /\ state'[l] = s /\ pc'[l] = label
  BY <1>1, <1>5, <1>6, StoreAndGoto
<1>8. CountersFollowPc(l)'
  <2>1. state'[l].prewarmed = 0 /\ state'[l].cutover = 0 /\ state'[l].loaded = s.loaded
    BY <1>4, <1>7
  <2>2. 0 < ShardCount
    BY LoadAssumption
  <2>3. QED
    BY <1>6, <1>7, <2>1, <2>2 DEF CountersFollowPc, CatchUp, Cutover, Ended
<1>9. late[l] = {}
  BY <1>1, NotYetLate DEF Ended
<1>10. \A u \in Loads : LoadOK(u)'
  BY <1>1, <1>4, <1>5, <1>6, <1>8, <1>9, RunOn DEF Cutover, Ended
<1>11. QED
  BY <1>1, <1>7, <1>10, WorkerTypes DEF LoadInv

LEMMA WorkFailsKeeps ==
  ASSUME LoadInv, NEW l \in Loads, WorkFails(l) \/ PublishRefused(l) PROVE LoadInv'
<1>1. /\ pc[l] \in {"load", "prewarm", "start_catch_up", "capture", "publish"}
      /\ Finish(l, MarkFailed(state[l]))
      /\ UNCHANGED <<api, artifact, directory, broker, catchUp>>
  BY DEF WorkFails, PublishRefused, Fail
<1>2. state[l] \in LoadStates /\ LoadOK(l) /\ MarkFailed(state[l]) \in LoadStates
  BY StateTypes DEF LoadInv, TypeOK
<1>3. state[l].cutover < ShardCount
  BY <1>1, <1>2, LoadAssumption DEF LoadOK, CountersFollowPc, Cutover, Ended
<1>4. /\ state' \in [Loads -> LoadStates] /\ stored' \in [Loads -> LoadStates]
      /\ pc' \in [Loads -> Labels] /\ \A u \in Loads : LoadOK(u)'
  BY <1>1, <1>2, <1>3, EndEarly
<1>5. QED
  BY <1>1, <1>4, WorkerTypes DEF LoadInv

(* What is stored after the last shard was prewarmed still has the         *)
(* progress section that the worker then forgets.                          *)
LEMMA PrewarmKeeps ==
  ASSUME LoadInv, NEW l \in Loads, Prewarm(l) PROVE LoadInv'
<1> DEFINE s == [state[l] EXCEPT !.prewarmed = @ + 1]
           last == s.prewarmed = ShardCount
           t == IF last /\ ~UsesKafkaRealtime
                  THEN [s EXCEPT !.source_progress = NoProgress] ELSE s
           label == IF ~last THEN "check_prewarm"
                    ELSE IF UsesKafkaRealtime THEN "start_catch_up"
                    ELSE "check_publish"
<1>1. /\ pc[l] = "prewarm" /\ pc' = [pc EXCEPT ![l] = label]
      /\ stored' = [stored EXCEPT ![l] = Merged(stored[l], s)]
      /\ state' = [state EXCEPT ![l] = t]
      /\ UNCHANGED <<api, artifact, directory, broker, catchUp>>
  BY DEF Prewarm, Goto
<1>2. /\ state \in [Loads -> LoadStates] /\ stored \in [Loads -> LoadStates]
      /\ pc \in [Loads -> Labels] /\ state[l] \in LoadStates /\ stored[l] \in LoadStates
      /\ LoadOK(l) /\ ShardCount \in Nat /\ ShardCount # 0
      /\ l \in Nat /\ next_load_id \in Nat
  BY <1>1, LoadAssumption DEF LoadInv, TypeOK, Loads
<1>3. /\ state[l].loaded = ShardCount /\ state[l].prewarmed < ShardCount
      /\ state[l].cutover = 0 /\ state[l].prewarmed \in Nat
      /\ state[l].code = "kRunning" /\ ~state[l].terminal
  BY <1>1, <1>2 DEF LoadOK, CountersFollowPc, CodeFollowsPc, Cutover, Ended, LoadStates
<1>4. /\ s.loaded = ShardCount /\ s.prewarmed = state[l].prewarmed + 1 /\ s.cutover = 0
      /\ s.code = "kRunning" /\ ~s.terminal
  BY <1>2, <1>3 DEF LoadStates
<1>5. s \in LoadStates
  BY <1>2, <1>3 DEF LoadStates
<1>6. /\ t \in LoadStates /\ t.loaded = ShardCount /\ t.prewarmed = s.prewarmed
      /\ t.cutover = 0 /\ t.code = "kRunning" /\ ~t.terminal
  <2> HIDE DEF s
  <2>1. NoProgress \in ProgressSections
    BY DEF ProgressSections
  <2>2. QED
    BY <1>4, <1>5, <2>1 DEF LoadStates
<1>7. /\ label \in Labels /\ label \in {"check_prewarm", "start_catch_up", "check_publish"}
      /\ label = "check_prewarm" <=> s.prewarmed # ShardCount
  <2> HIDE DEF s
  <2> QED BY DEF Labels
<1> HIDE DEF s, last, t, label
<1>8. Merged(stored[l], s) \in LoadStates
  BY <1>2, <1>5, StateTypes
<1>9. /\ state' \in [Loads -> LoadStates] /\ stored' \in [Loads -> LoadStates]
      /\ pc' \in [Loads -> Labels] /\ state'[l] = t /\ pc'[l] = label
      /\ stored'[l] = Merged(stored[l], s)
  BY <1>1, <1>2, <1>6, <1>7, <1>8
<1>10. /\ stored'[l].cutover = 0
       /\ \/ stored'[l].code = "kRunning" /\ ~stored'[l].terminal
          \/ stored'[l].code = "kCancelled" /\ stored'[l].terminal
  BY <1>2, <1>4, <1>5, <1>9, MergedFields
<1>11. CountersFollowPc(l)'
  BY <1>2, <1>3, <1>4, <1>6, <1>7, <1>9 DEF CountersFollowPc, CatchUp, Cutover, Ended
<1>12. CodeFollowsPc(l)' /\ StoredFollowsState(l)'
  BY <1>2, <1>6, <1>7, <1>9, <1>10 DEF CodeFollowsPc, StoredFollowsState, Ended
<1>13. late[l] = {}
  BY <1>1, NotYetLate DEF Ended
<1>14. /\ published' = published /\ late' = late /\ cancellation' = cancellation
       /\ artifact' = artifact /\ next_load_id' = next_load_id
  BY <1>1 DEF api, directory
<1>15. PublishedInOrder(l)' /\ LateIsTheLast(l)' /\ Begun(l)'
  BY <1>1, <1>2, <1>3, <1>6, <1>7, <1>9, <1>13, <1>14
     DEF LoadOK, PublishedInOrder, LateIsTheLast, Begun, Ended
<1>16. ASSUME NEW u \in Loads \ {l} PROVE LoadOK(u)'
  <2>1. pc'[u] = pc[u] /\ state'[u] = state[u] /\ stored'[u] = stored[u]
    BY <1>1, <1>2
  <2>2. QED
    BY <1>2, <1>14, <2>1, OtherLoadKept
<1>17. QED
  BY <1>1, <1>9, <1>11, <1>12, <1>15, <1>16, WorkerTypes DEF LoadInv, LoadOK

-----------------------------------------------------------------------------
(* The catch-up. *)

(* A step within the catch-up moves the worker only. *)
LEMMA CatchUpStep ==
  ASSUME LoadInv, NEW l \in Loads, NEW label \in CatchUp, Goto(l, label),
         pc[l] \in CatchUp, UNCHANGED <<api, stored, artifact, state, directory>>
  PROVE  pc' \in [Loads -> Labels] /\ \A u \in Loads : LoadOK(u)'
<1>1. label \in Labels /\ pc'[l] = label /\ state' = state
  BY DEF CatchUp, Labels, Goto, LoadInv, TypeOK
<1>2. CountersFollowPc(l)'
  BY <1>1 DEF LoadInv, LoadOK, CountersFollowPc, CatchUp, Cutover, Ended
<1>3. late[l] = {}
  BY NotYetLate DEF CatchUp, Ended
<1>4. QED
  BY <1>1, <1>2, <1>3, GotoOnly DEF CatchUp, Ended

LEMMA StartCatchUpKeeps ==
  ASSUME LoadInv, NEW l \in Loads, NEW assigned \in SUBSET Partitions,
         StartCatchUp(l, assigned)
  PROVE  LoadInv'
<1>1. pc' \in [Loads -> Labels] /\ \A u \in Loads : LoadOK(u)'
  BY CatchUpStep DEF StartCatchUp, CatchUp
<1>2. owner' \in [Partitions -> Loads \cup {NoLoad}]
  BY DEF StartCatchUp, LoadInv, TypeOK
<1>3. artifact[l] \in [Partitions -> [checkpoint_next_offset : Offsets, high_watermark : Offsets]]
  BY LoadAssumption DEF StartCatchUp, LoadInv, LoadOK, Begun, Offsets
<1>4. position' \in [Loads -> [Partitions -> Offsets]]
  <2>1. 0 \in Offsets
    BY LoadAssumption DEF Offsets
  <2>2. [p \in Partitions |-> IF p \in assigned THEN artifact[l][p].checkpoint_next_offset
                              ELSE 0] \in [Partitions -> Offsets]
    BY <1>3, <2>1
  <2>3. QED
    BY <2>2 DEF StartCatchUp, LoadInv, TypeOK
<1>5. TypeOK'
  BY <1>1, <1>2, <1>4 DEF StartCatchUp, LoadInv, TypeOK, api, directory
<1>6. QED
  BY <1>1, <1>5 DEF LoadInv

(* Offsets the broker may answer with. *)
LEMMA NextOffsetType ==
  ASSUME LoadInv, NEW p \in Partitions PROVE NextOffset(p) \in Offsets
BY LoadAssumption DEF LoadInv, TypeOK, NextOffset, Offsets, NoOffset

LEMMA RebalanceKeeps ==
  ASSUME LoadInv, NEW l \in Loads, NEW p \in Partitions, Rebalance(l, p) PROVE LoadInv'
<1>1. /\ api' = api /\ stored' = stored /\ pc' = pc /\ artifact' = artifact
      /\ state' = state /\ directory' = directory
  BY DEF Rebalance
<1>2. \A u \in Loads : LoadOK(u)'
  BY <1>1, AllLoadsKept
<1>3. TypeOK'
  <2>1. owner' \in [Partitions -> Loads \cup {NoLoad}]
    BY DEF Rebalance, LoadInv, TypeOK
  <2>2. position' \in [Loads -> [Partitions -> Offsets]]
    BY NextOffsetType DEF Rebalance, LoadInv, TypeOK
  <2>3. QED
    BY <1>1, <2>1, <2>2 DEF Rebalance, LoadInv, TypeOK, api, directory
<1>4. QED
  BY <1>2, <1>3 DEF LoadInv

LEMMA ProduceKeeps ==
  ASSUME LoadInv, NEW p \in Partitions, Produce(p) PROVE LoadInv'
<1>1. /\ api' = api /\ stored' = stored /\ pc' = pc /\ artifact' = artifact
      /\ state' = state /\ directory' = directory
  BY DEF Produce
<1>2. \A u \in Loads : LoadOK(u)'
  BY <1>1, AllLoadsKept
<1>3. TypeOK'
  <2>1. high_watermark' \in [Partitions -> Offsets]
    BY LoadAssumption DEF Produce, LoadInv, TypeOK, Offsets
  <2>2. QED
    BY <1>1, <2>1 DEF Produce, LoadInv, TypeOK, api, directory, catchUp
<1>4. QED
  BY <1>2, <1>3 DEF LoadInv

(* What the consumer observes about the partitions of the target. *)
LEMMA ObservedProgress ==
  ASSUME LoadInv, NEW l \in Loads,
         NEW target \in ProgressSections, CoversTarget(target, Progress(l))
  PROVE  /\ target \in [Partitions -> [committed_next_offset : Offsets, high_watermark : Offsets]]
         /\ \A p \in Partitions : owner[p] = l
         /\ UpdateObservedSafeProgress(target, Progress(l)) \in
              [Partitions -> [committed_next_offset : Offsets, high_watermark : Offsets]]
         /\ \A p \in Partitions :
              LET s == UpdateObservedSafeProgress(target, Progress(l))[p] IN
              /\ s.committed_next_offset = NextOffset(p)
              /\ s.high_watermark >= target[p].high_watermark
              /\ s.high_watermark >= high_watermark[p]
<1>1. target \in [Partitions -> [committed_next_offset : Offsets, high_watermark : Offsets]]
  BY DEF CoversTarget, ProgressSections, NoProgress
<1>2. /\ DOMAIN target = Partitions
      /\ DOMAIN Progress(l) = {q \in Partitions : owner[q] = l}
  BY <1>1 DEF Progress
<1>3. \A p \in Partitions : owner[p] = l
  BY <1>2 DEF CoversTarget
<1>4. ASSUME NEW p \in Partitions
      PROVE  /\ Progress(l)[p].committed_next_offset = NextOffset(p)
             /\ Progress(l)[p].high_watermark = high_watermark[p]
             /\ NextOffset(p) \in Offsets /\ high_watermark[p] \in Offsets
             /\ target[p].high_watermark \in Offsets
  <2>1. Progress(l)[p] = [committed_next_offset |-> NextOffset(p),
                          high_watermark |-> high_watermark[p]]
    BY <1>3 DEF Progress
  <2>2. NextOffset(p) \in Offsets /\ high_watermark[p] \in Offsets
    BY NextOffsetType DEF LoadInv, TypeOK
  <2>3. QED
    BY <1>1, <2>1, <2>2
<1>5. ASSUME NEW p \in Partitions
      PROVE  LET s == UpdateObservedSafeProgress(target, Progress(l))[p] IN
             /\ s \in [committed_next_offset : Offsets, high_watermark : Offsets]
             /\ s.committed_next_offset = NextOffset(p)
             /\ s.high_watermark >= target[p].high_watermark
             /\ s.high_watermark >= high_watermark[p]
  BY <1>2, <1>4, LoadAssumption DEF UpdateObservedSafeProgress, Offsets
<1>6. UpdateObservedSafeProgress(target, Progress(l)) \in
        [Partitions -> [committed_next_offset : Offsets, high_watermark : Offsets]]
  BY <1>2, <1>5 DEF UpdateObservedSafeProgress
<1>7. QED
  BY <1>1, <1>3, <1>5, <1>6

LEMMA CaptureKeeps ==
  ASSUME LoadInv, NEW l \in Loads, CaptureSafeProgress(l) PROVE LoadInv'
<1> DEFINE target == state[l].source_progress
           s == [state[l] EXCEPT !.source_progress =
                   UpdateObservedSafeProgress(target, Progress(l))]
           label == IF CatchUpRequired(s.source_progress) THEN "check_poll"
                    ELSE "check_publish"
<1>1. pc[l] = "capture" /\ UNCHANGED <<api, artifact, directory, broker, catchUp>>
  BY DEF CaptureSafeProgress
<1>2. state[l] \in LoadStates /\ LoadOK(l) /\ ShardCount \in Nat \ {0}
  BY LoadAssumption DEF LoadInv, TypeOK
<1>3. CASE Fail(l)
  <2>1. state[l].cutover < ShardCount
    BY <1>1, <1>2 DEF LoadOK, CountersFollowPc, Cutover, Ended
  <2>2. MarkFailed(state[l]) \in LoadStates
    BY <1>2, StateTypes
  <2>3. /\ state' \in [Loads -> LoadStates] /\ stored' \in [Loads -> LoadStates]
        /\ pc' \in [Loads -> Labels] /\ \A u \in Loads : LoadOK(u)'
    BY <1>1, <1>3, <2>1, <2>2, EndEarly DEF Fail
  <2>4. QED
    BY <1>1, <2>3, WorkerTypes DEF LoadInv
<1>4. CASE CoversTarget(target, Progress(l)) /\ StoreState(l, s) /\ Goto(l, label)
  <2>1. target \in ProgressSections
    BY <1>2 DEF LoadStates
  <2>2. UpdateObservedSafeProgress(target, Progress(l)) \in ProgressSections
    BY <1>4, <2>1, ObservedProgress DEF ProgressSections
  <2>3. /\ s \in LoadStates /\ s.loaded = state[l].loaded
        /\ s.prewarmed = state[l].prewarmed /\ s.cutover = state[l].cutover
        /\ s.code = state[l].code /\ s.terminal = state[l].terminal
    BY <1>2, <2>2 DEF LoadStates
  <2>4. label \in {"check_poll", "check_publish"} /\ label \in Labels
    BY DEF Labels
  <2> HIDE DEF target, s, label
  <2>5. /\ state[l].cutover = 0 /\ state[l].code = "kRunning" /\ ~state[l].terminal
        /\ state[l].loaded = ShardCount /\ state[l].prewarmed = ShardCount
    BY <1>1, <1>2 DEF LoadOK, CountersFollowPc, CodeFollowsPc, CatchUp, Cutover, Ended
  <2>6. /\ state' \in [Loads -> LoadStates] /\ stored' \in [Loads -> LoadStates]
        /\ pc' \in [Loads -> Labels] /\ state'[l] = s /\ pc'[l] = label
    BY <1>1, <1>4, <2>3, <2>4, StoreAndGoto
  <2>7. CountersFollowPc(l)'
    BY <1>2, <2>3, <2>4, <2>5, <2>6 DEF CountersFollowPc, CatchUp, Cutover, Ended
  <2>8. late[l] = {}
    BY <1>1, NotYetLate DEF Ended
  <2>9. \A u \in Loads : LoadOK(u)'
    BY <1>1, <1>4, <2>3, <2>4, <2>5, <2>7, <2>8, RunOn DEF Cutover, Ended
  <2>10. QED
    BY <1>1, <2>6, <2>9, WorkerTypes DEF LoadInv
<1>5. QED
  BY <1>3, <1>4 DEF CaptureSafeProgress

(* What a poll may return. *)
LEMMA PollTypes ==
  ASSUME LoadInv, NEW l \in Loads, NEW next \in Polls(l)
  PROVE  /\ next \in [Partitions -> Offsets] /\ position[l] \in [Partitions -> Offsets]
         /\ \A p \in Partitions : next[p] >= position[l][p]
         /\ BuildCommitCheckpoint(position[l], next) \in
              UNION {[P -> Offsets] : P \in SUBSET Partitions}
         /\ Messages(position[l], next) \subseteq Partitions \X Offsets
<1>1. /\ next \in [Partitions -> Offsets] /\ position[l] \in [Partitions -> Offsets]
      /\ \A p \in Partitions : next[p] >= position[l][p]
  BY DEF Polls, LoadInv, TypeOK, Offsets
<1>2. BuildCommitCheckpoint(position[l], next) \in
        UNION {[P -> Offsets] : P \in SUBSET Partitions}
  <2> DEFINE P == {q \in DOMAIN next : next[q] > position[l][q]}
  <2>1. P \in SUBSET Partitions
    BY <1>1
  <2>2. BuildCommitCheckpoint(position[l], next) \in [P -> Offsets]
    BY <1>1 DEF BuildCommitCheckpoint
  <2>3. QED
    BY <2>1, <2>2
<1>3. ASSUME NEW p \in Partitions, NEW o \in position[l][p] .. next[p] - 1
      PROVE  o \in Offsets
  BY <1>1, LoadAssumption DEF Offsets
<1>4. Messages(position[l], next) \subseteq Partitions \X Offsets
  BY <1>3 DEF Messages
<1>5. QED
  BY <1>1, <1>2, <1>4

LEMMA PollAndApplyKeeps ==
  ASSUME LoadInv, NEW l \in Loads, NEW next \in Polls(l), PollAndApply(l, next)
  PROVE  LoadInv'
<1>1. pc' \in [Loads -> Labels] /\ \A u \in Loads : LoadOK(u)'
  <2>1. PICK label : label = IF next = position[l] THEN "capture" ELSE "commit"
    OBVIOUS
  <2>2. label \in CatchUp /\ pc[l] \in CatchUp
    BY <2>1 DEF CatchUp, PollAndApply
  <2>3. QED
    BY <2>1, <2>2, CatchUpStep DEF PollAndApply
<1>2. position' \in [Loads -> [Partitions -> Offsets]]
  BY PollTypes DEF PollAndApply, LoadInv, TypeOK
<1>3. batch' \in [Loads -> UNION {[P -> Offsets] : P \in SUBSET Partitions}]
  BY PollTypes DEF PollAndApply, LoadInv, TypeOK
<1>4. realtime' \in [Loads -> SUBSET (Partitions \X Offsets)]
  BY PollTypes DEF PollAndApply, LoadInv, TypeOK
<1>5. TypeOK'
  BY <1>1, <1>2, <1>3, <1>4 DEF PollAndApply, LoadInv, TypeOK, api, directory, broker
<1>6. QED
  BY <1>1, <1>5 DEF LoadInv

(* A poll error ends the load before its cutover. *)
LEMMA PollErrorEnds ==
  ASSUME LoadInv, NEW l \in Loads, pc[l] \in {"poll", "commit"}, MarkPollError(l),
         UNCHANGED <<api, artifact, directory>>
  PROVE  /\ state' \in [Loads -> LoadStates] /\ stored' \in [Loads -> LoadStates]
         /\ pc' \in [Loads -> Labels] /\ \A u \in Loads : LoadOK(u)'
<1>1. PICK s : s = IF cancellation[l] THEN MarkCancelled(state[l])
                   ELSE MarkFailed(state[l])
  OBVIOUS
<1>2. s \in LoadStates
  BY <1>1, StateTypes DEF LoadInv, TypeOK
<1>3. state[l].cutover < ShardCount
  BY LoadAssumption DEF LoadInv, LoadOK, CountersFollowPc, Cutover, Ended
<1>4. QED
  BY <1>1, <1>2, <1>3, EndEarly DEF MarkPollError

LEMMA PollOrApplyFailsKeeps ==
  ASSUME LoadInv, NEW l \in Loads, NEW applied \in Polls(l), PollOrApplyFails(l, applied)
  PROVE  LoadInv'
<1>1. /\ state' \in [Loads -> LoadStates] /\ stored' \in [Loads -> LoadStates]
      /\ pc' \in [Loads -> Labels] /\ \A u \in Loads : LoadOK(u)'
  BY PollErrorEnds DEF PollOrApplyFails
<1>2. realtime' \in [Loads -> SUBSET (Partitions \X Offsets)]
  BY PollTypes DEF PollOrApplyFails, LoadInv, TypeOK
<1>3. TypeOK'
  BY <1>1, <1>2 DEF PollOrApplyFails, LoadInv, TypeOK, api, directory, broker
<1>4. QED
  BY <1>1, <1>3 DEF LoadInv

(* No checkpoint is pending after a commit or its failure. *)
LEMMA NoBatchType ==
  ASSUME LoadInv, NEW l \in Loads, batch' = [batch EXCEPT ![l] = NoProgress]
  PROVE  batch' \in [Loads -> UNION {[P -> Offsets] : P \in SUBSET Partitions}]
<1>1. NoProgress \in [{} -> Offsets]
  BY DEF NoProgress
<1>2. NoProgress \in UNION {[P -> Offsets] : P \in SUBSET Partitions}
  BY <1>1
<1>3. QED
  BY <1>2 DEF LoadInv, TypeOK

(* The offset a pending checkpoint has for one of its partitions. *)
LEMMA BatchType ==
  ASSUME LoadInv, NEW l \in Loads
  PROVE  /\ DOMAIN batch[l] \subseteq Partitions
         /\ \A p \in DOMAIN batch[l] : batch[l][p] \in Offsets
<1>1. PICK P \in SUBSET Partitions : batch[l] \in [P -> Offsets]
  BY DEF LoadInv, TypeOK
<1>2. QED
  BY <1>1

LEMMA CommitKeeps ==
  ASSUME LoadInv, NEW l \in Loads, Commit(l) PROVE LoadInv'
<1>1. pc' \in [Loads -> Labels] /\ \A u \in Loads : LoadOK(u)'
  BY CatchUpStep DEF Commit, CatchUp
<1>2. committed' \in [Partitions -> Offsets \cup {NoOffset}]
  BY BatchType DEF Commit, LoadInv, TypeOK
<1>3. batch' \in [Loads -> UNION {[P -> Offsets] : P \in SUBSET Partitions}]
  BY NoBatchType DEF Commit
<1>4. TypeOK'
  BY <1>1, <1>2, <1>3 DEF Commit, LoadInv, TypeOK, api, directory
<1>5. QED
  BY <1>1, <1>4 DEF LoadInv

LEMMA CommitFailsKeeps ==
  ASSUME LoadInv, NEW l \in Loads, CommitFails(l) PROVE LoadInv'
<1>1. /\ state' \in [Loads -> LoadStates] /\ stored' \in [Loads -> LoadStates]
      /\ pc' \in [Loads -> Labels] /\ \A u \in Loads : LoadOK(u)'
  BY PollErrorEnds DEF CommitFails
<1>2. batch' \in [Loads -> UNION {[P -> Offsets] : P \in SUBSET Partitions}]
  BY NoBatchType DEF CommitFails
<1>3. TypeOK'
  BY <1>1, <1>2 DEF CommitFails, LoadInv, TypeOK, api, directory, broker
<1>4. QED
  BY <1>1, <1>3 DEF LoadInv

-----------------------------------------------------------------------------
(* The cutover. *)

LEMMA PublishShardKeeps ==
  ASSUME LoadInv, NEW l \in Loads, PublishShard(l) PROVE LoadInv'
<1> DEFINE s == state[l].cutover
<1>1. /\ pc[l] = "publish" /\ pc' = [pc EXCEPT ![l] = "store_cutover"]
      /\ shards' = [shards EXCEPT ![s] = l]
      /\ published' = [published EXCEPT ![l] = @ \cup {s}]
      /\ late' = [late EXCEPT ![l] = IF cancellation[l] THEN @ \cup {s} ELSE @]
      /\ api' = api /\ stored' = stored /\ artifact' = artifact /\ state' = state
      /\ UsesKafkaRealtime' = UsesKafkaRealtime /\ broker' = broker /\ catchUp' = catchUp
  BY DEF PublishShard, Goto
<1>2. /\ TypeOK /\ LoadOK(l) /\ state[l] \in LoadStates
      /\ l \in Nat /\ next_load_id \in Nat /\ ShardCount \in Nat
  BY LoadAssumption DEF LoadInv, TypeOK, Loads
<1>3. s \in Nat /\ s < ShardCount /\ s \in Shards
  BY <1>1, <1>2 DEF LoadOK, CountersFollowPc, LoadStates, Shards
<1> HIDE DEF s
<1>4. /\ pc' \in [Loads -> Labels] /\ pc'[l] = "store_cutover"
      /\ published' \in [Loads -> SUBSET Shards] /\ published'[l] = published[l] \cup {s}
      /\ late' \in [Loads -> SUBSET Shards]
      /\ late'[l] = IF cancellation[l] THEN late[l] \cup {s} ELSE late[l]
  BY <1>1, <1>2, <1>3 DEF TypeOK, Labels
<1>5. TypeOK'
  <2>1. shards' \in [Shards -> Loads \cup {NoLoad}]
    BY <1>1, <1>2 DEF TypeOK
  <2>2. QED
    BY <1>1, <1>2, <1>4, <2>1 DEF TypeOK, api, broker, catchUp
<1>6. published[l] = 0 .. s - 1 /\ late[l] = {}
  BY <1>1, <1>2, NotYetLate DEF LoadOK, PublishedInOrder, s, Ended
<1>7. PublishedInOrder(l)'
  BY <1>1, <1>3, <1>4, <1>6 DEF PublishedInOrder, s
<1>8. LateIsTheLast(l)'
  BY <1>1, <1>3, <1>4, <1>6 DEF LateIsTheLast, api
<1>9. CountersFollowPc(l)' /\ CodeFollowsPc(l)' /\ StoredFollowsState(l)' /\ Begun(l)'
  BY <1>1, <1>2, <1>4 DEF LoadOK, CountersFollowPc, CodeFollowsPc, StoredFollowsState,
     Begun, Ended, Cutover, CatchUp, api
<1>10. ASSUME NEW u \in Loads \ {l} PROVE LoadOK(u)'
  <2>1. /\ pc'[u] = pc[u] /\ published'[u] = published[u] /\ late'[u] = late[u]
    BY <1>1, <1>2 DEF TypeOK
  <2>2. next_load_id' = next_load_id /\ cancellation' = cancellation
    BY <1>1 DEF api
  <2>3. QED
    BY <1>1, <1>2, <2>1, <2>2, OtherLoadKept
<1>11. QED
  BY <1>5, <1>7, <1>8, <1>9, <1>10 DEF LoadInv, LoadOK

LEMMA StoreCutoverKeeps ==
  ASSUME LoadInv, NEW l \in Loads, StoreCutover(l) PROVE LoadInv'
<1> DEFINE s == [state[l] EXCEPT !.cutover = @ + 1]
           label == IF s.cutover < ShardCount THEN "check_publish" ELSE "succeed"
<1>1. /\ pc[l] = "store_cutover" /\ StoreState(l, s) /\ Goto(l, label)
      /\ UNCHANGED <<api, artifact, directory, broker, catchUp>>
  BY DEF StoreCutover
<1>2. /\ LoadOK(l) /\ state[l] \in LoadStates /\ stored[l] \in LoadStates
      /\ l \in Nat /\ next_load_id \in Nat /\ ShardCount \in Nat
  BY LoadAssumption DEF LoadInv, TypeOK, Loads
<1>3. /\ state[l].cutover \in Nat /\ state[l].cutover < ShardCount
      /\ state[l].loaded = ShardCount /\ state[l].prewarmed = ShardCount
      /\ state[l].code = "kRunning" /\ ~state[l].terminal
  BY <1>1, <1>2 DEF LoadOK, CountersFollowPc, CodeFollowsPc, LoadStates, Cutover, Ended
<1>4. /\ s \in LoadStates /\ s.cutover = state[l].cutover + 1
      /\ s.loaded = ShardCount /\ s.prewarmed = ShardCount
      /\ s.code = "kRunning" /\ ~s.terminal
  BY <1>2, <1>3 DEF LoadStates
<1> HIDE DEF s
<1>5. /\ label \in Labels
      /\ \/ label = "check_publish" /\ s.cutover < ShardCount
         \/ label = "succeed" /\ s.cutover = ShardCount
  BY <1>2, <1>3, <1>4 DEF Labels
<1> HIDE DEF label
<1>6. /\ state' \in [Loads -> LoadStates] /\ stored' \in [Loads -> LoadStates]
      /\ pc' \in [Loads -> Labels] /\ state'[l] = s /\ pc'[l] = label
      /\ stored'[l] = Merged(stored[l], s) /\ \A u \in Loads \ {l} : LoadOK(u)'
  BY <1>1, <1>4, <1>5, StoreAndGoto
<1>7. /\ stored'[l].cutover = s.cutover
      /\ \/ stored'[l].code = "kRunning" /\ ~stored'[l].terminal
         \/ stored'[l].code = "kCancelled" /\ stored'[l].terminal
  BY <1>2, <1>4, <1>6, MergedFields
<1>8. CountersFollowPc(l)' /\ CodeFollowsPc(l)' /\ StoredFollowsState(l)'
  BY <1>4, <1>5, <1>6, <1>7 DEF CountersFollowPc, CodeFollowsPc, StoredFollowsState,
     Ended, Cutover, CatchUp
<1>9. /\ published' = published /\ late' = late /\ cancellation' = cancellation
      /\ artifact' = artifact /\ next_load_id' = next_load_id
  BY <1>1 DEF api, directory
<1>10. PublishedInOrder(l)'
  BY <1>1, <1>2, <1>3, <1>4, <1>5, <1>6, <1>9 DEF LoadOK, PublishedInOrder
<1>11. LateIsTheLast(l)' /\ Begun(l)'
  BY <1>1, <1>2, <1>5, <1>6, <1>9 DEF LoadOK, LateIsTheLast, Begun
<1>12. QED
  BY <1>1, <1>6, <1>8, <1>10, <1>11, WorkerTypes DEF LoadInv, LoadOK

LEMMA SucceedKeeps ==
  ASSUME LoadInv, NEW l \in Loads, Succeed(l) PROVE LoadInv'
<1> DEFINE s == [state[l] EXCEPT !.code = "kSucceeded", !.terminal = TRUE]
<1>1. /\ pc[l] = "succeed" /\ StoreState(l, s) /\ Goto(l, "return")
      /\ UNCHANGED <<api, artifact, directory, broker, catchUp>>
  BY DEF Succeed, Finish
<1>2. /\ LoadOK(l) /\ state[l] \in LoadStates /\ stored[l] \in LoadStates
      /\ l \in Nat /\ next_load_id \in Nat /\ ShardCount \in Nat
  BY LoadAssumption DEF LoadInv, TypeOK, Loads
<1>3. /\ state[l].cutover = ShardCount /\ state[l].loaded = ShardCount
      /\ state[l].prewarmed = ShardCount
  BY <1>1, <1>2 DEF LoadOK, CountersFollowPc, Cutover
<1>4. /\ s \in LoadStates /\ s.cutover = ShardCount
      /\ s.loaded = ShardCount /\ s.prewarmed = ShardCount
      /\ s.code = "kSucceeded" /\ s.terminal
  BY <1>2, <1>3 DEF LoadStates
<1> HIDE DEF s
<1>5. /\ state' \in [Loads -> LoadStates] /\ stored' \in [Loads -> LoadStates]
      /\ pc' \in [Loads -> Labels] /\ state'[l] = s /\ pc'[l] = "return"
      /\ stored'[l] = Merged(stored[l], s) /\ \A u \in Loads \ {l} : LoadOK(u)'
  BY <1>1, <1>4, StoreAndGoto DEF Labels
<1>6. stored'[l].cutover = s.cutover /\ stored'[l].terminal
  BY <1>2, <1>4, <1>5, MergedFields
<1>7. CountersFollowPc(l)' /\ CodeFollowsPc(l)' /\ StoredFollowsState(l)'
  BY <1>4, <1>5, <1>6 DEF CountersFollowPc, CodeFollowsPc, StoredFollowsState,
     Ended, Cutover, CatchUp
<1>8. /\ published' = published /\ late' = late /\ cancellation' = cancellation
      /\ artifact' = artifact /\ next_load_id' = next_load_id
  BY <1>1 DEF api, directory
<1>9. PublishedInOrder(l)' /\ LateIsTheLast(l)' /\ Begun(l)'
  BY <1>1, <1>2, <1>3, <1>4, <1>5, <1>8
     DEF LoadOK, PublishedInOrder, LateIsTheLast, Begun, Ended
<1>10. QED
  BY <1>1, <1>5, <1>7, <1>9, WorkerTypes DEF LoadInv, LoadOK

LEMMA WorkerReturnsKeeps ==
  ASSUME LoadInv, NEW l \in Loads, WorkerReturns(l) PROVE LoadInv'
<1>1. /\ pc[l] = "return" /\ pc' = [pc EXCEPT ![l] = "done"]
      /\ registered' = registered \ {l}
      /\ owner' = [p \in Partitions |-> IF owner[p] = l THEN NoLoad ELSE owner[p]]
      /\ next_load_id' = next_load_id /\ cancellation' = cancellation
      /\ lifetime' = lifetime /\ stored' = stored /\ artifact' = artifact
      /\ state' = state /\ directory' = directory
      /\ high_watermark' = high_watermark /\ committed' = committed /\ catchUp' = catchUp
  BY DEF WorkerReturns, Goto
<1>2. TypeOK /\ LoadOK(l) /\ next_load_id \in Nat /\ l \in Nat
  BY LoadAssumption DEF LoadInv, TypeOK, Loads
<1>3. /\ pc' \in [Loads -> Labels] /\ pc'[l] = "done"
      /\ \A u \in Loads \ {l} : pc'[u] = pc[u]
  BY <1>1, <1>2 DEF TypeOK, Labels
<1>4. TypeOK'
  <2>1. owner' \in [Partitions -> Loads \cup {NoLoad}]
    BY <1>1, <1>2 DEF TypeOK
  <2>2. QED
    BY <1>1, <1>2, <1>3, <2>1 DEF TypeOK, directory, catchUp
<1>5. published' = published /\ late' = late
  BY <1>1 DEF directory
<1>6. LoadOK(l)'
  <2>1. CountersFollowPc(l)' /\ CodeFollowsPc(l)' /\ StoredFollowsState(l)'
    BY <1>1, <1>2, <1>3 DEF LoadOK, CountersFollowPc, CodeFollowsPc, StoredFollowsState,
       Ended, Cutover, CatchUp
  <2>2. PublishedInOrder(l)' /\ LateIsTheLast(l)' /\ Begun(l)'
    BY <1>1, <1>2, <1>3, <1>5 DEF LoadOK, PublishedInOrder, LateIsTheLast, Begun, Ended
  <2>3. QED
    BY <2>1, <2>2 DEF LoadOK
<1>7. ASSUME NEW u \in Loads \ {l} PROVE LoadOK(u)'
  BY <1>1, <1>2, <1>3, <1>5, OtherLoadKept
<1>8. QED
  BY <1>4, <1>6, <1>7 DEF LoadInv

-----------------------------------------------------------------------------
(* Client calls. *)

(* The first entry that no load has used. *)
LEMMA FreshEntry ==
  ASSUME LoadInv, next_load_id \in Loads
  PROVE  /\ next_load_id \in Nat /\ next_load_id + 1 \in 1 .. MaxLoads + 1
         /\ pc[next_load_id] = "none" /\ stored[next_load_id].code = "kUnknown"
         /\ state[next_load_id].cutover = 0 /\ published[next_load_id] = {}
         /\ late[next_load_id] = {} /\ LoadOK(next_load_id)
<1>1. next_load_id \in Nat /\ next_load_id + 1 \in 1 .. MaxLoads + 1
  BY LoadAssumption DEF Loads
<1>2. LoadOK(next_load_id)
  BY DEF LoadInv
<1>3. pc[next_load_id] = "none"
  BY <1>1, <1>2 DEF LoadOK, Begun
<1>4. stored[next_load_id].code = "kUnknown" /\ state[next_load_id].cutover = 0
  BY <1>2, <1>3 DEF LoadOK, StoredFollowsState, CountersFollowPc, Cutover, Ended
<1>5. published[next_load_id] = {} /\ late[next_load_id] = {}
  BY <1>2, <1>3, <1>4, NotYetLate DEF LoadOK, PublishedInOrder, Ended
<1>6. QED
  BY <1>1, <1>2, <1>3, <1>4, <1>5

LEMMA LoadAsyncRejectedKeeps == ASSUME LoadInv, LoadAsyncRejected PROVE LoadInv'
<1> DEFINE s == MarkFailed(NewState)
<1>0. PICK id \in Loads : id = next_load_id
  BY DEF LoadAsyncRejected
<1>1. /\ stored' = [stored EXCEPT ![id] = s]
      /\ pc' = [pc EXCEPT ![id] = "done"] /\ next_load_id' = id + 1
      /\ UNCHANGED <<registered, cancellation, lifetime, artifact, state,
                     directory, broker, catchUp>>
  BY <1>0 DEF LoadAsyncRejected
<1>2. /\ s \in LoadStates /\ s.cutover = 0 /\ s.terminal /\ s.code = "kFailed"
  BY StateTypes, MarkedFields DEF NewState
<1> HIDE DEF s
<1>3. /\ stored' \in [Loads -> LoadStates] /\ stored'[id] = s
      /\ pc' \in [Loads -> Labels] /\ pc'[id] = "done"
      /\ \A u \in Loads \ {id} : pc'[u] = pc[u] /\ stored'[u] = stored[u]
  BY <1>1, <1>2 DEF LoadInv, TypeOK, Labels
<1>4. TypeOK'
  BY <1>0, <1>1, <1>3, FreshEntry DEF LoadInv, TypeOK, directory, broker, catchUp
<1>5. published' = published /\ late' = late
  BY <1>1 DEF directory
<1>6. LoadOK(id)'
  <2>1. CountersFollowPc(id)' /\ CodeFollowsPc(id)' /\ StoredFollowsState(id)'
    BY <1>1, <1>2, <1>3, <1>0, FreshEntry DEF LoadOK, CountersFollowPc, CodeFollowsPc,
       StoredFollowsState, Ended, Cutover, CatchUp
  <2>2. /\ published'[id] = {} /\ late'[id] = {} /\ state'[id].cutover = 0
        /\ id \in Nat /\ next_load_id' = id + 1
    BY <1>0, <1>1, <1>5, FreshEntry
  <2>3. PublishedInOrder(id)' /\ LateIsTheLast(id)'
    BY <1>3, <2>2 DEF PublishedInOrder, LateIsTheLast
  <2>4. Begun(id)'
    BY <1>3, <2>2 DEF Begun
  <2>5. QED
    BY <2>1, <2>3, <2>4 DEF LoadOK
<1>7. ASSUME NEW u \in Loads \ {id} PROVE LoadOK(u)'
  BY <1>1, <1>3, <1>5, <1>0, FreshEntry, OtherLoadKept
<1>8. QED
  BY <1>1, <1>4, <1>6, <1>7 DEF LoadInv

LEMMA LoadAsyncKeeps ==
  ASSUME LoadInv, NEW a \in Artifacts, LoadAsync(a) PROVE LoadInv'
<1>0. PICK id \in Loads : id = next_load_id
  BY DEF LoadAsync
<1>1. /\ stored' = [stored EXCEPT ![id] = NewState]
      /\ pc' = [pc EXCEPT ![id] = "start"] /\ next_load_id' = id + 1
      /\ artifact' = [artifact EXCEPT ![id] = a]
      /\ registered' = registered \cup {id}
      /\ UNCHANGED <<cancellation, lifetime, state, directory, broker, catchUp>>
  BY <1>0 DEF LoadAsync
<1>2. /\ NewState \in LoadStates /\ NewState.cutover = 0 /\ ~NewState.terminal
      /\ NewState.code = "kRunning"
  BY StateTypes DEF NewState
<1>3. /\ stored' \in [Loads -> LoadStates] /\ stored'[id] = NewState
      /\ pc' \in [Loads -> Labels] /\ pc'[id] = "start"
      /\ artifact' \in [Loads -> Artifacts \cup {NoProgress}] /\ artifact'[id] = a
      /\ \A u \in Loads \ {id} : /\ pc'[u] = pc[u] /\ stored'[u] = stored[u]
                                 /\ artifact'[u] = artifact[u]
  BY <1>1, <1>2 DEF LoadInv, TypeOK, Labels
<1>4. TypeOK'
  BY <1>0, <1>1, <1>3, FreshEntry DEF LoadInv, TypeOK, directory, broker, catchUp
<1>5. published' = published /\ late' = late
  BY <1>1 DEF directory
<1>6. LoadOK(id)'
  <2>1. CountersFollowPc(id)' /\ CodeFollowsPc(id)' /\ StoredFollowsState(id)'
    BY <1>1, <1>2, <1>3, <1>0, FreshEntry DEF LoadOK, CountersFollowPc, CodeFollowsPc,
       StoredFollowsState, Ended, Cutover, CatchUp
  <2>2. /\ published'[id] = {} /\ late'[id] = {} /\ state'[id].cutover = 0
        /\ id \in Nat /\ next_load_id' = id + 1
    BY <1>0, <1>1, <1>5, FreshEntry
  <2>3. PublishedInOrder(id)' /\ LateIsTheLast(id)'
    BY <1>3, <2>2 DEF PublishedInOrder, LateIsTheLast
  <2>4. Begun(id)'
    BY <1>3, <2>2 DEF Begun
  <2>5. QED
    BY <2>1, <2>3, <2>4 DEF LoadOK
<1>7. ASSUME NEW u \in Loads \ {id} PROVE LoadOK(u)'
  BY <1>1, <1>3, <1>5, <1>0, FreshEntry, OtherLoadKept
<1>8. QED
  BY <1>1, <1>4, <1>6, <1>7 DEF LoadInv

LEMMA CancelLoadKeeps ==
  ASSUME LoadInv, NEW l \in Loads, CancelLoad(l) PROVE LoadInv'
<1> DEFINE s == MarkCancelled(stored[l])
<1>1. /\ ~stored[l].terminal /\ stored' = [stored EXCEPT ![l] = s]
      /\ cancellation' = [cancellation EXCEPT ![l] = @ \/ l \in registered]
      /\ UNCHANGED <<next_load_id, registered, lifetime, pc, artifact, state,
                     directory, broker, catchUp>>
  BY DEF CancelLoad
<1>2. /\ TypeOK /\ LoadOK(l) /\ stored[l] \in LoadStates /\ next_load_id \in Nat /\ l \in Nat
  <2>1. TypeOK /\ LoadOK(l)
    BY DEF LoadInv
  <2>2. stored[l] \in LoadStates /\ next_load_id \in 1 .. MaxLoads + 1
    BY <2>1 DEF TypeOK
  <2>3. next_load_id \in Nat /\ l \in Nat
    BY <2>2, LoadAssumption DEF Loads
  <2>4. QED
    BY <2>1, <2>2, <2>3
<1>3. /\ s \in LoadStates /\ s.cutover = stored[l].cutover /\ s.terminal
      /\ s.code = "kCancelled"
  BY <1>2, StateTypes, MarkedFields
<1> HIDE DEF s
<1>4. /\ stored' \in [Loads -> LoadStates] /\ stored'[l] = s
      /\ cancellation' \in [Loads -> BOOLEAN]
      /\ \A u \in Loads : cancellation[u] => cancellation'[u]
      /\ \A u \in Loads \ {l} : stored'[u] = stored[u]
  BY <1>1, <1>2, <1>3 DEF TypeOK
<1>5. TypeOK'
  BY <1>1, <1>2, <1>4 DEF TypeOK, directory, broker, catchUp
<1>6. published' = published /\ late' = late
  BY <1>1 DEF directory
<1>7. pc[l] # "none"
  BY <1>1, <1>2 DEF LoadOK, StoredFollowsState
<1>8. LoadOK(l)'
  <2>1. CountersFollowPc(l)' /\ CodeFollowsPc(l)' /\ StoredFollowsState(l)'
    BY <1>1, <1>2, <1>3, <1>4, <1>7 DEF LoadOK, CountersFollowPc, CodeFollowsPc,
       StoredFollowsState
  <2>2. PublishedInOrder(l)' /\ LateIsTheLast(l)' /\ Begun(l)'
    BY <1>1, <1>2, <1>4, <1>6 DEF LoadOK, PublishedInOrder, LateIsTheLast, Begun
  <2>3. QED
    BY <2>1, <2>2 DEF LoadOK
<1>9. ASSUME NEW u \in Loads \ {l} PROVE LoadOK(u)'
  BY <1>1, <1>2, <1>4, <1>6, OtherLoadKept
<1>10. QED
  BY <1>5, <1>8, <1>9 DEF LoadInv

LEMMA DestroyKeeps == ASSUME LoadInv, Destroy \/ Join PROVE LoadInv'
<1>1. /\ pc' = pc /\ state' = state /\ stored' = stored /\ directory' = directory
      /\ artifact' = artifact /\ next_load_id' = next_load_id
      /\ registered' = registered /\ broker' = broker /\ catchUp' = catchUp
      /\ lifetime' \in {"destroying", "destroyed"}
  BY DEF Destroy, Join
<1>2. /\ cancellation' \in [Loads -> BOOLEAN]
      /\ \A u \in Loads : cancellation[u] => cancellation'[u]
  BY DEF Destroy, Join, LoadInv, TypeOK
<1>3. TypeOK'
  BY <1>1, <1>2 DEF LoadInv, TypeOK, directory, broker, catchUp
<1>4. published' = published /\ late' = late
  BY <1>1 DEF directory
<1>5. next_load_id \in Nat
  BY LoadAssumption DEF LoadInv, TypeOK
<1>6. ASSUME NEW u \in Loads PROVE LoadOK(u)'
  BY <1>1, <1>2, <1>4, <1>5, OtherLoadKept
<1>7. QED
  BY <1>3, <1>6 DEF LoadInv

-----------------------------------------------------------------------------
(* Every step keeps the invariant. *)

LEMMA WorkerKeeps ==
  ASSUME LoadInv, NEW l \in Loads, Worker(l) PROVE LoadInv'
<1>1. CASE \E assigned \in SUBSET Partitions : StartCatchUp(l, assigned)
  BY <1>1, StartCatchUpKeeps
<1>2. CASE \E next \in Polls(l) : PollAndApply(l, next) \/ PollOrApplyFails(l, next)
  BY <1>2, PollAndApplyKeeps, PollOrApplyFailsKeeps
<1>3. CASE Start(l) \/ CheckCancelled(l) \/ LoadShard(l) \/ Prewarm(l) \/ WorkFails(l)
  BY <1>3, StartKeeps, CheckCancelledKeeps, LoadShardKeeps, PrewarmKeeps, WorkFailsKeeps
<1>4. CASE CaptureSafeProgress(l) \/ Commit(l) \/ CommitFails(l)
  BY <1>4, CaptureKeeps, CommitKeeps, CommitFailsKeeps
<1>5. CASE \/ PublishShard(l) \/ PublishRefused(l) \/ StoreCutover(l)
           \/ Succeed(l) \/ WorkerReturns(l)
  BY <1>5, PublishShardKeeps, WorkFailsKeeps, StoreCutoverKeeps, SucceedKeeps,
     WorkerReturnsKeeps
<1>6. QED
  BY <1>1, <1>2, <1>3, <1>4, <1>5 DEF Worker

LEMMA NextKeeps == LoadInv /\ [Next]_vars => LoadInv'
<1> SUFFICES ASSUME LoadInv, [Next]_vars PROVE LoadInv'
  OBVIOUS
<1>1. CASE Client
  BY <1>1, LoadAsyncRejectedKeeps, LoadAsyncKeeps, CancelLoadKeeps, DestroyKeeps DEF Client
<1>2. CASE Broker
  BY <1>2, ProduceKeeps, RebalanceKeeps DEF Broker
<1>3. CASE \E l \in Loads : Worker(l)
  BY <1>3, WorkerKeeps
<1>4. CASE UNCHANGED vars
  <2>1. TypeOK'
    BY <1>4 DEF vars, api, directory, broker, catchUp, LoadInv, TypeOK
  <2>2. \A u \in Loads : LoadOK(u)'
    BY <1>4, AllLoadsKept DEF vars
  <2>3. QED
    BY <2>1, <2>2 DEF LoadInv
<1>5. QED
  BY <1>1, <1>2, <1>3, <1>4 DEF Next

(* The inductive invariant of the load table and its workers: counters,    *)
(* codes, entries and published shards agree at every step of              *)
(* RunExternalArtifactLoad, whatever clients, broker and other loads do.   *)
THEOREM LoadInvariant == Spec => []LoadInv
<1>1. Init => LoadInv
  BY InitLoadInv
<1>2. LoadInv /\ [Next]_vars => LoadInv'
  BY NextKeeps
<1>3. QED
  BY <1>1, <1>2, PTL DEF Spec

(* Types: the loops over shards never run past the last one, and every     *)
(* offset that is polled, committed or reported lies in the log.           *)
THEOREM TypeCorrect == Spec => []TypeOK
<1>1. LoadInv => TypeOK
  BY DEF LoadInv
<1>2. QED
  BY <1>1, LoadInvariant, PTL

(* However CancelLoad and ~ForwardIndex race with publish_shard, a load    *)
(* whose flag is set publishes at most the shard it was about to.          *)
THEOREM CancelPrompt == Spec => []CancelIsPrompt
<1>1. LoadInv => CancelIsPrompt
  <2> SUFFICES ASSUME LoadInv, NEW l \in Loads PROVE Cardinality(late[l]) <= 1
    BY DEF CancelIsPrompt
  <2>1. late[l] = {} \/ \E s \in Shards : late[l] = {s}
    BY DEF LoadInv, LoadOK, LateIsTheLast
  <2>2. Cardinality(late[l]) = 0 \/ Cardinality(late[l]) = 1
    BY <2>1, FS_EmptySet, FS_Singleton
  <2>3. QED
    BY <2>2
<1>2. QED
  BY <1>1, LoadInvariant, PTL

(* What GetLoadState reports as cut over is published, and lags by at most *)
(* the shard that is being published.                                      *)
THEOREM CutoverReported == Spec => []CutoverIsReported
<1>1. LoadInv => CutoverIsReported
  <2> SUFFICES ASSUME LoadInv, NEW l \in Loads
               PROVE  \E n \in {stored[l].cutover, stored[l].cutover + 1} :
                        published[l] = 0 .. n - 1
    BY DEF CutoverIsReported
  <2>1. stored[l].cutover \in Nat /\ stored[l].cutover = state[l].cutover
    BY LoadAssumption DEF LoadInv, TypeOK, LoadStates, LoadOK, StoredFollowsState
  <2>2. published[l] = IF pc[l] = "store_cutover" THEN 0 .. state[l].cutover
                       ELSE 0 .. state[l].cutover - 1
    BY DEF LoadInv, LoadOK, PublishedInOrder
  <2>3. CASE pc[l] = "store_cutover"
    <3>1. published[l] = 0 .. (stored[l].cutover + 1) - 1
      BY <2>1, <2>2, <2>3
    <3>2. QED
      BY <3>1
  <2>4. CASE pc[l] # "store_cutover"
    BY <2>1, <2>2, <2>4
  <2>5. QED
    BY <2>3, <2>4
<1>2. QED
  BY <1>1, LoadInvariant, PTL

(* A worker that has returned leaves a terminal entry that reports exactly *)
(* the shards it published; kSucceeded means all of them.                  *)
THEOREM ReturnedSettled == Spec => []ReturnedLoadIsSettled
<1>1. LoadInv => ReturnedLoadIsSettled
  <2> SUFFICES ASSUME LoadInv, NEW l \in Loads, pc[l] \in {"return", "done"}
               PROVE  /\ stored[l].terminal
                      /\ published[l] = 0 .. stored[l].cutover - 1
                      /\ stored[l].code = "kSucceeded" => published[l] = Shards
    BY DEF ReturnedLoadIsSettled
  <2>1. stored[l].terminal /\ published[l] = 0 .. stored[l].cutover - 1
    BY DEF LoadInv, LoadOK, StoredFollowsState, PublishedInOrder, Ended
  <2>2. stored[l].code = "kSucceeded" => stored[l].cutover = ShardCount
    BY DEF LoadInv, LoadOK, StoredFollowsState
  <2>3. QED
    BY <2>1, <2>2 DEF Shards
<1>2. QED
  BY <1>1, LoadInvariant, PTL

(* RunExternalArtifactLoad replaces a serving shard only with all shards   *)
(* loaded and prewarmed; when publish_shard refuses one, the load fails,   *)
(* not all shards are replaced, and its entry counts those that are.       *)
THEOREM PartialCutoverReported == Spec => []PartialCutoverIsReported
<1>1. LoadInv => PartialCutoverIsReported
  <2> SUFFICES ASSUME LoadInv, NEW l \in Loads
               PROVE  /\ published[l] # {} =>
                           state[l].loaded = ShardCount /\ state[l].prewarmed = ShardCount
                      /\ state[l].code = "kFailed" =>
                           /\ published[l] = 0 .. stored[l].cutover - 1
                           /\ published[l] # Shards
    BY DEF PartialCutoverIsReported
  <2>1. /\ LoadOK(l) /\ state[l].cutover \in Nat /\ stored[l].cutover = state[l].cutover
        /\ ShardCount \in Nat \ {0}
    BY LoadAssumption DEF LoadInv, TypeOK, LoadStates, LoadOK, StoredFollowsState
  <2>2. ASSUME published[l] # {}
        PROVE  state[l].loaded = ShardCount /\ state[l].prewarmed = ShardCount
    <3>1. pc[l] = "store_cutover" \/ state[l].cutover # 0
      BY <2>1, <2>2 DEF LoadOK, PublishedInOrder
    <3>2. QED
      BY <2>1, <3>1 DEF LoadOK, CountersFollowPc, Cutover, Ended
  <2>3. ASSUME state[l].code = "kFailed"
        PROVE  published[l] = 0 .. stored[l].cutover - 1 /\ published[l] # Shards
    <3>1. pc[l] # "store_cutover" /\ state[l].cutover < ShardCount
      BY <2>1, <2>3 DEF LoadOK, CodeFollowsPc, Ended
    <3>2. published[l] = 0 .. state[l].cutover - 1
      BY <2>1, <3>1 DEF LoadOK, PublishedInOrder
    <3>3. ShardCount - 1 \in Shards /\ ShardCount - 1 \notin published[l]
      BY <2>1, <3>1, <3>2 DEF Shards
    <3>4. QED
      BY <2>1, <3>2, <3>3
  <2>4. QED
    BY <2>2, <2>3
<1>2. QED
  BY <1>1, LoadInvariant, PTL

-----------------------------------------------------------------------------
(* What a step does to the entries of the load table. *)

(* A worker that is running stores its state, merged, in its own entry;    *)
(* the state it stores as cancelled is terminal.                           *)
Stores(l) ==
  /\ pc[l] \notin {"none"} \cup Ended
  /\ \E s \in LoadStates :
       /\ s.code = "kCancelled" => s.terminal
       /\ stored' = [stored EXCEPT ![l] = Merged(stored[l], s)]

LEMMA WorkerStores ==
  ASSUME LoadInv, NEW l \in Loads, Worker(l) PROVE stored' = stored \/ Stores(l)
<1>1. /\ LoadOK(l) /\ state[l] \in LoadStates
      /\ state' \in [Loads -> LoadStates] /\ state \in [Loads -> LoadStates]
  BY WorkerKeeps DEF LoadInv, TypeOK
<1>2. /\ pc[l] \notin {"none", "start"} \cup Ended => state[l].code = "kRunning"
      /\ MarkFailed(state[l]) \in LoadStates /\ MarkFailed(state[l]).code = "kFailed"
      /\ MarkCancelled(state[l]) \in LoadStates /\ MarkCancelled(state[l]).terminal
  BY <1>1, StateTypes, MarkedFields DEF LoadOK, CodeFollowsPc
<1>3. CASE Start(l)
  BY <1>3, StateTypes DEF Start, StoreState, Stores, Ended, NewState
<1>4. CASE CheckCancelled(l)
  BY <1>2, <1>4 DEF CheckCancelled, Unless, Finish, StoreState, Stores, Ended
<1>5. CASE LoadShard(l) \/ StoreCutover(l)
  <2>1. PICK s : StoreState(l, s) /\ s.code = state[l].code
    <3>1. CASE LoadShard(l)
      <4>1. PICK progress : StoreState(l, [state[l] EXCEPT !.loaded = @ + 1,
                                                           !.source_progress = progress])
        BY <3>1 DEF LoadShard
      <4>2. [state[l] EXCEPT !.loaded = @ + 1, !.source_progress = progress].code
              = state[l].code
        BY <1>1 DEF LoadStates
      <4>3. QED
        BY <4>1, <4>2
    <3>2. CASE StoreCutover(l)
      BY <1>1, <3>2 DEF StoreCutover, LoadStates
    <3>3. QED
      BY <1>5, <3>1, <3>2
  <2>2. s \in LoadStates
    BY <1>1, <2>1 DEF StoreState
  <2>3. pc[l] \in {"load", "store_cutover"}
    BY <1>5 DEF LoadShard, StoreCutover
  <2>4. QED
    BY <1>2, <2>1, <2>2, <2>3 DEF StoreState, Stores, Ended
<1>6. CASE Prewarm(l)
  <2>1. PICK s : /\ stored' = [stored EXCEPT ![l] = Merged(stored[l], s)]
                 /\ s = [state[l] EXCEPT !.prewarmed = @ + 1] /\ pc[l] = "prewarm"
    BY <1>6 DEF Prewarm
  <2>2. state[l].prewarmed \in Nat /\ state[l].prewarmed < ShardCount
    BY <1>1, <2>1, LoadAssumption DEF LoadOK, CountersFollowPc, LoadStates
  <2>3. s \in LoadStates /\ s.code = state[l].code
    <3>1. state[l].prewarmed + 1 \in 0 .. ShardCount
      BY <2>2, LoadAssumption
    <3>2. QED
      BY <1>1, <2>1, <3>1 DEF LoadStates
  <2>4. QED
    BY <1>2, <2>1, <2>3 DEF Stores, Ended
<1>7. CASE WorkFails(l) \/ PublishRefused(l)
  BY <1>2, <1>7 DEF WorkFails, PublishRefused, Fail, Finish, StoreState, Stores, Ended
<1>8. CASE CaptureSafeProgress(l)
  <2>1. PICK s : StoreState(l, s) /\ (s = MarkFailed(state[l]) \/ s.code = state[l].code)
    BY <1>1, <1>8 DEF CaptureSafeProgress, Fail, Finish, LoadStates
  <2>2. s \in LoadStates
    BY <1>1, <2>1 DEF StoreState
  <2>3. pc[l] = "capture"
    BY <1>8 DEF CaptureSafeProgress
  <2>4. QED
    BY <1>2, <2>1, <2>2, <2>3 DEF StoreState, Stores, Ended
<1>9. CASE CommitFails(l) \/ \E next \in Polls(l) : PollOrApplyFails(l, next)
  <2>1. MarkPollError(l) /\ pc[l] \in {"poll", "commit"}
    BY <1>9 DEF CommitFails, PollOrApplyFails
  <2>2. PICK s \in {MarkCancelled(state[l]), MarkFailed(state[l])} : StoreState(l, s)
    BY <2>1 DEF MarkPollError, Finish
  <2>3. QED
    BY <1>2, <2>1, <2>2 DEF StoreState, Stores, Ended
<1>10. CASE Succeed(l)
  <2>1. PICK s : /\ StoreState(l, s) /\ pc[l] = "succeed"
                 /\ s = [state[l] EXCEPT !.code = "kSucceeded", !.terminal = TRUE]
    BY <1>10 DEF Succeed, Finish
  <2>2. s \in LoadStates /\ s.code = "kSucceeded"
    BY <1>1, <2>1 DEF LoadStates
  <2>3. QED
    BY <2>1, <2>2 DEF StoreState, Stores, Ended
<1>11. CASE \/ \E assigned \in SUBSET Partitions : StartCatchUp(l, assigned)
            \/ \E next \in Polls(l) : PollAndApply(l, next)
            \/ Commit(l) \/ PublishShard(l) \/ WorkerReturns(l)
  BY <1>11 DEF StartCatchUp, PollAndApply, Commit, PublishShard, WorkerReturns
<1>12. QED
  BY <1>3, <1>4, <1>5, <1>6, <1>7, <1>8, <1>9, <1>10, <1>11 DEF Worker

(* What a client was told is final: neither store_state nor LoadAsync nor  *)
(* CancelLoad changes the code of an entry that is terminal.               *)
THEOREM TerminalFinal == Spec => TerminalCodeIsFinal
<1> DEFINE Final(l) == stored[l].terminal /\ stored[l].code # "kUnknown" =>
                         stored'[l].terminal /\ stored'[l].code = stored[l].code
<1>1. LoadInv /\ [Next]_vars => [\A l \in Loads : Final(l)]_vars
  <2> SUFFICES ASSUME LoadInv, Next, NEW l \in Loads,
                      stored[l].terminal, stored[l].code # "kUnknown"
               PROVE  stored'[l].terminal /\ stored'[l].code = stored[l].code
    OBVIOUS
  <2>1. LoadOK(l) /\ stored \in [Loads -> LoadStates] /\ stored[l] \in LoadStates
    BY DEF LoadInv, TypeOK
  <2>2. CASE LoadAsyncRejected \/ \E a \in Artifacts : LoadAsync(a)
    <3>1. next_load_id \in Loads /\ next_load_id # l
      BY <2>2, FreshEntry DEF LoadAsyncRejected, LoadAsync
    <3>2. QED
      BY <2>1, <2>2, <3>1 DEF LoadAsyncRejected, LoadAsync
  <2>3. CASE \E u \in Loads : CancelLoad(u)
    BY <2>1, <2>3 DEF CancelLoad
  <2>4. CASE Destroy \/ Join \/ Broker
    BY <2>4 DEF Destroy, Join, Broker, Produce, Rebalance
  <2>5. ASSUME NEW u \in Loads, Worker(u)
        PROVE  stored'[l].terminal /\ stored'[l].code = stored[l].code
    <3>1. CASE stored' = stored \/ u # l
      BY <2>1, <2>5, <3>1, WorkerStores DEF Stores
    <3>2. CASE Stores(l)
      <4>1. stored[l].code = "kCancelled"
        BY <2>1, <3>2 DEF Stores, LoadOK, StoredFollowsState
      <4>2. PICK s \in LoadStates : /\ s.code = "kCancelled" => s.terminal
                                    /\ stored'[l] = Merged(stored[l], s)
        BY <2>1, <3>2 DEF Stores
      <4>3. QED
        BY <2>1, <4>1, <4>2, MergedFields
    <3>3. QED
      BY <2>5, <3>1, <3>2, WorkerStores
  <2>6. QED
    BY <2>2, <2>3, <2>4, <2>5 DEF Next, Client
<1>2. QED
  BY <1>1, LoadInvariant, PTL DEF Spec, TerminalCodeIsFinal

-----------------------------------------------------------------------------
(* The catch-up of the first load of a group.  Offsets that the group      *)
(* committed before, by an earlier load or process, may lie beyond the     *)
(* checkpoint of the artifact, and a partition that is assigned after the  *)
(* seek starts there: the results below are about a process that performs  *)
(* one load and whose group has not passed the checkpoint of any artifact. *)

FirstLoadOfGroup ==
  /\ MaxLoads = 1
  /\ \A a \in Artifacts, p \in Partitions :
       InitialCommitted[p] <= a[p].checkpoint_next_offset

(* The load has applied the log of a partition from its checkpoint to n. *)
Covered(l, p, n) ==
  \A o \in artifact[l][p].checkpoint_next_offset .. n - 1 : <<p, o>> \in realtime[l]

(* A partition belongs to a worker that has an artifact and a consumer. *)
OwnerRuns(l) ==
  \A p \in Partitions : owner[p] = l => pc[l] \notin {"none", "done"}

(* The group's offset moves only with what was applied. *)
CommitCovered(l) ==
  /\ pc[l] = "none" => committed = InitialCommitted
  /\ artifact[l] \in Artifacts => \A p \in Partitions : Covered(l, p, committed[p])

(* The consumer is at most where the applied messages end, and so is the   *)
(* checkpoint that is about to be committed.                               *)
PositionCovered(l) ==
  /\ CatchingUp(l) => \A p \in Partitions : Covered(l, p, position[l][p])
  /\ pc[l] = "commit" => \A p \in DOMAIN batch[l] : Covered(l, p, batch[l][p])

(* A cutover begins when the applied messages reach the safe position. *)
CutoverCovered(l) ==
  UsesKafkaRealtime /\ (pc[l] \in Cutover \/ published[l] # {}) =>
    /\ artifact[l] \in Artifacts
    /\ \A p \in Partitions : Covered(l, p, state[l].source_progress[p].high_watermark)

CatchUpOK(l) ==
  OwnerRuns(l) /\ CommitCovered(l) /\ PositionCovered(l) /\ CutoverCovered(l)

CatchUpInv == LoadInv /\ \A l \in Loads : CatchUpOK(l)

LEMMA InitCatchUpInv == ASSUME Init PROVE CatchUpInv
<1>1. LoadInv
  BY InitLoadInv
<1>2. ASSUME NEW l \in Loads PROVE CatchUpOK(l)
  <2>1. /\ pc[l] = "none" /\ artifact[l] = NoProgress /\ published[l] = {}
        /\ committed = InitialCommitted /\ \A p \in Partitions : owner[p] = NoLoad
        /\ l # NoLoad
    BY DEF Init, Loads, NoLoad
  <2>2. artifact[l] \notin Artifacts
    <3>1. \A a \in Artifacts : DOMAIN a = Partitions
      BY LoadAssumption
    <3>2. DOMAIN NoProgress = {}
      BY DEF NoProgress
    <3>3. QED
      BY <2>1, <3>1, <3>2, LoadAssumption
  <2>3. QED
    BY <2>1, <2>2 DEF CatchUpOK, OwnerRuns, CommitCovered, PositionCovered,
       CutoverCovered, CatchingUp, Cutover
<1>3. QED
  BY <1>1, <1>2 DEF CatchUpInv

(* No shard is published before the cutover. *)
LEMMA NotYetPublished ==
  ASSUME LoadInv, NEW l \in Loads, pc[l] \notin Cutover \cup Ended
  PROVE  published[l] = {}
BY DEF LoadInv, LoadOK, PublishedInOrder, CountersFollowPc, Cutover

LEMMA CatchUpUnchanged ==
  ASSUME CatchUpInv, NEW l \in Loads,
         UNCHANGED <<pc, artifact, state, directory, committed, owner, catchUp>>
  PROVE  CatchUpOK(l)'
<1>1. /\ pc' = pc /\ artifact' = artifact /\ state' = state /\ published' = published
      /\ UsesKafkaRealtime' = UsesKafkaRealtime /\ committed' = committed
      /\ owner' = owner /\ position' = position /\ batch' = batch /\ realtime' = realtime
  BY DEF directory, catchUp
<1>2. CatchUpOK(l)
  BY DEF CatchUpInv
<1>3. QED
  BY <1>1, <1>2 DEF CatchUpOK, OwnerRuns, CommitCovered, PositionCovered,
     CutoverCovered, CatchingUp, Covered

(* A worker's step that neither polls nor commits nor begins the cutover.  *)
LEMMA CatchUpFrame ==
  ASSUME CatchUpInv, NEW l \in Loads,
         artifact' = artifact, committed' = committed, owner' = owner,
         realtime[l] \subseteq realtime'[l],
         pc[l] \notin {"none", "done"}, pc'[l] \notin {"none", "done", "commit"},
         CatchingUp(l)' => CatchingUp(l) /\ position' = position,
         UsesKafkaRealtime' = UsesKafkaRealtime,
         UsesKafkaRealtime /\ (pc'[l] \in Cutover \/ published'[l] # {}) =>
           /\ pc[l] \in Cutover \/ published[l] # {}
           /\ state'[l].source_progress = state[l].source_progress
  PROVE  CatchUpOK(l)'
<1>1. CatchUpOK(l)
  BY DEF CatchUpInv
<1>2. OwnerRuns(l)'
  BY DEF OwnerRuns
<1>3. CommitCovered(l)'
  BY <1>1 DEF CatchUpOK, CommitCovered, Covered
<1>4. PositionCovered(l)'
  BY <1>1 DEF CatchUpOK, PositionCovered, Covered
<1>5. CutoverCovered(l)'
  BY <1>1 DEF CatchUpOK, CutoverCovered, Covered
<1>6. QED
  BY <1>2, <1>3, <1>4, <1>5 DEF CatchUpOK

(* What is left alone by the steps outside the catch-up. *)
LEMMA OutsideCatchUp ==
  ASSUME CatchUpInv, NEW l \in Loads, LoadInv',
         \/ Start(l) \/ LoadShard(l) \/ Prewarm(l) \/ WorkFails(l) \/ CheckCancelled(l)
         \/ PublishShard(l) \/ PublishRefused(l) \/ StoreCutover(l) \/ Succeed(l)
  PROVE  CatchUpOK(l)'
<1>1. /\ artifact' = artifact /\ broker' = broker /\ catchUp' = catchUp
      /\ UsesKafkaRealtime' = UsesKafkaRealtime
  BY DEF Start, LoadShard, Prewarm, WorkFails, CheckCancelled, PublishShard,
     PublishRefused, StoreCutover, Succeed, directory
<1>2. /\ committed' = committed /\ owner' = owner /\ position' = position
      /\ realtime' = realtime
  BY <1>1 DEF broker, catchUp
<1>3. /\ LoadInv /\ state[l] \in LoadStates /\ stored[l] \in LoadStates /\ LoadOK(l)
      /\ state \in [Loads -> LoadStates] /\ pc \in [Loads -> Labels]
  BY DEF CatchUpInv, LoadInv, TypeOK
<1>4. CASE Start(l) \/ LoadShard(l)
  <2>1. /\ pc[l] \in {"start", "load"} /\ pc'[l] \in {"check_load", "check_prewarm"}
        /\ published' = published
    BY <1>3, <1>4 DEF Start, LoadShard, Goto, directory
  <2>2. published'[l] = {}
    BY <1>3, <2>1, NotYetPublished DEF Cutover, Ended
  <2>3. QED
    BY <1>1, <1>2, <2>1, <2>2, CatchUpFrame DEF CatchingUp, Cutover
<1>5. CASE Prewarm(l)
  <2>1. /\ pc[l] = "prewarm" /\ published' = published
        /\ pc'[l] \in {"check_prewarm", "start_catch_up", "check_publish"}
        /\ UsesKafkaRealtime => pc'[l] # "check_publish"
    BY <1>3, <1>5 DEF Prewarm, Goto, directory
  <2>2. published'[l] = {}
    BY <1>3, <2>1, NotYetPublished DEF Cutover, Ended
  <2>3. QED
    BY <1>1, <1>2, <2>1, <2>2, CatchUpFrame DEF CatchingUp, Cutover
<1>6. CASE WorkFails(l)
  <2>1. /\ pc[l] \in {"load", "prewarm", "start_catch_up", "capture"}
        /\ pc'[l] = "return" /\ published' = published
    BY <1>3, <1>6 DEF WorkFails, Fail, Finish, Goto, directory
  <2>2. published'[l] = {}
    BY <1>3, <2>1, NotYetPublished DEF Cutover, Ended
  <2>3. QED
    BY <1>1, <1>2, <2>1, <2>2, CatchUpFrame DEF CatchingUp, Cutover
<1>7. CASE CheckCancelled(l)
  <2>1. /\ pc[l] \in {"check_load", "check_prewarm", "check_capture", "check_poll",
                      "check_publish"}
        /\ published' = published
    BY <1>7 DEF CheckCancelled, Unless, directory
  <2>2. pc'[l] \in {"return", Unless[pc[l]]}
    BY <1>3, <1>7 DEF CheckCancelled, Finish, Goto
  <2>3. /\ pc'[l] \in {"return", "load", "prewarm", "capture", "poll", "publish"}
        /\ CatchingUp(l)' => CatchingUp(l)
        /\ pc'[l] \in Cutover => pc[l] \in Cutover
    BY <2>1, <2>2 DEF Unless, CatchingUp, Cutover
  <2>4. state'[l].source_progress = state[l].source_progress
    BY <1>3, <1>7, MarkedFields DEF CheckCancelled, Finish, StoreState
  <2>5. QED
    BY <1>1, <1>2, <2>1, <2>3, <2>4, CatchUpFrame
<1>8. CASE PublishShard(l)
  <2>1. pc[l] = "publish" /\ pc'[l] = "store_cutover" /\ state' = state
    BY <1>3, <1>8 DEF PublishShard, Goto
  <2>2. QED
    BY <1>1, <1>2, <2>1, CatchUpFrame DEF CatchingUp, Cutover
<1>9. CASE StoreCutover(l)
  <2>1. /\ pc[l] = "store_cutover" /\ pc'[l] \in {"check_publish", "succeed"}
        /\ state'[l].source_progress = state[l].source_progress
    BY <1>3, <1>9 DEF StoreCutover, Goto, StoreState, LoadStates
  <2>2. QED
    BY <1>1, <1>2, <2>1, CatchUpFrame DEF CatchingUp, Cutover
<1>10. CASE Succeed(l)
  <2>1. /\ pc[l] = "succeed" /\ pc'[l] = "return"
        /\ state'[l].source_progress = state[l].source_progress
    BY <1>3, <1>10 DEF Succeed, Finish, Goto, StoreState, LoadStates
  <2>2. QED
    BY <1>1, <1>2, <2>1, CatchUpFrame DEF CatchingUp, Cutover
<1>11. CASE PublishRefused(l)
  <2>1. /\ pc[l] = "publish" /\ pc'[l] = "return" /\ published' = published
        /\ state'[l].source_progress = state[l].source_progress
    BY <1>3, <1>11, MarkedFields
       DEF PublishRefused, Fail, Finish, Goto, StoreState, directory
  <2>2. QED
    BY <1>1, <1>2, <2>1, CatchUpFrame DEF CatchingUp, Cutover
<1>12. QED
  BY <1>4, <1>5, <1>6, <1>7, <1>8, <1>9, <1>10, <1>11

(* Types that the arithmetic on offsets needs. *)
LEMMA OffsetTypes ==
  ASSUME LoadInv, NEW l \in Loads, NEW p \in Partitions
  PROVE  /\ position[l][p] \in Nat /\ high_watermark[p] \in Nat /\ committed[p] \in Int
         /\ artifact[l] \in Artifacts => artifact[l][p].checkpoint_next_offset \in Nat
<1>1. position[l][p] \in Nat /\ high_watermark[p] \in Nat /\ committed[p] \in Int
  BY LoadAssumption DEF LoadInv, TypeOK, Offsets, NoOffset
<1>2. \A a \in Artifacts : a[p].checkpoint_next_offset \in Nat
  BY LoadAssumption
<1>3. QED
  BY <1>1, <1>2

(* The offset at which an assigned consumer would start is covered. *)
LEMMA NextOffsetCovered ==
  ASSUME CatchUpInv, NEW l \in Loads, NEW p \in Partitions, artifact[l] \in Artifacts
  PROVE  Covered(l, p, NextOffset(p)) /\ Covered(l, p, 0)
<1>1. Covered(l, p, committed[p])
  BY DEF CatchUpInv, CatchUpOK, CommitCovered
<1>2. artifact[l][p].checkpoint_next_offset \in Nat
  BY OffsetTypes DEF CatchUpInv
<1>3. Covered(l, p, 0)
  BY <1>2 DEF Covered
<1>4. QED
  BY <1>1, <1>3 DEF NextOffset

LEMMA StartCatchUpCovers ==
  ASSUME CatchUpInv, NEW l \in Loads, NEW assigned \in SUBSET Partitions,
         StartCatchUp(l, assigned)
  PROVE  CatchUpOK(l)'
<1>1. /\ pc[l] = "start_catch_up" /\ pc'[l] = "check_capture" /\ artifact' = artifact
      /\ committed' = committed /\ realtime' = realtime /\ directory' = directory
      /\ \A p \in Partitions :
           position'[l][p] = IF p \in assigned THEN artifact[l][p].checkpoint_next_offset
                             ELSE 0
  BY DEF StartCatchUp, Goto, CatchUpInv, LoadInv, TypeOK
<1>2. LoadInv /\ artifact[l] \in Artifacts /\ CatchUpOK(l) /\ published' = published
  BY <1>1 DEF CatchUpInv, LoadInv, LoadOK, Begun, directory
<1>3. OwnerRuns(l)' /\ CommitCovered(l)'
  BY <1>1, <1>2 DEF OwnerRuns, CatchUpOK, CommitCovered, Covered
<1>4. PositionCovered(l)'
  <2>1. ASSUME NEW p \in Partitions PROVE Covered(l, p, position[l][p])'
    <3>1. artifact[l][p].checkpoint_next_offset \in Nat
      BY <1>2, OffsetTypes
    <3>2. QED
      BY <1>1, <3>1 DEF Covered
  <2>2. QED
    BY <1>1, <2>1 DEF PositionCovered
<1>5. CutoverCovered(l)'
  <2>1. published[l] = {}
    BY <1>1, <1>2, NotYetPublished DEF Cutover, Ended
  <2>2. QED
    BY <1>1, <1>2, <2>1 DEF CutoverCovered, Cutover
<1>6. QED
  BY <1>3, <1>4, <1>5 DEF CatchUpOK

LEMMA RebalanceCovers ==
  ASSUME CatchUpInv, NEW l \in Loads, NEW q \in Partitions, Rebalance(l, q)
  PROVE  CatchUpOK(l)'
<1>1. /\ CatchingUp(l) /\ pc' = pc /\ artifact' = artifact /\ state' = state
      /\ committed' = committed /\ realtime' = realtime /\ directory' = directory
      /\ batch' = batch
      /\ \A p \in Partitions :
           position'[l][p] = IF p = q THEN NextOffset(q) ELSE position[l][p]
  BY DEF Rebalance, CatchUpInv, LoadInv, TypeOK
<1>2. /\ LoadInv /\ artifact[l] \in Artifacts /\ CatchUpOK(l) /\ published' = published
      /\ UsesKafkaRealtime' = UsesKafkaRealtime
  BY <1>1 DEF CatchUpInv, LoadInv, LoadOK, Begun, directory, CatchingUp
<1>3. OwnerRuns(l)' /\ CommitCovered(l)'
  BY <1>1, <1>2 DEF OwnerRuns, CatchingUp, CatchUpOK, CommitCovered, Covered
<1>4. PositionCovered(l)'
  BY <1>1, <1>2, NextOffsetCovered DEF CatchUpOK, PositionCovered, Covered
<1>5. CutoverCovered(l)'
  BY <1>1, <1>2 DEF CatchUpOK, CutoverCovered, Covered
<1>6. QED
  BY <1>3, <1>4, <1>5 DEF CatchUpOK

(* The safe position is reached when nothing of it is left to catch up:    *)
(* the committed offsets, all applied, have passed every high watermark.   *)
LEMMA CaptureCovers ==
  ASSUME CatchUpInv, NEW l \in Loads, CaptureSafeProgress(l)
  PROVE  CatchUpOK(l)'
<1> DEFINE target == state[l].source_progress
           safe == UpdateObservedSafeProgress(target, Progress(l))
<1>1. /\ pc[l] = "capture" /\ artifact' = artifact /\ broker' = broker
      /\ catchUp' = catchUp /\ directory' = directory
  BY DEF CaptureSafeProgress
<1>2. /\ committed' = committed /\ owner' = owner /\ realtime' = realtime
      /\ position' = position /\ published' = published
      /\ UsesKafkaRealtime' = UsesKafkaRealtime
  BY <1>1 DEF broker, catchUp, directory
<1>3. /\ LoadInv /\ artifact[l] \in Artifacts /\ CatchUpOK(l) /\ state[l] \in LoadStates
      /\ target \in ProgressSections
      /\ state \in [Loads -> LoadStates] /\ pc \in [Loads -> Labels]
  BY <1>1 DEF CatchUpInv, LoadInv, TypeOK, LoadOK, Begun, LoadStates
<1>4. published[l] = {}
  BY <1>1, <1>3, NotYetPublished DEF Cutover, Ended
<1>5. CASE pc'[l] \in {"return", "check_poll"}
  BY <1>1, <1>2, <1>4, <1>5, CatchUpFrame DEF CatchingUp, Cutover
<1>6. CASE pc'[l] = "check_publish"
  <2>1. /\ CoversTarget(target, Progress(l))
        /\ state'[l].source_progress = safe /\ ~CatchUpRequired(safe)
    <3>1. PICK s : /\ s = [state[l] EXCEPT !.source_progress = safe]
                   /\ CoversTarget(target, Progress(l))
                   /\ state'[l] = s /\ ~CatchUpRequired(s.source_progress)
      BY <1>3, <1>6 DEF CaptureSafeProgress, Fail, Finish, Goto, StoreState
    <3>2. s.source_progress = safe
      BY <1>3, <3>1 DEF LoadStates
    <3>3. QED
      BY <3>1, <3>2
  <2>2. ASSUME NEW p \in Partitions
        PROVE  Covered(l, p, safe[p].high_watermark)
    <3>1. /\ safe[p].committed_next_offset = NextOffset(p)
          /\ safe[p].high_watermark \in Nat /\ p \in DOMAIN safe
      BY <1>3, <2>1, ObservedProgress, LoadAssumption DEF Offsets
    <3>2. NextOffset(p) \in Nat
      BY <1>3, NextOffsetType, LoadAssumption DEF Offsets
    <3>3. safe[p].high_watermark <= NextOffset(p)
      BY <2>1, <3>1, <3>2 DEF CatchUpRequired
    <3>4. artifact[l][p].checkpoint_next_offset \in Nat
      BY <1>3, OffsetTypes
    <3>5. QED
      BY <1>3, <3>1, <3>2, <3>3, <3>4, NextOffsetCovered DEF Covered
  <2> HIDE DEF safe
  <2>3. CutoverCovered(l)'
    BY <1>1, <1>2, <1>3, <2>1, <2>2 DEF CutoverCovered, Covered
  <2>4. OwnerRuns(l)' /\ CommitCovered(l)' /\ PositionCovered(l)'
    BY <1>1, <1>2, <1>3, <1>6 DEF CatchUpOK, OwnerRuns, CommitCovered, PositionCovered,
       Covered, CatchingUp
  <2>5. QED
    BY <2>3, <2>4 DEF CatchUpOK
<1>7. QED
  <2>1. pc'[l] \in {"return", "check_poll", "check_publish"}
    BY <1>3 DEF CaptureSafeProgress, Fail, Finish, Goto
  <2>2. QED
    BY <1>5, <1>6, <2>1

(* What a poll returned is applied before its checkpoint is committed. *)
LEMMA PollAndApplyCovers ==
  ASSUME CatchUpInv, NEW l \in Loads, NEW next \in Polls(l), PollAndApply(l, next)
  PROVE  CatchUpOK(l)'
<1>1. /\ pc[l] = "poll" /\ pc'[l] \in {"capture", "commit"} /\ artifact' = artifact
      /\ broker' = broker /\ directory' = directory
      /\ position'[l] = next
      /\ batch'[l] = BuildCommitCheckpoint(position[l], next)
      /\ realtime'[l] = realtime[l] \cup Messages(position[l], next)
  BY DEF PollAndApply, Goto, CatchUpInv, LoadInv, TypeOK
<1>2. /\ LoadInv /\ artifact[l] \in Artifacts /\ CatchUpOK(l) /\ published' = published
      /\ committed' = committed /\ owner' = owner
  BY <1>1 DEF CatchUpInv, LoadInv, LoadOK, Begun, directory, broker
<1>3. OwnerRuns(l)' /\ CommitCovered(l)'
  BY <1>1, <1>2 DEF OwnerRuns, CatchUpOK, CommitCovered, Covered
<1>4. ASSUME NEW p \in Partitions,
             NEW o \in artifact[l][p].checkpoint_next_offset .. next[p] - 1
      PROVE  <<p, o>> \in realtime'[l]
  <2>1. /\ artifact[l][p].checkpoint_next_offset \in Nat /\ position[l][p] \in Nat
        /\ next[p] \in Nat
    BY <1>2, OffsetTypes, PollTypes, LoadAssumption DEF Offsets
  <2>2. CASE o < position[l][p]
    <3>1. Covered(l, p, position[l][p])
      BY <1>1, <1>2 DEF CatchUpOK, PositionCovered, CatchingUp
    <3>2. o \in artifact[l][p].checkpoint_next_offset .. position[l][p] - 1
      BY <2>1, <2>2
    <3>3. QED
      BY <1>1, <3>1, <3>2 DEF Covered
  <2>3. CASE o >= position[l][p]
    <3>1. o \in position[l][p] .. next[p] - 1
      BY <2>1, <2>3
    <3>2. <<p, o>> \in Messages(position[l], next)
      BY <3>1 DEF Messages
    <3>3. QED
      BY <1>1, <3>2
  <2>4. QED
    BY <2>1, <2>2, <2>3
<1>5. PositionCovered(l)'
  <2>1. next \in [Partitions -> Offsets]
    BY <1>2, PollTypes
  <2>2. \A p \in DOMAIN batch'[l] : p \in Partitions /\ batch'[l][p] = next[p]
    BY <1>1, <2>1 DEF BuildCommitCheckpoint
  <2>3. QED
    BY <1>1, <1>4, <2>2 DEF PositionCovered, Covered
<1>6. CutoverCovered(l)'
  <2>1. published[l] = {}
    BY <1>1, <1>2, NotYetPublished DEF Cutover, Ended
  <2>2. QED
    BY <1>1, <1>2, <2>1 DEF CutoverCovered, Cutover
<1>7. QED
  BY <1>3, <1>5, <1>6 DEF CatchUpOK

LEMMA PollErrorCovers ==
  ASSUME CatchUpInv, NEW l \in Loads,
         CommitFails(l) \/ \E next \in Polls(l) : PollOrApplyFails(l, next)
  PROVE  CatchUpOK(l)'
<1>1. /\ pc[l] \in {"poll", "commit"} /\ pc'[l] = "return" /\ artifact' = artifact
      /\ broker' = broker /\ directory' = directory /\ realtime[l] \subseteq realtime'[l]
  BY DEF CommitFails, PollOrApplyFails, MarkPollError, Finish, Goto, CatchUpInv,
     LoadInv, TypeOK
<1>2. /\ LoadInv /\ published' = published /\ committed' = committed /\ owner' = owner
      /\ UsesKafkaRealtime' = UsesKafkaRealtime
  BY <1>1 DEF CatchUpInv, directory, broker
<1>3. published[l] = {}
  BY <1>1, <1>2, NotYetPublished DEF Cutover, Ended
<1>4. QED
  BY <1>1, <1>2, <1>3, CatchUpFrame DEF CatchingUp, Cutover

LEMMA CommitCovers ==
  ASSUME CatchUpInv, NEW l \in Loads, Commit(l) PROVE CatchUpOK(l)'
<1>1. /\ pc[l] = "commit" /\ pc'[l] = "capture" /\ artifact' = artifact
      /\ directory' = directory /\ realtime' = realtime /\ owner' = owner
      /\ position' = position
      /\ \A p \in Partitions :
           committed'[p] = IF p \in DOMAIN batch[l] THEN batch[l][p] ELSE committed[p]
  BY DEF Commit, Goto, CatchUpInv, LoadInv, TypeOK
<1>2. /\ LoadInv /\ artifact[l] \in Artifacts /\ CatchUpOK(l) /\ published' = published
  BY <1>1 DEF CatchUpInv, LoadInv, LoadOK, Begun, directory
<1>3. CommitCovered(l)'
  BY <1>1, <1>2 DEF CatchUpOK, CommitCovered, PositionCovered, Covered
<1>4. OwnerRuns(l)' /\ PositionCovered(l)'
  BY <1>1, <1>2 DEF CatchUpOK, OwnerRuns, PositionCovered, Covered, CatchingUp
<1>5. CutoverCovered(l)'
  <2>1. published[l] = {}
    BY <1>1, <1>2, NotYetPublished DEF Cutover, Ended
  <2>2. QED
    BY <1>1, <1>2, <2>1 DEF CutoverCovered, Cutover
<1>6. QED
  BY <1>3, <1>4, <1>5 DEF CatchUpOK

LEMMA WorkerReturnsCovers ==
  ASSUME CatchUpInv, NEW l \in Loads, WorkerReturns(l) PROVE CatchUpOK(l)'
<1>1. /\ pc[l] = "return" /\ pc'[l] = "done" /\ artifact' = artifact /\ state' = state
      /\ directory' = directory /\ catchUp' = catchUp /\ committed' = committed
      /\ \A p \in Partitions : owner'[p] = IF owner[p] = l THEN NoLoad ELSE owner[p]
  BY DEF WorkerReturns, Goto, CatchUpInv, LoadInv, TypeOK
<1>2. /\ CatchUpOK(l) /\ published' = published /\ realtime' = realtime
      /\ UsesKafkaRealtime' = UsesKafkaRealtime /\ l # NoLoad
  BY <1>1 DEF CatchUpInv, directory, catchUp, Loads, NoLoad
<1>3. OwnerRuns(l)'
  BY <1>1, <1>2 DEF OwnerRuns
<1>4. CommitCovered(l)' /\ PositionCovered(l)' /\ CutoverCovered(l)'
  BY <1>1, <1>2 DEF CatchUpOK, CommitCovered, PositionCovered, CutoverCovered, Covered,
     CatchingUp, Cutover
<1>5. QED
  BY <1>3, <1>4 DEF CatchUpOK

(* The load starts with the group where it was. *)
LEMMA LoadAsyncCovers ==
  ASSUME FirstLoadOfGroup, CatchUpInv, NEW l \in Loads,
         LoadAsyncRejected \/ \E a \in Artifacts : LoadAsync(a)
  PROVE  CatchUpOK(l)'
<1>1. next_load_id = l
  BY DEF LoadAsyncRejected, LoadAsync, FirstLoadOfGroup, Loads
<1>2. /\ LoadInv /\ CatchUpOK(l) /\ pc[l] = "none" /\ published[l] = {}
      /\ committed = InitialCommitted
  BY <1>1, FreshEntry DEF CatchUpInv, CatchUpOK, CommitCovered
<1>3. /\ published' = published /\ realtime' = realtime /\ committed' = committed
      /\ owner' = owner
  BY DEF LoadAsyncRejected, LoadAsync, directory, broker, catchUp
<1>4. pc'[l] \in {"start", "done"}
  BY <1>1, <1>2 DEF LoadAsyncRejected, LoadAsync, LoadInv, TypeOK
<1>5. OwnerRuns(l)'
  BY <1>2, <1>3 DEF CatchUpOK, OwnerRuns
<1>6. CommitCovered(l)'
  <2>1. CASE artifact'[l] \in Artifacts /\ artifact'[l] # artifact[l]
    <3>1. ASSUME NEW p \in Partitions PROVE Covered(l, p, committed[p])'
      <4>1. /\ committed'[p] <= artifact'[l][p].checkpoint_next_offset
            /\ committed'[p] \in Int
        BY <1>2, <1>3, <2>1, OffsetTypes DEF FirstLoadOfGroup
      <4>2. artifact'[l][p].checkpoint_next_offset \in Nat
        BY <2>1, LoadAssumption
      <4>3. QED
        BY <4>1, <4>2 DEF Covered
    <3>2. QED
      BY <1>4, <3>1 DEF CommitCovered
  <2>2. CASE artifact'[l] = artifact[l] \/ artifact'[l] \notin Artifacts
    BY <1>2, <1>3, <1>4, <2>2 DEF CatchUpOK, CommitCovered, Covered
  <2>3. QED
    BY <2>1, <2>2
<1>7. PositionCovered(l)' /\ CutoverCovered(l)'
  BY <1>2, <1>3, <1>4 DEF PositionCovered, CutoverCovered, CatchingUp, Cutover
<1>8. QED
  BY <1>5, <1>6, <1>7 DEF CatchUpOK

LEMMA CatchUpKeeps ==
  ASSUME FirstLoadOfGroup PROVE CatchUpInv /\ [Next]_vars => CatchUpInv'
<1> SUFFICES ASSUME CatchUpInv, [Next]_vars PROVE CatchUpInv'
  OBVIOUS
<1>1. LoadInv'
  BY NextKeeps DEF CatchUpInv
<1>2. ASSUME NEW l \in Loads PROVE CatchUpOK(l)'
  <2>1. \A u \in Loads : u = l
    BY DEF FirstLoadOfGroup, Loads
  <2>2. CASE LoadAsyncRejected \/ \E a \in Artifacts : LoadAsync(a)
    BY <2>2, LoadAsyncCovers
  <2>3. CASE (\E u \in Loads : CancelLoad(u)) \/ Destroy \/ Join
    BY <2>3, CatchUpUnchanged DEF CancelLoad, Destroy, Join, broker
  <2>4. CASE Broker
    BY <2>1, <2>4, CatchUpUnchanged, RebalanceCovers DEF Broker, Produce
  <2>5. CASE Worker(l)
    <3>1. CASE \E assigned \in SUBSET Partitions : StartCatchUp(l, assigned)
      BY <3>1, StartCatchUpCovers
    <3>2. CASE \E next \in Polls(l) : PollAndApply(l, next)
      BY <3>2, PollAndApplyCovers
    <3>3. CASE CommitFails(l) \/ \E next \in Polls(l) : PollOrApplyFails(l, next)
      BY <3>3, PollErrorCovers
    <3>4. CASE CaptureSafeProgress(l) \/ Commit(l) \/ WorkerReturns(l)
      BY <3>4, CaptureCovers, CommitCovers, WorkerReturnsCovers
    <3>5. QED
      BY <1>1, <2>5, <3>1, <3>2, <3>3, <3>4, OutsideCatchUp DEF Worker
  <2>6. CASE UNCHANGED vars
    BY <2>6, CatchUpUnchanged DEF vars, broker
  <2>7. QED
    BY <2>1, <2>2, <2>3, <2>4, <2>5, <2>6 DEF Next, Client
<1>3. QED
  BY <1>1, <1>2 DEF CatchUpInv

(* For the first load of a group: every message that PollApplyCommitOnce   *)
(* lets the group skip from now on, beyond the checkpoint of the artifact, *)
(* was applied to the realtime shards of the load that owns the partition. *)
THEOREM CommittedApplied ==
  ASSUME FirstLoadOfGroup PROVE Spec => []CommittedIsApplied
<1>1. CatchUpInv => CommittedIsApplied
  <2> SUFFICES ASSUME CatchUpInv, NEW l \in Loads, NEW p \in Partitions, owner[p] = l
               PROVE  Covered(l, p, committed[p])
    BY DEF CommittedIsApplied, Covered
  <2>1. pc[l] \notin {"none", "done"} /\ LoadOK(l)
    BY DEF CatchUpInv, CatchUpOK, OwnerRuns, LoadInv
  <2>2. artifact[l] \in Artifacts
    BY <2>1 DEF LoadOK, Begun
  <2>3. QED
    BY <2>2 DEF CatchUpInv, CatchUpOK, CommitCovered
<1>2. Init => CatchUpInv
  BY InitCatchUpInv
<1>3. CatchUpInv /\ [Next]_vars => CatchUpInv'
  BY CatchUpKeeps
<1>4. QED
  BY <1>1, <1>2, <1>3, PTL DEF Spec

(* For the first load of a group: a load that has published a shard has    *)
(* replayed the log from its artifact's checkpoint to the safe position    *)
(* it reports, also when partitions are assigned after the seek or polls   *)
(* return them unevenly.                                                   *)
THEOREM CutoverCovers ==
  ASSUME FirstLoadOfGroup PROVE Spec => []CutoverCoversLog
<1>1. CatchUpInv => CutoverCoversLog
  BY DEF CatchUpInv, CatchUpOK, CutoverCovered, Covered, CutoverCoversLog
<1>2. Init => CatchUpInv
  BY InitCatchUpInv
<1>3. CatchUpInv /\ [Next]_vars => CatchUpInv'
  BY CatchUpKeeps
<1>4. QED
  BY <1>1, <1>2, <1>3, PTL DEF Spec

-----------------------------------------------------------------------------
(* What clients and lookups see of the loads. *)

ReportEntries ==
  [code : {"kUnknown", "kRunning", "kSucceeded", "kFailed", "kCancelled"},
   terminal : BOOLEAN, loaded : Nat, prewarmed : Nat, cutover : Nat]

(* The counters in the table are the worker's. *)
ReportOK(l) ==
  /\ stored[l].loaded = state[l].loaded /\ stored[l].prewarmed = state[l].prewarmed
  /\ pc[l] \in {"none", "start"} => state[l].loaded = 0 /\ state[l].prewarmed = 0

ReportInv == \A l \in Loads : ReportOK(l)

IsReported(t) == \/ t.code = "kRunning" /\ ~t.terminal
                 \/ t.code = "kCancelled" /\ t.terminal

SameCounters(s, t) ==
  s.loaded = t.loaded /\ s.prewarmed = t.prewarmed /\ s.cutover = t.cutover

LEMMA ReportFields ==
  ASSUME NEW t \in LoadStates
  PROVE  /\ Report(t) \in ReportEntries
         /\ Report(t).code = t.code /\ Report(t).terminal = t.terminal
         /\ SameCounters(Report(t), t)
BY LoadAssumption DEF Report, ReportEntries, LoadStates, SameCounters

LEMMA SameEntry ==
  ASSUME NEW r \in ReportEntries, NEW s \in ReportEntries,
         r.code = s.code, r.terminal = s.terminal, SameCounters(r, s)
  PROVE  r = s
BY DEF ReportEntries, SameCounters

LEMMA EndedEntry ==
  ASSUME NEW r \in ReportEntries, NEW e \in ReportEntries, NEW code,
         e.code = code, e.terminal = TRUE, SameCounters(e, r)
  PROVE  e = [r EXCEPT !.code = code, !.terminal = TRUE]
BY DEF ReportEntries, SameCounters

LEMMA RunningIsReported ==
  ASSUME LoadInv, NEW l \in Loads, pc[l] \notin {"none"} \cup Ended
  PROVE  /\ IsReported(stored[l]) /\ stored[l] \in LoadStates /\ state[l] \in LoadStates
         /\ stored[l].cutover = state[l].cutover
         /\ pc[l] # "start" => state[l].code = "kRunning" /\ ~state[l].terminal
BY DEF LoadInv, TypeOK, LoadOK, StoredFollowsState, CodeFollowsPc, IsReported

(* What a store of a running worker's state does to the report. *)
LEMMA MergedRunning ==
  ASSUME NEW t \in LoadStates, NEW s \in LoadStates, IsReported(t),
         s.code = "kRunning", ~s.terminal
  PROVE  /\ Merged(t, s) \in LoadStates /\ SameCounters(Merged(t, s), s)
         /\ Merged(t, s).code = t.code /\ Merged(t, s).terminal = t.terminal
<1>1. Merged(t, s) \in LoadStates
  BY StateTypes
<1>2. CASE t.code = "kCancelled" /\ t.terminal
  <2>1. Merged(t, s) = MarkCancelled(s)
    BY <1>2 DEF Merged
  <2>2. t.terminal = TRUE /\ Merged(t, s).terminal = TRUE
    <3>1. t.terminal \in BOOLEAN /\ Merged(t, s).terminal \in BOOLEAN
      BY <1>1 DEF LoadStates
    <3>2. t.terminal /\ Merged(t, s).terminal
      BY <1>2, <2>1, MarkedFields
    <3>3. QED
      BY <3>1, <3>2
  <2>3. QED
    BY <1>1, <1>2, <2>1, <2>2, MarkedFields DEF SameCounters
<1>3. CASE t.code = "kRunning" /\ ~t.terminal
  <2>1. Merged(t, s) = s
    BY <1>3 DEF Merged
  <2>2. t.terminal = FALSE /\ s.terminal = FALSE
    <3>1. t.terminal \in BOOLEAN /\ s.terminal \in BOOLEAN
      BY DEF LoadStates
    <3>2. QED
      BY <1>3, <3>1
  <2>3. QED
    BY <1>3, <2>1, <2>2 DEF SameCounters
<1>4. QED
  BY <1>2, <1>3 DEF IsReported

(* ... and what the last store of a worker does. *)
LEMMA MergedEnd ==
  ASSUME NEW t \in LoadStates, NEW s \in LoadStates, IsReported(t), s.terminal
  PROVE  /\ Merged(t, s) \in LoadStates /\ SameCounters(Merged(t, s), s)
         /\ Merged(t, s).terminal
         /\ Merged(t, s).code = IF t.code = "kRunning" THEN s.code ELSE "kCancelled"
<1>1. Merged(t, s) \in LoadStates
  BY StateTypes
<1>2. CASE t.code = "kCancelled" /\ t.terminal /\ s.code # "kCancelled"
  BY <1>1, <1>2, MarkedFields DEF Merged, SameCounters
<1>3. CASE ~(t.code = "kCancelled" /\ t.terminal /\ s.code # "kCancelled")
  <2>1. Merged(t, s) = s
    BY <1>3 DEF Merged
  <2>2. QED
    BY <1>1, <1>3, <2>1 DEF IsReported, SameCounters
<1>4. QED
  BY <1>2, <1>3

LEMMA StoredReport ==
  ASSUME LoadInv, NEW l \in Loads, NEW t, stored' = [stored EXCEPT ![l] = t]
  PROVE  /\ ReportView' = [ReportView EXCEPT ![l] = Report(t)]
         /\ ReportView[l] = Report(stored[l])
         /\ stored'[l] = t
<1>1. stored \in [Loads -> LoadStates]
  BY DEF LoadInv, TypeOK
<1>2. \A u \in Loads : stored'[u] = IF u = l THEN t ELSE stored[u]
  BY <1>1
<1>3. QED
  BY <1>2 DEF ReportView, Report

LEMMA SameReports ==
  ASSUME UNCHANGED <<stored, published>>
  PROVE  UNCHANGED Reports!vars
BY DEF Reports!vars, ReportView, Report

(* The last store of a worker: the outcome is reported, unless the client  *)
(* was told before that the load is cancelled.                             *)
LEMMA EndReports ==
  ASSUME LoadInv, ReportInv, NEW l \in Loads, pc[l] \notin {"none", "start"} \cup Ended,
         NEW s \in LoadStates, s.terminal, s.code \in {"kSucceeded", "kFailed", "kCancelled"},
         SameCounters(s, state[l]),
         s.code = "kFailed" => published[l] = 0 .. s.cutover - 1 /\ s.cutover < ShardCount,
         s.code = "kSucceeded" => s.cutover = ShardCount,
         StoreState(l, s), published' = published
  PROVE  [Reports!Next]_(Reports!vars)
<1> DEFINE t == stored[l]
<1>1. t \in LoadStates /\ IsReported(t) /\ SameCounters(s, t)
  BY RunningIsReported DEF ReportInv, ReportOK, SameCounters
<1>2. PICK m \in LoadStates :
        /\ m = Merged(t, s) /\ m.terminal /\ SameCounters(m, t)
        /\ m.code = IF t.code = "kRunning" THEN s.code ELSE "kCancelled"
  BY <1>1, MergedEnd DEF SameCounters
<1>3. PICK r \in ReportEntries : r = Report(t)
  BY <1>1, ReportFields
<1>4. PICK e \in ReportEntries : e = Report(m)
  BY <1>2, ReportFields
<1>5. ReportView' = [ReportView EXCEPT ![l] = e] /\ ReportView[l] = r
  BY <1>2, <1>3, <1>4, StoredReport DEF StoreState
<1>6. /\ e.code = m.code /\ r.code = t.code /\ e.terminal = TRUE /\ r.terminal = t.terminal
      /\ SameCounters(e, r) /\ r.cutover = s.cutover
  <2>1. e.terminal = m.terminal /\ SameCounters(e, m) /\ SameCounters(r, t)
        /\ e.code = m.code /\ r.code = t.code /\ r.terminal = t.terminal
    BY <1>1, <1>2, <1>3, <1>4, ReportFields
  <2>2. m.terminal = TRUE
    <3>1. m.terminal \in BOOLEAN
      BY DEF LoadStates
    <3>2. QED
      BY <1>2, <3>1
  <2>3. QED
    BY <1>1, <1>2, <2>1, <2>2 DEF SameCounters
<1>7. CASE t.code = "kRunning"
  <2>1. e = [r EXCEPT !.code = s.code, !.terminal = TRUE]
    <3>1. e.code = s.code /\ e.terminal = TRUE /\ SameCounters(e, r)
      BY <1>2, <1>6, <1>7
    <3>2. QED
      BY <3>1, EndedEntry, Zenon
  <2>2. ReportView' = [ReportView EXCEPT ![l] = [@ EXCEPT !.code = s.code, !.terminal = TRUE]]
    BY <1>5, <2>1
  <2>3. ReportView[l].code = "kRunning" /\ ReportView[l].cutover = s.cutover
    BY <1>5, <1>6, <1>7
  <2>4. Reports!End(l, s.code)
    BY <2>2, <2>3 DEF Reports!End
  <2>5. QED
    BY <2>4 DEF Reports!Next
<1>8. CASE t.code = "kCancelled" /\ t.terminal
  <2>1. e = r
    <3>1. t.terminal \in BOOLEAN
      BY <1>1 DEF LoadStates
    <3>2. r.terminal = TRUE
      BY <1>6, <1>8, <3>1
    <3>3. QED
      BY <1>2, <1>6, <1>8, <3>2, SameEntry
  <2>2. ReportView' = ReportView
    BY <1>5, <2>1 DEF ReportView
  <2>3. QED
    BY <2>2 DEF Reports!vars
<1>9. QED
  BY <1>1, <1>7, <1>8 DEF IsReported

(* A store of a worker that goes on: only the counters of the report move. *)
LEMMA RunReports ==
  ASSUME LoadInv, NEW l \in Loads, pc[l] \notin {"none"} \cup Ended,
         NEW s \in LoadStates, s.code = "kRunning", ~s.terminal,
         stored' = [stored EXCEPT ![l] = Merged(stored[l], s)]
  PROVE  \E r, e \in ReportEntries :
           /\ r = ReportView[l] /\ ReportView' = [ReportView EXCEPT ![l] = e]
           /\ e.code = r.code /\ e.terminal = r.terminal
           /\ SameCounters(e, s) /\ SameCounters(r, stored[l])
           /\ Reports!Active(l)
<1> DEFINE t == stored[l]
<1>1. t \in LoadStates /\ IsReported(t)
  BY RunningIsReported
<1>2. PICK m \in LoadStates : /\ m = Merged(t, s) /\ SameCounters(m, s)
                              /\ m.code = t.code /\ m.terminal = t.terminal
  BY <1>1, MergedRunning
<1>3. PICK r \in ReportEntries : r = Report(t)
  BY <1>1, ReportFields
<1>4. PICK e \in ReportEntries : e = Report(m)
  BY <1>2, ReportFields
<1>5. ReportView' = [ReportView EXCEPT ![l] = e] /\ ReportView[l] = r
  BY <1>2, <1>3, <1>4, StoredReport
<1>6. /\ e.terminal = m.terminal /\ SameCounters(e, m) /\ SameCounters(r, t)
      /\ e.code = m.code /\ r.code = t.code /\ r.terminal = t.terminal
  BY <1>1, <1>2, <1>3, <1>4, ReportFields
<1>7. Reports!Active(l)
  BY <1>1, <1>5, <1>6 DEF Reports!Active, IsReported
<1>8. SameCounters(e, s)
  BY <1>2, <1>6 DEF SameCounters
<1>9. QED
  BY <1>2, <1>5, <1>6, <1>7, <1>8

LEMMA MergedCounters ==
  ASSUME NEW t \in LoadStates, NEW s \in LoadStates
  PROVE  SameCounters(Merged(t, s), s)
BY MarkedFields DEF Merged, SameCounters

LEMMA ReportsKept ==
  ASSUME LoadInv, ReportInv, NEW l \in Loads, ReportOK(l)',
         \A u \in Loads \ {l} :
           pc'[u] = pc[u] /\ state'[u] = state[u] /\ stored'[u] = stored[u]
  PROVE  ReportInv'
BY DEF ReportInv, ReportOK

(* A worker that stores its state, or stores nothing. *)
LEMMA StoreKeepsReports ==
  ASSUME LoadInv, LoadInv', ReportInv, NEW l \in Loads, NEW label, Goto(l, label),
         label \notin {"none", "start"}, pc[l] \notin {"none", "start"} \/ label = "check_load",
         (\E s : StoreState(l, s)) \/ UNCHANGED <<state, stored>>
  PROVE  ReportInv'
<1>1. /\ stored \in [Loads -> LoadStates] /\ state \in [Loads -> LoadStates]
      /\ state' \in [Loads -> LoadStates] /\ pc \in [Loads -> Labels]
  BY DEF LoadInv, TypeOK
<1>2. pc' = [pc EXCEPT ![l] = label]
  BY DEF Goto
<1>3. ReportOK(l)
  BY DEF ReportInv
<1>4. CASE UNCHANGED <<state, stored>>
  BY <1>1, <1>2, <1>3, <1>4, ReportsKept DEF ReportOK
<1>5. CASE \E s : StoreState(l, s)
  <2>1. PICK s : /\ state' = [state EXCEPT ![l] = s]
                 /\ stored' = [stored EXCEPT ![l] = Merged(stored[l], s)]
    BY <1>5 DEF StoreState
  <2>2. s \in LoadStates /\ stored[l] \in LoadStates /\ state'[l] = s
        /\ stored'[l] = Merged(stored[l], s)
    BY <1>1, <2>1
  <2>3. ReportOK(l)'
    BY <1>1, <1>2, <2>2, MergedCounters DEF ReportOK, SameCounters
  <2>4. QED
    BY <1>1, <1>2, <2>1, <2>3, ReportsKept
<1>6. QED
  BY <1>4, <1>5

LEMMA WorkerReportInv ==
  ASSUME LoadInv, LoadInv', ReportInv, NEW l \in Loads, Worker(l)
  PROVE  ReportInv'
<1>1. CASE Start(l)
  BY <1>1, StoreKeepsReports DEF Start
<1>2. CASE CheckCancelled(l)
  <2>1. pc[l] \notin {"none", "start"} /\ Unless[pc[l]] \notin {"none", "start"}
    BY <1>2 DEF CheckCancelled, Unless
  <2>2. QED
    BY <1>2, <2>1, StoreKeepsReports DEF CheckCancelled, Finish
<1>3. CASE LoadShard(l)
  <2>1. PICK label \in {"check_load", "check_prewarm"} : Goto(l, label)
    BY <1>3 DEF LoadShard
  <2>2. pc[l] = "load" /\ \E s : StoreState(l, s)
    BY <1>3 DEF LoadShard
  <2>3. QED
    BY <2>1, <2>2, StoreKeepsReports
<1>4. CASE Prewarm(l)
  <2>1. PICK s, t, label :
          /\ s = [state[l] EXCEPT !.prewarmed = @ + 1]
          /\ t \in {s, [s EXCEPT !.source_progress = NoProgress]}
          /\ label \in {"check_prewarm", "start_catch_up", "check_publish"}
          /\ stored' = [stored EXCEPT ![l] = Merged(stored[l], s)]
          /\ state' = [state EXCEPT ![l] = t] /\ pc' = [pc EXCEPT ![l] = label]
          /\ pc[l] = "prewarm"
    <3>1. \E label \in {"check_prewarm", "start_catch_up", "check_publish"} :
            pc' = [pc EXCEPT ![l] = label]
      BY <1>4 DEF Prewarm, Goto
    <3>2. QED
      BY <1>4, <3>1 DEF Prewarm
  <2>2. /\ stored \in [Loads -> LoadStates] /\ state \in [Loads -> LoadStates]
        /\ stored[l] \in LoadStates /\ state[l] \in LoadStates /\ pc \in [Loads -> Labels]
        /\ state[l].prewarmed < ShardCount /\ state[l].prewarmed \in Nat
    BY <2>1, LoadAssumption DEF LoadInv, TypeOK, LoadOK, CountersFollowPc, LoadStates
  <2>3. s \in LoadStates
    <3>1. state[l].prewarmed + 1 \in 0 .. ShardCount
      BY <2>2, LoadAssumption
    <3>2. QED
      BY <2>1, <2>2, <3>1 DEF LoadStates
  <2>4. t.loaded = s.loaded /\ t.prewarmed = s.prewarmed
    BY <2>1, <2>3 DEF LoadStates
  <2>5. stored'[l] = Merged(stored[l], s) /\ state'[l] = t /\ pc'[l] = label
    BY <2>1, <2>2
  <2>6. ReportOK(l)'
    BY <2>1, <2>2, <2>3, <2>4, <2>5, MergedCounters DEF ReportOK, SameCounters
  <2>7. QED
    BY <2>1, <2>2, <2>6, ReportsKept
<1>5. CASE WorkFails(l) \/ PublishRefused(l)
  BY <1>5, StoreKeepsReports DEF WorkFails, PublishRefused, Fail, Finish
<1>6. CASE CaptureSafeProgress(l)
  <2>1. PICK label \in {"return", "check_poll", "check_publish"} : Goto(l, label)
    BY <1>6 DEF CaptureSafeProgress, Fail, Finish
  <2>2. pc[l] = "capture" /\ \E s : StoreState(l, s)
    BY <1>6 DEF CaptureSafeProgress, Fail, Finish
  <2>3. QED
    BY <2>1, <2>2, StoreKeepsReports
<1>7. CASE CommitFails(l) \/ \E next \in Polls(l) : PollOrApplyFails(l, next)
  BY <1>7, StoreKeepsReports DEF CommitFails, PollOrApplyFails, MarkPollError, Finish
<1>8. CASE StoreCutover(l)
  <2>1. PICK label \in {"check_publish", "succeed"} : Goto(l, label)
    BY <1>8 DEF StoreCutover
  <2>2. pc[l] = "store_cutover" /\ \E s : StoreState(l, s)
    BY <1>8 DEF StoreCutover
  <2>3. QED
    BY <2>1, <2>2, StoreKeepsReports
<1>9. CASE Succeed(l)
  BY <1>9, StoreKeepsReports DEF Succeed, Finish
<1>10. CASE \/ \E assigned \in SUBSET Partitions : StartCatchUp(l, assigned)
            \/ \E next \in Polls(l) : PollAndApply(l, next)
            \/ Commit(l) \/ PublishShard(l) \/ WorkerReturns(l)
  <2>1. PICK label \in {"check_capture", "capture", "commit", "store_cutover", "done"} : Goto(l, label)
    BY <1>10 DEF StartCatchUp, PollAndApply, Commit, PublishShard, WorkerReturns
  <2>2. pc[l] \in {"start_catch_up", "poll", "commit", "publish", "return"}
        /\ UNCHANGED <<state, stored>>
    BY <1>10 DEF StartCatchUp, PollAndApply, Commit, PublishShard, WorkerReturns
  <2>3. QED
    BY <2>1, <2>2, StoreKeepsReports
<1>11. QED
  BY <1>1, <1>2, <1>3, <1>4, <1>5, <1>6, <1>7, <1>8, <1>9, <1>10 DEF Worker

LEMMA CountedEntry ==
  ASSUME NEW r \in ReportEntries, NEW e \in ReportEntries,
         e.code = r.code, e.terminal = r.terminal
  PROVE  /\ e.loaded = r.loaded + 1 /\ e.prewarmed = r.prewarmed /\ e.cutover = r.cutover =>
              e = [r EXCEPT !.loaded = @ + 1]
         /\ e.loaded = r.loaded /\ e.prewarmed = r.prewarmed + 1 /\ e.cutover = r.cutover =>
              e = [r EXCEPT !.prewarmed = @ + 1]
         /\ e.loaded = r.loaded /\ e.prewarmed = r.prewarmed /\ e.cutover = r.cutover + 1 =>
              e = [r EXCEPT !.cutover = @ + 1]
BY DEF ReportEntries

(* What is known of a worker that stores while it runs. *)
LEMMA RunningStore ==
  ASSUME LoadInv, ReportInv, NEW l \in Loads, pc[l] \notin {"none"} \cup Ended,
         NEW s \in LoadStates, s.code = "kRunning", ~s.terminal,
         stored' = [stored EXCEPT ![l] = Merged(stored[l], s)]
  PROVE  \E r, e \in ReportEntries :
           /\ r = ReportView[l] /\ ReportView' = [ReportView EXCEPT ![l] = e]
           /\ e.code = r.code /\ e.terminal = r.terminal
           /\ SameCounters(e, s) /\ SameCounters(r, state[l])
           /\ Reports!Active(l)
<1>1. SameCounters(stored[l], state[l])
  BY RunningIsReported DEF ReportInv, ReportOK, SameCounters
<1>2. PICK r, e \in ReportEntries :
           /\ r = ReportView[l] /\ ReportView' = [ReportView EXCEPT ![l] = e]
           /\ e.code = r.code /\ e.terminal = r.terminal
           /\ SameCounters(e, s) /\ SameCounters(r, stored[l])
           /\ Reports!Active(l)
  BY RunReports
<1>3. SameCounters(r, state[l])
  BY <1>1, <1>2 DEF SameCounters
<1>4. QED
  BY <1>2, <1>3

LEMMA StoreOnly ==
  ASSUME LoadInv, ReportInv, NEW l \in Loads, pc[l] \notin {"none"} \cup Ended,
         NEW s \in LoadStates, s.code = "kRunning", ~s.terminal, SameCounters(s, state[l]),
         stored' = [stored EXCEPT ![l] = Merged(stored[l], s)], published' = published
  PROVE  UNCHANGED Reports!vars
<1>1. PICK r, e \in ReportEntries :
           /\ r = ReportView[l] /\ ReportView' = [ReportView EXCEPT ![l] = e]
           /\ e.code = r.code /\ e.terminal = r.terminal
           /\ SameCounters(e, s) /\ SameCounters(r, state[l])
  BY RunningStore
<1>2. SameCounters(e, r)
  BY <1>1 DEF SameCounters
<1>3. e = r
  BY <1>1, <1>2, SameEntry
<1>4. ReportView' = ReportView
  BY <1>1, <1>3 DEF ReportView
<1>5. QED
  BY <1>4 DEF Reports!vars

LEMMA StartReports ==
  ASSUME LoadInv, ReportInv, NEW l \in Loads, Start(l)
  PROVE  UNCHANGED Reports!vars
<1>1. /\ pc[l] = "start" /\ stored' = [stored EXCEPT ![l] = Merged(stored[l], NewState)]
      /\ published' = published
  BY DEF Start, StoreState, directory
<1>2. state[l].loaded = 0 /\ state[l].prewarmed = 0 /\ state[l].cutover = 0
  BY <1>1 DEF ReportInv, ReportOK, LoadInv, LoadOK, CountersFollowPc, Cutover, Ended
<1>3. /\ NewState.code = "kRunning" /\ ~NewState.terminal /\ SameCounters(NewState, state[l])
      /\ NewState \in LoadStates
  BY <1>2, StateTypes DEF NewState, SameCounters
<1>4. QED
  BY <1>1, <1>3, StoreOnly DEF Ended

(* Where a worker may fail: what it published is counted, and is not all. *)
MayFail == {"load", "prewarm", "publish"} \cup CatchUp

LEMMA CountedSoFar ==
  ASSUME LoadInv, NEW l \in Loads, pc[l] \in MayFail
  PROVE  /\ published[l] = 0 .. state[l].cutover - 1 /\ state[l].cutover < ShardCount
         /\ pc[l] \notin {"none", "start"} \cup Ended
BY LoadAssumption DEF LoadInv, LoadOK, CountersFollowPc, PublishedInOrder, Cutover, Ended,
   MayFail, CatchUp

LEMMA FailureReports ==
  ASSUME LoadInv, ReportInv, NEW l \in Loads, pc[l] \in MayFail,
         NEW s \in {MarkFailed(state[l]), MarkCancelled(state[l])},
         StoreState(l, s), published' = published
  PROVE  [Reports!Next]_(Reports!vars)
<1>1. state[l] \in LoadStates
  BY DEF LoadInv, TypeOK
<1>2. /\ s \in LoadStates /\ s.terminal /\ s.code \in {"kFailed", "kCancelled"}
      /\ SameCounters(s, state[l])
  BY <1>1, StateTypes, MarkedFields DEF SameCounters
<1>3. /\ published[l] = 0 .. s.cutover - 1 /\ s.cutover < ShardCount
      /\ pc[l] \notin {"none", "start"} \cup Ended
  BY <1>2, CountedSoFar DEF SameCounters
<1>4. QED
  BY <1>2, <1>3, EndReports

LEMMA CheckCancelledReports ==
  ASSUME LoadInv, ReportInv, NEW l \in Loads, CheckCancelled(l)
  PROVE  [Reports!Next]_(Reports!vars)
<1>1. published' = published
  BY DEF CheckCancelled, directory
<1>2. CASE UNCHANGED <<state, stored>>
  BY <1>1, <1>2, SameReports
<1>3. CASE Finish(l, MarkCancelled(state[l]))
  <2>1. state[l] \in LoadStates
    BY DEF LoadInv, TypeOK
  <2>2. /\ MarkCancelled(state[l]) \in LoadStates /\ MarkCancelled(state[l]).terminal
        /\ MarkCancelled(state[l]).code = "kCancelled"
        /\ SameCounters(MarkCancelled(state[l]), state[l])
    BY <2>1, StateTypes, MarkedFields DEF SameCounters
  <2>3. pc[l] \notin {"none", "start"} \cup Ended
    BY DEF CheckCancelled, Unless, Ended
  <2>4. StoreState(l, MarkCancelled(state[l]))
    BY <1>3 DEF Finish
  <2>5. QED
    BY <1>1, <2>2, <2>3, <2>4, EndReports
<1>4. QED
  BY <1>2, <1>3 DEF CheckCancelled

LEMMA LoadShardReports ==
  ASSUME LoadInv, LoadInv', ReportInv, NEW l \in Loads, LoadShard(l)
  PROVE  Reports!ShardLoaded(l)
<1> DEFINE q == IF state[l].loaded = 0 THEN BuildSafeProgress(artifact[l])
                 ELSE state[l].source_progress
           s == [state[l] EXCEPT !.loaded = @ + 1, !.source_progress = q]
<1>1. /\ state' = [state EXCEPT ![l] = s]
      /\ stored' = [stored EXCEPT ![l] = Merged(stored[l], s)]
  BY DEF LoadShard, StoreState
<1> HIDE DEF q
<1>2. pc[l] = "load" /\ published' = published
  BY DEF LoadShard, directory
<1>3. /\ state[l] \in LoadStates /\ s \in LoadStates
  BY <1>1 DEF LoadInv, TypeOK
<1>4. /\ state[l].code = "kRunning" /\ ~state[l].terminal /\ state[l].loaded < ShardCount
  BY <1>2 DEF LoadInv, LoadOK, CodeFollowsPc, CountersFollowPc, Ended
<1>5. /\ s.code = "kRunning" /\ s.loaded = state[l].loaded + 1
      /\ s.prewarmed = state[l].prewarmed /\ s.cutover = state[l].cutover
  BY <1>1, <1>3, <1>4 DEF LoadStates
<1>6. ~s.terminal
  BY <1>1, <1>3, <1>4 DEF LoadStates
<1>7. PICK r, e \in ReportEntries :
           /\ r = ReportView[l] /\ ReportView' = [ReportView EXCEPT ![l] = e]
           /\ e.code = r.code /\ e.terminal = r.terminal
           /\ SameCounters(e, s) /\ SameCounters(r, state[l])
           /\ Reports!Active(l)
  BY <1>1, <1>2, <1>3, <1>5, <1>6, RunningStore DEF Ended
<1>8. e = [r EXCEPT !.loaded = @ + 1]
  <2>1. e.loaded = r.loaded + 1 /\ e.prewarmed = r.prewarmed /\ e.cutover = r.cutover
    BY <1>5, <1>7 DEF SameCounters
  <2>2. QED
    BY <1>7, <2>1, CountedEntry
<1>9. ReportView[l].loaded < ShardCount
  BY <1>4, <1>7 DEF SameCounters
<1>10. QED
  BY <1>2, <1>7, <1>8, <1>9 DEF Reports!ShardLoaded

LEMMA PrewarmReports ==
  ASSUME LoadInv, ReportInv, NEW l \in Loads, Prewarm(l)
  PROVE  Reports!ShardPrewarmed(l)
<1> DEFINE s == [state[l] EXCEPT !.prewarmed = @ + 1]
<1>1. /\ stored' = [stored EXCEPT ![l] = Merged(stored[l], s)]
      /\ pc[l] = "prewarm" /\ published' = published
  BY DEF Prewarm, directory
<1>2. state[l] \in LoadStates
  BY DEF LoadInv, TypeOK
<1>3. /\ state[l].code = "kRunning" /\ ~state[l].terminal
      /\ state[l].loaded = ShardCount /\ state[l].prewarmed < ShardCount
  BY <1>1 DEF LoadInv, LoadOK, CodeFollowsPc, CountersFollowPc, Ended
<1>4. s \in LoadStates
  <2>1. state[l].prewarmed + 1 \in 0 .. ShardCount
    BY <1>2, <1>3, LoadAssumption DEF LoadStates
  <2>2. QED
    BY <1>2, <2>1 DEF LoadStates
<1>5. /\ s.code = "kRunning" /\ s.prewarmed = state[l].prewarmed + 1
      /\ s.loaded = state[l].loaded /\ s.cutover = state[l].cutover
  BY <1>2, <1>3 DEF LoadStates
<1>6. ~s.terminal
  BY <1>2, <1>3 DEF LoadStates
<1> HIDE DEF s
<1>7. PICK r, e \in ReportEntries :
           /\ r = ReportView[l] /\ ReportView' = [ReportView EXCEPT ![l] = e]
           /\ e.code = r.code /\ e.terminal = r.terminal
           /\ SameCounters(e, s) /\ SameCounters(r, state[l])
           /\ Reports!Active(l)
  BY <1>1, <1>4, <1>5, <1>6, RunningStore DEF Ended
<1>8. e = [r EXCEPT !.prewarmed = @ + 1]
  <2>1. e.loaded = r.loaded /\ e.prewarmed = r.prewarmed + 1 /\ e.cutover = r.cutover
    BY <1>5, <1>7 DEF SameCounters
  <2>2. QED
    BY <1>7, <2>1, CountedEntry
<1>9. ReportView[l].loaded = ShardCount /\ ReportView[l].prewarmed < ShardCount
  BY <1>3, <1>7 DEF SameCounters
<1>10. QED
  BY <1>1, <1>7, <1>8, <1>9 DEF Reports!ShardPrewarmed

LEMMA StoreCutoverReports ==
  ASSUME LoadInv, ReportInv, NEW l \in Loads, StoreCutover(l)
  PROVE  Reports!ShardReported(l)
<1> DEFINE s == [state[l] EXCEPT !.cutover = @ + 1]
<1>1. /\ stored' = [stored EXCEPT ![l] = Merged(stored[l], s)]
      /\ pc[l] = "store_cutover" /\ published' = published
  BY DEF StoreCutover, StoreState, directory
<1>2. state[l] \in LoadStates
  BY DEF LoadInv, TypeOK
<1>3. /\ state[l].code = "kRunning" /\ ~state[l].terminal /\ state[l].cutover < ShardCount
      /\ published[l] = 0 .. state[l].cutover
  BY <1>1 DEF LoadInv, LoadOK, CodeFollowsPc, CountersFollowPc, PublishedInOrder, Ended
<1>4. s \in LoadStates
  <2>1. state[l].cutover + 1 \in 0 .. ShardCount
    BY <1>2, <1>3, LoadAssumption DEF LoadStates
  <2>2. QED
    BY <1>2, <2>1 DEF LoadStates
<1>5. /\ s.code = "kRunning" /\ s.cutover = state[l].cutover + 1
      /\ s.loaded = state[l].loaded /\ s.prewarmed = state[l].prewarmed
  BY <1>2, <1>3 DEF LoadStates
<1>6. ~s.terminal
  BY <1>2, <1>3 DEF LoadStates
<1> HIDE DEF s
<1>7. PICK r, e \in ReportEntries :
           /\ r = ReportView[l] /\ ReportView' = [ReportView EXCEPT ![l] = e]
           /\ e.code = r.code /\ e.terminal = r.terminal
           /\ SameCounters(e, s) /\ SameCounters(r, state[l])
           /\ Reports!Active(l)
  BY <1>1, <1>4, <1>5, <1>6, RunningStore DEF Ended
<1>8. e = [r EXCEPT !.cutover = @ + 1]
  <2>1. e.loaded = r.loaded /\ e.prewarmed = r.prewarmed /\ e.cutover = r.cutover + 1
    BY <1>5, <1>7 DEF SameCounters
  <2>2. QED
    BY <1>7, <2>1, CountedEntry
<1>9. published[l] = 0 .. ReportView[l].cutover
  BY <1>3, <1>7 DEF SameCounters
<1>10. QED
  BY <1>1, <1>7, <1>8, <1>9 DEF Reports!ShardReported

LEMMA PublishReports ==
  ASSUME LoadInv, ReportInv, NEW l \in Loads, PublishShard(l)
  PROVE  Reports!ShardPublished(l)
<1>1. /\ pc[l] = "publish" /\ stored' = stored
      /\ published' = [published EXCEPT ![l] = @ \cup {state[l].cutover}]
  BY DEF PublishShard
<1>2. /\ state[l].loaded = ShardCount /\ state[l].prewarmed = ShardCount
      /\ state[l].cutover < ShardCount /\ published[l] = 0 .. state[l].cutover - 1
  BY <1>1 DEF LoadInv, LoadOK, CountersFollowPc, PublishedInOrder, CatchUp, Cutover
<1>3. /\ stored[l] \in LoadStates /\ IsReported(stored[l])
      /\ SameCounters(stored[l], state[l])
  BY <1>1, RunningIsReported DEF ReportInv, ReportOK, SameCounters, Ended
<1>4. PICK r \in ReportEntries : r = Report(stored[l])
  BY <1>3, ReportFields
<1>5. ReportView[l] = r /\ ReportView' = ReportView
  BY <1>1, <1>4 DEF ReportView, Report
<1>6. SameCounters(r, state[l]) /\ r.code = stored[l].code
  BY <1>3, <1>4, ReportFields DEF SameCounters
<1>7. r.code \in {"kRunning", "kCancelled"}
  BY <1>3, <1>6 DEF IsReported
<1>8. /\ r.loaded = ShardCount /\ r.prewarmed = ShardCount /\ r.cutover < ShardCount
      /\ r.cutover = state[l].cutover
  BY <1>2, <1>6 DEF SameCounters
<1>9. QED
  BY <1>1, <1>2, <1>5, <1>7, <1>8 DEF Reports!ShardPublished, Reports!Active

LEMMA CaptureReports ==
  ASSUME LoadInv, LoadInv', ReportInv, NEW l \in Loads, CaptureSafeProgress(l)
  PROVE  [Reports!Next]_(Reports!vars)
<1>1. pc[l] = "capture" /\ published' = published
  BY DEF CaptureSafeProgress, directory
<1>2. CASE Fail(l)
  BY <1>1, <1>2, FailureReports DEF Fail, Finish, MayFail, CatchUp
<1>3. ASSUME NEW q, StoreState(l, [state[l] EXCEPT !.source_progress = q])
      PROVE  UNCHANGED Reports!vars
  <2> DEFINE s == [state[l] EXCEPT !.source_progress = q]
  <2>1. /\ state' = [state EXCEPT ![l] = s]
        /\ stored' = [stored EXCEPT ![l] = Merged(stored[l], s)]
    BY <1>3 DEF StoreState
  <2>2. state[l] \in LoadStates /\ s \in LoadStates
    BY <2>1 DEF LoadInv, TypeOK
  <2>3. state[l].code = "kRunning" /\ ~state[l].terminal
    BY <1>1 DEF LoadInv, LoadOK, CodeFollowsPc, Ended
  <2>4. s.code = "kRunning" /\ SameCounters(s, state[l])
    BY <2>2, <2>3 DEF LoadStates, SameCounters
  <2>5. ~s.terminal
    BY <2>2, <2>3 DEF LoadStates
  <2> HIDE DEF s
  <2>6. QED
    BY <1>1, <2>1, <2>2, <2>4, <2>5, StoreOnly DEF Ended
<1>4. QED
  <2>1. CASE \E q : StoreState(l, [state[l] EXCEPT !.source_progress = q])
    BY <1>3, <2>1
  <2>2. QED
    BY <1>2, <2>1 DEF CaptureSafeProgress

LEMMA SucceedReports ==
  ASSUME LoadInv, LoadInv', ReportInv, NEW l \in Loads, Succeed(l)
  PROVE  [Reports!Next]_(Reports!vars)
<1> DEFINE s == [state[l] EXCEPT !.code = "kSucceeded", !.terminal = TRUE]
<1>1. pc[l] = "succeed" /\ published' = published /\ StoreState(l, s)
  BY DEF Succeed, Finish, directory
<1>2. state[l] \in LoadStates /\ s \in LoadStates
  <2>1. state[l] \in LoadStates
    BY DEF LoadInv, TypeOK
  <2>2. QED
    BY <2>1 DEF LoadStates
<1>3. s.terminal /\ s.code = "kSucceeded" /\ SameCounters(s, state[l])
  BY <1>2 DEF LoadStates, SameCounters
<1>4. state[l].cutover = ShardCount
  BY <1>1 DEF LoadInv, LoadOK, CountersFollowPc
<1> HIDE DEF s
<1>5. s.cutover = ShardCount
  BY <1>3, <1>4 DEF SameCounters
<1>6. QED
  BY <1>1, <1>2, <1>3, <1>5, EndReports DEF Ended

LEMMA WorkerReports ==
  ASSUME LoadInv, LoadInv', ReportInv, NEW l \in Loads, Worker(l)
  PROVE  [Reports!Next]_(Reports!vars)
<1>1. CASE Start(l)
  BY <1>1, StartReports
<1>2. CASE CheckCancelled(l)
  BY <1>2, CheckCancelledReports
<1>3. CASE LoadShard(l)
  BY <1>3, LoadShardReports DEF Reports!Next
<1>4. CASE Prewarm(l)
  BY <1>4, PrewarmReports DEF Reports!Next
<1>5. CASE WorkFails(l) \/ PublishRefused(l)
  <2>1. /\ pc[l] \in MayFail
        /\ StoreState(l, MarkFailed(state[l])) /\ published' = published
    BY <1>5 DEF WorkFails, PublishRefused, Fail, Finish, MayFail, CatchUp, directory
  <2>2. QED
    BY <2>1, FailureReports
<1>6. CASE CaptureSafeProgress(l)
  BY <1>6, CaptureReports
<1>7. CASE CommitFails(l) \/ \E next \in Polls(l) : PollOrApplyFails(l, next)
  <2>1. /\ pc[l] \in MayFail
        /\ published' = published /\ MarkPollError(l)
    BY <1>7 DEF CommitFails, PollOrApplyFails, MayFail, CatchUp, directory
  <2>2. \E s \in {MarkFailed(state[l]), MarkCancelled(state[l])} : StoreState(l, s)
    BY <2>1 DEF MarkPollError, Finish
  <2>3. QED
    BY <2>1, <2>2, FailureReports
<1>8. CASE PublishShard(l)
  BY <1>8, PublishReports DEF Reports!Next
<1>9. CASE StoreCutover(l)
  BY <1>9, StoreCutoverReports DEF Reports!Next
<1>10. CASE Succeed(l)
  BY <1>10, SucceedReports
<1>11. CASE \/ \E assigned \in SUBSET Partitions : StartCatchUp(l, assigned)
            \/ \E next \in Polls(l) : PollAndApply(l, next)
            \/ Commit(l) \/ WorkerReturns(l)
  <2>1. UNCHANGED <<stored, published>>
    BY <1>11 DEF StartCatchUp, PollAndApply, Commit, WorkerReturns, directory
  <2>2. QED
    BY <2>1, SameReports
<1>12. QED
  BY <1>1, <1>2, <1>3, <1>4, <1>5, <1>6, <1>7, <1>8, <1>9, <1>10, <1>11 DEF Worker

(* A load id that was not given out yet has an entry of a load nobody knows. *)
LEMMA FreshReport ==
  ASSUME LoadInv, ReportInv, next_load_id \in Loads
  PROVE  ReportView[next_load_id] = Reports!Unknown
<1> DEFINE t == stored[next_load_id]
<1>1. t \in LoadStates /\ t.code = "kUnknown" /\ t.terminal /\ pc[next_load_id] = "none"
  BY FreshEntry DEF LoadInv, TypeOK, LoadOK, StoredFollowsState
<1>2. t.loaded = 0 /\ t.prewarmed = 0 /\ t.cutover = 0
  BY <1>1 DEF ReportInv, ReportOK, LoadInv, LoadOK, StoredFollowsState, CountersFollowPc,
              Cutover, Ended
<1>3. t.terminal = TRUE
  <2>1. t.terminal \in BOOLEAN
    BY <1>1 DEF LoadStates
  <2>2. QED
    BY <1>1, <2>1
<1>4. Report(t) = Reports!Unknown
  BY <1>1, <1>2, <1>3 DEF Report, Reports!Unknown
<1>5. QED
  BY <1>4 DEF ReportView

LEMMA BegunReport == Report(NewState) = Reports!Running
<1>1. Reports!Running \in ReportEntries
  BY DEF Reports!Running, Reports!Unknown, ReportEntries
<1>2. /\ Reports!Running.code = "kRunning" /\ Reports!Running.terminal = FALSE
      /\ Reports!Running.loaded = 0 /\ Reports!Running.prewarmed = 0 /\ Reports!Running.cutover = 0
  BY DEF Reports!Running, Reports!Unknown
<1>3. Report(NewState) \in ReportEntries
  BY StateTypes, ReportFields
<1>4. /\ Report(NewState).code = "kRunning" /\ Report(NewState).terminal = FALSE
      /\ SameCounters(Report(NewState), Reports!Running)
  BY <1>2 DEF Report, NewState, SameCounters
<1>5. QED
  BY <1>1, <1>2, <1>3, <1>4, SameEntry

LEMMA RejectedReport ==
  Report(MarkFailed(NewState)) = [Reports!Unknown EXCEPT !.code = "kFailed"]
<1> DEFINE r == [Reports!Unknown EXCEPT !.code = "kFailed"]
           e == Report(MarkFailed(NewState))
<1>1. r \in ReportEntries
  BY DEF Reports!Unknown, ReportEntries
<1>2. /\ r.code = "kFailed" /\ r.terminal = TRUE
      /\ r.loaded = 0 /\ r.prewarmed = 0 /\ r.cutover = 0
  BY DEF Reports!Unknown
<1>3. e \in ReportEntries
  BY StateTypes, ReportFields
<1>4. e.code = "kFailed" /\ e.terminal = TRUE
  BY DEF Report, MarkFailed, NewState
<1>5. SameCounters(e, r)
  BY <1>2 DEF Report, MarkFailed, NewState, SameCounters
<1> HIDE DEF r, e
<1>6. e = r
  BY <1>1, <1>2, <1>3, <1>4, <1>5, SameEntry
<1>7. QED
  BY <1>6 DEF r, e

LEMMA ClientReports ==
  ASSUME LoadInv, ReportInv, Client
  PROVE  [Reports!Next]_(Reports!vars)
<1>1. CASE LoadAsyncRejected
  <2>1. /\ next_load_id \in Loads /\ published' = published
        /\ stored' = [stored EXCEPT ![next_load_id] = MarkFailed(NewState)]
    BY <1>1 DEF LoadAsyncRejected, directory
  <2>2. ReportView' = [ReportView EXCEPT ![next_load_id] = [Reports!Unknown EXCEPT !.code = "kFailed"]]
    BY <2>1, StoredReport, RejectedReport
  <2>3. Reports!Reject(next_load_id)
    BY <2>1, <2>2, FreshReport DEF Reports!Reject
  <2>4. QED
    BY <2>1, <2>3 DEF Reports!Next
<1>2. CASE \E a \in Artifacts : LoadAsync(a)
  <2>1. /\ next_load_id \in Loads /\ published' = published
        /\ stored' = [stored EXCEPT ![next_load_id] = NewState]
    BY <1>2 DEF LoadAsync, directory
  <2>2. ReportView' = [ReportView EXCEPT ![next_load_id] = Reports!Running]
    BY <2>1, StoredReport, BegunReport
  <2>3. Reports!Begin(next_load_id)
    BY <2>1, <2>2, FreshReport DEF Reports!Begin
  <2>4. QED
    BY <2>1, <2>3 DEF Reports!Next
<1>3. ASSUME NEW l \in Loads, CancelLoad(l)
      PROVE  Reports!End(l, "kCancelled")
  <2> DEFINE t == stored[l]
             m == MarkCancelled(t)
  <2>1. stored' = [stored EXCEPT ![l] = m] /\ published' = published /\ ~t.terminal
    BY <1>3 DEF CancelLoad, directory
  <2>2. t \in LoadStates /\ t.code = "kRunning"
    BY <2>1 DEF LoadInv, TypeOK, LoadOK, StoredFollowsState
  <2>3. m \in LoadStates /\ m.code = "kCancelled" /\ m.terminal /\ SameCounters(m, t)
    BY <2>2, StateTypes, MarkedFields DEF SameCounters
  <2> HIDE DEF m
  <2>4. PICK r \in ReportEntries : r = Report(t)
    BY <2>2, ReportFields
  <2>5. PICK e \in ReportEntries : e = Report(m)
    BY <2>3, ReportFields
  <2>6. ReportView' = [ReportView EXCEPT ![l] = e] /\ ReportView[l] = r
    BY <2>1, <2>4, <2>5, StoredReport
  <2>7. /\ e.code = "kCancelled" /\ r.code = "kRunning" /\ e.terminal = TRUE
        /\ SameCounters(e, r)
    <3>1. /\ e.code = m.code /\ r.code = t.code /\ e.terminal = m.terminal
          /\ SameCounters(e, m) /\ SameCounters(r, t)
      BY <2>2, <2>3, <2>4, <2>5, ReportFields
    <3>2. m.terminal \in BOOLEAN
      BY <2>3 DEF LoadStates
    <3>3. QED
      BY <2>2, <2>3, <3>1, <3>2 DEF SameCounters
  <2>8. e = [r EXCEPT !.code = "kCancelled", !.terminal = TRUE]
    BY <2>7, EndedEntry, Zenon
  <2>9. ReportView' = [ReportView EXCEPT ![l] = [@ EXCEPT !.code = "kCancelled", !.terminal = TRUE]]
    BY <2>6, <2>8
  <2>10. QED
    BY <2>1, <2>6, <2>7, <2>9 DEF Reports!End
<1>4. CASE Destroy \/ Join
  BY <1>4, SameReports DEF Destroy, Join, directory
<1>5. QED
  BY <1>1, <1>2, <1>3, <1>4 DEF Client, Reports!Next

LEMMA ClientReportInv ==
  ASSUME LoadInv, ReportInv, Client
  PROVE  ReportInv'
<1>1. /\ stored \in [Loads -> LoadStates] /\ state \in [Loads -> LoadStates]
      /\ pc \in [Loads -> Labels]
  BY DEF LoadInv, TypeOK
<1>2. ASSUME NEW s \in {NewState, MarkFailed(NewState)}, NEW label, state' = state,
             next_load_id \in Loads, pc' = [pc EXCEPT ![next_load_id] = label],
             stored' = [stored EXCEPT ![next_load_id] = s]
      PROVE  ReportInv'
  <2>1. s.loaded = 0 /\ s.prewarmed = 0
    BY <1>2, MarkedFields, StateTypes DEF NewState
  <2>2. pc[next_load_id] = "none"
    BY <1>2, FreshEntry
  <2>3. state[next_load_id].loaded = 0 /\ state[next_load_id].prewarmed = 0
    BY <1>2, <2>2 DEF ReportInv, ReportOK
  <2>4. QED
    BY <1>1, <1>2, <2>1, <2>3 DEF ReportInv, ReportOK
<1>3. CASE LoadAsyncRejected
  BY <1>2, <1>3 DEF LoadAsyncRejected
<1>4. CASE \E a \in Artifacts : LoadAsync(a)
  BY <1>2, <1>4 DEF LoadAsync
<1>5. ASSUME NEW l \in Loads, CancelLoad(l)
      PROVE  ReportInv'
  <2>1. stored' = [stored EXCEPT ![l] = MarkCancelled(stored[l])] /\ UNCHANGED <<pc, state>>
    BY <1>5 DEF CancelLoad
  <2>2. stored'[l] = MarkCancelled(stored[l]) /\ stored[l] \in LoadStates
    BY <1>1, <2>1
  <2>3. stored'[l].loaded = stored[l].loaded /\ stored'[l].prewarmed = stored[l].prewarmed
    BY <2>2, MarkedFields
  <2>4. ReportOK(l)'
    BY <2>1, <2>3 DEF ReportInv, ReportOK
  <2>5. QED
    BY <1>1, <2>1, <2>4, ReportsKept
<1>6. CASE Destroy \/ Join
  BY <1>6 DEF Destroy, Join, ReportInv, ReportOK
<1>7. QED
  BY <1>3, <1>4, <1>5, <1>6 DEF Client

LEMMA InitReports == Init => ReportInv /\ Reports!Init
<1> SUFFICES ASSUME Init PROVE ReportInv /\ Reports!Init
  OBVIOUS
<1>1. ReportInv
  BY DEF Init, ReportInv, ReportOK, UnknownState, NewState
<1>2. Report(UnknownState) = Reports!Unknown
  BY DEF Report, UnknownState, NewState, Reports!Unknown
<1>3. ReportView = [l \in Loads |-> Reports!Unknown]
  BY <1>2 DEF Init, ReportView
<1>4. QED
  BY <1>1, <1>3 DEF Init, Reports!Init

LEMMA NextReports ==
  LoadInv /\ LoadInv' /\ ReportInv /\ [Next]_vars =>
    ReportInv' /\ [Reports!Next]_(Reports!vars)
<1> SUFFICES ASSUME LoadInv, LoadInv', ReportInv, [Next]_vars
             PROVE  ReportInv' /\ [Reports!Next]_(Reports!vars)
  OBVIOUS
<1>1. CASE Client
  BY <1>1, ClientReports, ClientReportInv
<1>2. CASE \E l \in Loads : Worker(l)
  BY <1>2, WorkerReports, WorkerReportInv
<1>3. CASE Broker \/ UNCHANGED vars
  <2>1. UNCHANGED <<stored, state, pc, published>>
    BY <1>3 DEF Broker, Produce, Rebalance, directory, vars
  <2>2. ReportInv'
    BY <2>1 DEF ReportInv, ReportOK
  <2>3. QED
    BY <2>1, <2>2, SameReports
<1>4. QED
  BY <1>1, <1>2, <1>3 DEF Next

(* LoadAsync, CancelLoad, ~ForwardIndex and the workers together implement *)
(* the reports that LoadReports promises: whatever they interleave with,   *)
(* GetLoadState shows each load's life in order and with one outcome, a    *)
(* failed load has replaced no shard and a shard is counted right after    *)
(* it was published.                                                       *)
THEOREM LoadsAreReported == Spec => ImplementsLoadReports
<1>1. Init /\ [][Next]_vars /\ []LoadInv => Reports!Init /\ [][Reports!Next]_(Reports!vars)
  <2>1. Init => ReportInv /\ Reports!Init
    BY InitReports
  <2>2. LoadInv /\ LoadInv' /\ ReportInv /\ [Next]_vars =>
          ReportInv' /\ [Reports!Next]_(Reports!vars)
    BY NextReports
  <2>3. QED
    BY <2>1, <2>2, PTL
<1>2. QED
  BY <1>1, LoadInvariant, PTL DEF Spec, ImplementsLoadReports, Reports!Spec

==============================================================================
