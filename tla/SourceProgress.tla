---------------------------- MODULE SourceProgress ----------------------------
(***************************************************************************)
(* Kafka source progress as the load worker computes with it               *)
(* (src/rebuild/async_load.cc, src/ingest/update_coordinator.cc).  A       *)
(* progress maps partitions to a committed next offset and a high          *)
(* watermark; `lag' is a function of the two and left out.                 *)
(***************************************************************************)
EXTENDS Integers

(* A progress without partitions, as in a default-constructed LoadState. *)
NoProgress == [p \in {} |-> 0]

(* BuildSafeProgress and PopulateSourceProgress: the artifact's own        *)
(* progress section, partition by partition.                               *)
BuildSafeProgress(artifact) ==
  [p \in DOMAIN artifact |->
     [committed_next_offset |-> artifact[p].checkpoint_next_offset,
      high_watermark |-> artifact[p].high_watermark]]

(* Mutant: done as soon as one partition has caught up. *)
CatchUpRequiredByAll(progress) ==
  \A p \in DOMAIN progress :
    progress[p].committed_next_offset < progress[p].high_watermark

CatchUpRequired(progress) ==
  \E p \in DOMAIN progress :
    progress[p].committed_next_offset < progress[p].high_watermark

(* FindProgress fails for a target partition that was not observed. *)
CoversTarget(target, observed) ==
  /\ DOMAIN target # {}
  /\ DOMAIN target \subseteq DOMAIN observed

(* Mutant: only the high watermark is refreshed. *)
UpdateObservedKeepsCommitted(target, observed) ==
  [p \in DOMAIN target |->
     [target[p] EXCEPT !.high_watermark =
        IF @ > observed[p].high_watermark THEN @ ELSE observed[p].high_watermark]]

UpdateObservedSafeProgress(target, observed) ==
  [p \in DOMAIN target |->
     [committed_next_offset |-> observed[p].committed_next_offset,
      high_watermark |->
        IF target[p].high_watermark > observed[p].high_watermark
          THEN target[p].high_watermark
          ELSE observed[p].high_watermark]]

(* Mutant: an offset too far. *)
BuildCommitCheckpointPastEnd(position, next) ==
  [p \in {q \in DOMAIN next : next[q] > position[q]} |-> next[p] + 1]

(* A batch that was polled from `position' up to `next' is committed at    *)
(* its largest offset plus one; a partition without messages is left out.  *)
BuildCommitCheckpoint(position, next) ==
  [p \in {q \in DOMAIN next : next[q] > position[q]} |-> next[p]]

===============================================================================
