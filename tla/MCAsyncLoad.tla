----------------------------- MODULE MCAsyncLoad -----------------------------
(***************************************************************************)
(* Instances of the load state machine for TLC.  An artifact is described  *)
(* by the checkpoint and the high watermark of its progress section, the   *)
(* same for every partition.                                               *)
(***************************************************************************)
EXTENDS AsyncLoad

CONSTANTS High,          \* log length of every partition at construction
          GroupOffset    \* what the group has committed, -1 for a new group

Section(checkpoint, high) ==
  [p \in Partitions |-> [checkpoint_next_offset |-> checkpoint,
                         high_watermark |-> high]]

SameHigh == [p \in Partitions |-> High]
SameCommitted == [p \in Partitions |-> GroupOffset]

NewGroup == -1

(* The log grew since the artifact was built, or its builder captured a    *)
(* high watermark beyond its own checkpoint.                               *)
BehindArtifacts == {Section(0, 0), Section(0, 1)}

(* Nothing was produced since the artifact was built. *)
CurrentArtifact == {Section(1, 1)}

==============================================================================
