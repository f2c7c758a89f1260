--------------------------- MODULE SourcePositions ---------------------------
(***************************************************************************)
(* Ordering of Kafka source positions (include/kv_index/types.h).  A       *)
(* position is any record with the fields partition and offset; an update  *)
(* row carries its position in these two fields.                           *)
(***************************************************************************)
EXTENDS Integers

(* A default-constructed position has partition -1 and offset -1. *)
IsValidSourcePosition(position) ==
  position.partition >= 0 /\ position.offset >= 0

(* The decision for replacing `current' by `candidate'; the two k...Error  *)
(* values stand for the InvalidArgument and FailedPrecondition statuses.   *)
ClassifySourcePositionUpdate(current, candidate) ==
  CASE ~(IsValidSourcePosition(current) /\ IsValidSourcePosition(candidate))
         -> "kInvalidError"
    [] /\ IsValidSourcePosition(current) /\ IsValidSourcePosition(candidate)
       /\ current.partition # candidate.partition
         -> "kPartitionError"
    [] OTHER -> IF candidate.offset < current.offset THEN "kStale"
                ELSE IF candidate.offset = current.offset THEN "kIdempotent"
                ELSE "kNewer"

IsNewer(current, candidate) ==
  ClassifySourcePositionUpdate(current, candidate) = "kNewer"

=============================================================================
