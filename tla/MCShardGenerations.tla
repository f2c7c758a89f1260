-------------------------- MODULE MCShardGenerations --------------------------
(***************************************************************************)
(* Instances of the shard's generations for TLC.  Key "a" is in the first  *)
(* full snapshot, key "b" is not.                                          *)
(***************************************************************************)
EXTENDS ShardGenerations

TwoKeys == {"a", "b"}
OneKey == {"a"}
FirstKey == {"a"}
NoKeys == {}
OnePartition == {0}
TwoPartitions == {0, 1}

(* TLC checks the states in which the promise to lookups has ended, and    *)
(* does not go on from them.                                               *)
UntilDisturbed == ~replayed /\ ~loaded

===============================================================================
