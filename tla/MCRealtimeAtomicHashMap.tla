----------------------- MODULE MCRealtimeAtomicHashMap -----------------------
(***************************************************************************)
(* Instances of the hash map for TLC: all keys have the same hash, so      *)
(* that their probe sequences are the same.                                *)
(***************************************************************************)
EXTENDS RealtimeAtomicHashMap

SameHash == [k \in Keys |-> 7]

ThreeKeys == {0, 1, 2}

Row(k, partition, offset) ==
  [primary_key |-> k, partition |-> partition, offset |-> offset]

(* Key 0 has three rows of one partition, one of another partition and one *)
(* with an invalid position; key 2 finds a full map.                       *)
SomeRows ==
  {Row(0, 0, 0), Row(0, 0, 1), Row(0, 0, 2), Row(0, 1, 0), Row(0, 0, -1),
   Row(1, 0, 0), Row(2, 0, 0)}

=============================================================================
