----------------------- MODULE MCFrozenPrimaryKeyIndex -----------------------
(***************************************************************************)
(* Instances of the frozen index for TLC: hash values of ten bits, whose   *)
(* lowest three bits are the home slot.                                    *)
(***************************************************************************)
EXTENDS FrozenPrimaryKeyIndex

ThreeKeys == 0 .. 2
EightKeys == 0 .. 7

(* Homes 6, 7, 6, 7, ...: the probe sequences meet and wrap around; the    *)
(* control bytes differ, except those of the keys 0 and 1.                 *)
WrappingHash == [k \in Keys |-> 8 * (IF k = 0 THEN 1 ELSE k) + 6 + (k % 2)]

=============================================================================
