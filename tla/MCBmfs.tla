------------------------------- MODULE MCBmfs --------------------------------
(***************************************************************************)
(* Bmfs with three names, a directory of three entries and images of three *)
(* to six blocks; sizes are numbers of base three below 64, with a K of   *)
(* four, so that products overflow as those of 64 bits do.                 *)
(***************************************************************************)
EXTENDS Bmfs, TLC

Symmetry == Permutations(Names) \cup Permutations(Contents)

Characters == {0, 1, 2, 4, 5, 9}   \* three digits, K, M and a letter that is no unit
MCSizeStrings == UNION {[1..n -> Characters] : n \in 0..4}
=============================================================================
