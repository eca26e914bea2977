------------------------------ MODULE MCHistory ------------------------------
(* Three keys, one of them empty, in two shards; two goroutines.  2^31 is   *)
(* 4 here: the size 9 becomes 1, as 2^32 + 1 would.                         *)
EXTENDS History, TLC

CONSTANTS k1, k2, k3, c1, c2

MCKeys == {k1, k2, k3}
MCShard == [k \in MCKeys |-> IF k = k3 THEN 1 ELSE 0]
MCCallers == {c1, c2}
MCLone == {c1}
MCSizes == {1, 2, 9}
MCNarrow == {1, 2}
MCWide == {9}

Anonymous == Permutations(MCCallers)
=============================================================================
