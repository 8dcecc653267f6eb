--------------------------- MODULE MCReplication ---------------------------
(* Instances of Replication for TLC. *)
EXTENDS Replication, TLC

CONSTANTS s1, s2, s3, f1, f2, r1, r2, r3

OneFile    == [r \in Request |-> f1]
OwnFile    == [r \in Request |-> IF r = r1 THEN f1 ELSE f2]
OnePrimary == [r \in Request |-> s1]

Symmetry == Permutations(Server \ {s1}) \cup Permutations(Write)
              \cup Permutations(Request \ Write)
=============================================================================
