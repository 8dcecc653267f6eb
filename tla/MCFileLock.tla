----------------------------- MODULE MCFileLock -----------------------------
(* Instances of FileLock for TLC. *)
EXTENDS FileLock, TLC

CONSTANTS w1, w2, q1, q2, d1

MCKind == [t \in Thread |-> CASE t \in {w1, w2} -> "writer"
                              [] t = q1 -> "reader"
                              [] t = q2 -> "polite"
                              [] t = d1 -> "deleter"]
=============================================================================
