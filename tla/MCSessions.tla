----------------------------- MODULE MCSessions -----------------------------
(* Instances of Sessions for TLC. *)
EXTENDS Sessions, TLC

CONSTANTS c1, c2, f1, h1, h2

Symmetry == Permutations(Client) \cup Permutations(Handler)
=============================================================================
