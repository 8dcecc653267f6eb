---------------------------- MODULE MCClientCache ----------------------------
(* Instances of ClientCache for TLC: a number for each output file. *)
EXTENDS ClientCache, TLC

CONSTANTS c1, c2, f1, f2, n1, n2

MCHomeOf   == [n \in Number |-> IF n = n1 THEN f1 ELSE f2]
NoListing  == [f \in File |-> {}]
(* Swapping the files together with their numbers changes nothing.         *)
Swap       == f1 :> f2 @@ f2 :> f1 @@ n1 :> n2 @@ n2 :> n1
Symmetry   == Permutations(Client) \cup {Swap}
=============================================================================
