------------------------------ MODULE MCWorkers ------------------------------
(* An instance of Workers for TLC: two programs, and two input files with   *)
(* one prime in common, tokens that do not parse (signed, or too large for  *)
(* a word), squares of primes, and composites that pass the test of base 2. *)
EXTENDS Workers, TLC

CONSTANTS c1, c2, in1, in2, out

MCProgramOf == c1 :> "client_1" @@ c2 :> "client_2"
MCInputOf   == c1 :> in1 @@ c2 :> in2
MCListing   == in1 :> {-7, 341, 361, 2039} \cup 0 .. 31
                 @@ in2 :> {561, 1105, 1387, 1729, 4099} \cup 2033 .. 2048
                 @@ out :> {}
MCNumber    == MCListing[in1] \cup MCListing[in2]
MCHomeOf    == [n \in MCNumber |-> out]
=============================================================================
