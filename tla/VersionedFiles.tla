--------------------------- MODULE VersionedFiles ---------------------------
(***************************************************************************)
(* What dirty Close calls promise the clients, with no server in sight: a  *)
(* file has a version and a set of numbers.  A call is accepted only when  *)
(* the version is still the one its Open returned, acceptance raises the   *)
(* version, and the numbers of accepted calls are in the file, for good.   *)
(* A call that is refused promises nothing: its numbers may show or not.   *)
(***************************************************************************)
EXTENDS Naturals

CONSTANTS File, Request, FileOf

VARIABLES
    ver,        \* the version of each file
    seen,       \* the version the call's Open returned
    outcome,    \* what has become of the call
    stored      \* the numbers in each file, named by the calls they are from

vars == <<ver, seen, outcome, stored>>

Init ==
    /\ ver = [f \in File |-> 1]
    /\ seen = [r \in Request |-> 0]
    /\ outcome = [r \in Request |-> "none"]
    /\ stored = [f \in File |-> {}]

Accepted(f) == {r \in Request : FileOf[r] = f /\ outcome[r] = "accepted"}
Sent(f)     == {r \in Request : /\ FileOf[r] = f
                                /\ outcome[r] \in {"sent", "accepted", "refused"}}

Open(r) ==
    /\ outcome[r] = "none"
    /\ outcome' = [outcome EXCEPT ![r] = "open"]
    /\ seen' = [seen EXCEPT ![r] = ver[FileOf[r]]]
    /\ UNCHANGED <<ver, stored>>

Send(r) ==
    /\ outcome[r] = "open"
    /\ outcome' = [outcome EXCEPT ![r] = "sent"]
    /\ UNCHANGED <<ver, seen, stored>>

(* The file is rewritten: numbers of calls that were sent may come and go, *)
(* those of accepted calls stay.                                           *)
Rewrite(f, numbers) ==
    /\ Accepted(f) \subseteq numbers /\ numbers \subseteq Sent(f)
    /\ stored' = [stored EXCEPT ![f] = numbers]
    /\ UNCHANGED <<ver, seen, outcome>>

Accept(r) ==
    /\ outcome[r] = "sent" /\ seen[r] = ver[FileOf[r]]
    /\ r \in stored[FileOf[r]]
    /\ outcome' = [outcome EXCEPT ![r] = "accepted"]
    /\ ver' = [ver EXCEPT ![FileOf[r]] = @ + 1]
    /\ UNCHANGED <<seen, stored>>

Refuse(r) ==
    /\ outcome[r] = "sent"
    /\ outcome' = [outcome EXCEPT ![r] = "refused"]
    /\ UNCHANGED <<ver, seen, stored>>

Next == \/ \E r \in Request : Open(r) \/ Send(r) \/ Accept(r) \/ Refuse(r)
        \/ \E f \in File, numbers \in SUBSET Request : Rewrite(f, numbers)

Spec == Init /\ [][Next]_vars
=============================================================================
