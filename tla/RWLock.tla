------------------------------- MODULE RWLock -------------------------------
(***************************************************************************)
(* What a FileEntry promises the handlers that lock it: any number of      *)
(* readers or one writer.                                                  *)
(***************************************************************************)
EXTENDS FiniteSets

CONSTANTS Lock, Thread

VARIABLES readers, writers      \* who holds each lock

vars == <<readers, writers>>

Init == /\ readers = [l \in Lock |-> {}]
        /\ writers = [l \in Lock |-> {}]

StartRead(l, t) == /\ writers[l] = {} /\ t \notin readers[l]
                   /\ readers' = [readers EXCEPT ![l] = @ \cup {t}]
                   /\ UNCHANGED writers

EndRead(l, t) == /\ t \in readers[l]
                 /\ readers' = [readers EXCEPT ![l] = @ \ {t}]
                 /\ UNCHANGED writers

StartWrite(l, t) == /\ writers[l] = {} /\ readers[l] = {}
                    /\ writers' = [writers EXCEPT ![l] = {t}]
                    /\ UNCHANGED readers

EndWrite(l, t) == /\ writers[l] = {t}
                  /\ writers' = [writers EXCEPT ![l] = {}]
                  /\ UNCHANGED readers

Next == \E l \in Lock, t \in Thread : \/ StartRead(l, t)
                                      \/ EndRead(l, t)
                                      \/ StartWrite(l, t)
                                      \/ EndWrite(l, t)

Spec == Init /\ [][Next]_vars
=============================================================================
