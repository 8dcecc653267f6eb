------------------------------ MODULE FileLock ------------------------------
(***************************************************************************)
(* The lock of one file: the FileEntry that s.table keeps under its name,  *)
(* a reader-writer lock made of a mutex, a condition variable and three    *)
(* counters (server_basics.go), and the handlers that use it:              *)
(*   writer     Close, Write, Create     AcquireWrite ... ReleaseWrite     *)
(*   reader     Open of an input file    AcquireReadNoPriority ...         *)
(*                                       ReleaseRead                       *)
(*   polite     AcquireRead, which waits for waiting writers too           *)
(*   deleter    Delete, which tries the lock and takes the entry out of    *)
(*              the table while it holds it                                *)
(* What a handler does under entry.mu, up to Unlock or Wait, is one step.  *)
(***************************************************************************)
EXTENDS Naturals, FiniteSets

CONSTANTS
    Thread,         \* handler goroutines; each serves call after call
    Kind,           \* what each of them does with the lock
    FileEntry,      \* FileEntry objects, those not allocated yet included
    None            \* no entry under the name

Kinds == {"writer", "reader", "polite", "deleter"}

ASSUME ThreadAssumption == /\ IsFiniteSet(Thread)
                           /\ Kind \in [Thread -> Kinds]
                           /\ None \notin FileEntry

VARIABLES
    table,          \* s.table[name], or None
    allocated,      \* the FileEntry objects that exist
    hasCond,        \* entry.cond is not nil
    activeReaders, activeWriter, waitingWriters,
    at,             \* where each handler is
    entry,          \* the handler's pointer to the entry it looked up
    dead            \* the process has panicked

lockVars == <<activeReaders, activeWriter, waitingWriters>>
tabVars  == <<table, allocated, hasCond>>
vars     == <<tabVars, lockVars, at, entry, dead>>

Places == {"idle", "found", "asleep", "woken", "holding", "removed"}
Holds  == {"holding", "removed"}

(* The table is empty, or a full sync has left an entry without a          *)
(* condition variable (getOrCreateFileMeta).                               *)
Init ==
    /\ \/ table = None /\ allocated = {}
       \/ \E e \in FileEntry : table = e /\ allocated = {e}
    /\ hasCond        = [e \in FileEntry |-> FALSE]
    /\ activeReaders  = [e \in FileEntry |-> 0]
    /\ activeWriter   = [e \in FileEntry |-> FALSE]
    /\ waitingWriters = [e \in FileEntry |-> 0]
    /\ at    = [t \in Thread |-> "idle"]
    /\ entry = [t \in Thread |-> None]
    /\ dead  = FALSE

CanRead(e)  == ~activeWriter[e] /\ waitingWriters[e] = 0

WriteOverReads(e) == ~activeWriter[e]       \* mutant: forgets the readers
CanWrite(e) == ~activeWriter[e] /\ activeReaders[e] = 0

(* The wait condition of each way to take the lock.                        *)
MayTake(t) == CASE Kind[t] = "writer" -> CanWrite(entry[t])
                [] Kind[t] = "polite" -> CanRead(entry[t])
                [] Kind[t] = "reader" -> ~activeWriter[entry[t]]
                [] OTHER -> FALSE

(* The counter of a writer that goes to sleep.                             *)
NotCounted(t)  == waitingWriters                \* mutant: no waitingWriters++
CountWaiter(t) == IF Kind[t] = "writer"
                  THEN [waitingWriters EXCEPT ![entry[t]] = @ + 1]
                  ELSE waitingWriters

(* cond.Broadcast: every handler asleep on the entry runs again.           *)
WakeNone(t) == [at EXCEPT ![t] = "idle"]        \* mutant: no Broadcast
WakeAll(t)  == [u \in Thread |->
                  IF u = t THEN "idle"
                  ELSE IF at[u] = "asleep" /\ entry[u] = entry[t] THEN "woken"
                  ELSE at[u]]

(* getFileEntry: the entry of the name, a new one if there is none; either *)
(* way it has a condition variable.  Bound: FileEntry.                     *)
GetFileEntry(t) ==
    /\ at[t] = "idle" /\ Kind[t] # "deleter" /\ ~dead
    /\ \E e \in FileEntry :
          /\ IF table = None THEN e \notin allocated ELSE e = table
          /\ table' = e /\ allocated' = allocated \cup {e}
          /\ hasCond' = [hasCond EXCEPT ![e] = TRUE]
          /\ entry' = [entry EXCEPT ![t] = e]
    /\ at' = [at EXCEPT ![t] = "found"]
    /\ UNCHANGED <<lockVars, dead>>

(* Acquire: the lock is taken, or the handler sleeps, a writer counted.    *)
Take(t) ==
    /\ IF Kind[t] = "writer"
       THEN /\ activeWriter' = [activeWriter EXCEPT ![entry[t]] = TRUE]
            /\ UNCHANGED activeReaders
       ELSE /\ activeReaders' = [activeReaders EXCEPT ![entry[t]] = @ + 1]
            /\ UNCHANGED activeWriter
    /\ at' = [at EXCEPT ![t] = "holding"]

Acquire(t) ==
    /\ at[t] = "found" /\ Kind[t] # "deleter" /\ ~dead
    /\ MayTake(t)
    /\ Take(t)
    /\ UNCHANGED <<tabVars, waitingWriters, entry, dead>>

Wait(t) ==
    /\ at[t] = "found" /\ Kind[t] # "deleter" /\ ~dead
    /\ ~MayTake(t)
    /\ waitingWriters' = CountWaiter(t)
    /\ at' = [at EXCEPT ![t] = "asleep"]
    /\ UNCHANGED <<tabVars, activeReaders, activeWriter, entry, dead>>

(* Wait has returned: the condition is tested again.                       *)
Retake(t) ==
    /\ at[t] = "woken" /\ ~dead
    /\ MayTake(t)
    /\ Take(t)
    /\ waitingWriters' = IF Kind[t] = "writer"
                         THEN [waitingWriters EXCEPT ![entry[t]] = @ - 1]
                         ELSE waitingWriters
    /\ UNCHANGED <<tabVars, entry, dead>>

WaitAgain(t) ==
    /\ at[t] = "woken" /\ ~dead
    /\ ~MayTake(t)
    /\ at' = [at EXCEPT ![t] = "asleep"]
    /\ UNCHANGED <<tabVars, lockVars, entry, dead>>

ReleaseRead(t) ==
    /\ at[t] = "holding" /\ Kind[t] \in {"reader", "polite"} /\ ~dead
    /\ activeReaders' = [activeReaders EXCEPT
                           ![entry[t]] = IF @ > 0 THEN @ - 1 ELSE @]
    /\ at' = WakeAll(t)
    /\ UNCHANGED <<tabVars, activeWriter, waitingWriters, entry, dead>>

ReleaseWrite(t) ==
    /\ at[t] = "holding" /\ Kind[t] = "writer" /\ ~dead
    /\ activeWriter' = [activeWriter EXCEPT ![entry[t]] = FALSE]
    /\ at' = WakeAll(t)
    /\ UNCHANGED <<tabVars, activeReaders, waitingWriters, entry, dead>>

-----------------------------------------------------------------------------
(* Delete reads the table under s.mu; without an entry it is done.         *)
FindForDelete(t) ==
    /\ at[t] = "idle" /\ Kind[t] = "deleter" /\ table # None /\ ~dead
    /\ entry' = [entry EXCEPT ![t] = table]
    /\ at' = [at EXCEPT ![t] = "found"]
    /\ UNCHANGED <<tabVars, lockVars, dead>>

(* "file is currently in use by another client", or the lock is taken as a *)
(* writer, waiting writers or not.                                         *)
InUse(e) == activeReaders[e] > 0 \/ activeWriter[e]

RefuseDelete(t) ==
    /\ at[t] = "found" /\ Kind[t] = "deleter" /\ ~dead
    /\ InUse(entry[t])
    /\ at' = [at EXCEPT ![t] = "idle"]
    /\ UNCHANGED <<tabVars, lockVars, entry, dead>>

LockForDelete(t) ==
    /\ at[t] = "found" /\ Kind[t] = "deleter" /\ ~dead
    /\ ~InUse(entry[t])
    /\ activeWriter' = [activeWriter EXCEPT ![entry[t]] = TRUE]
    /\ at' = [at EXCEPT ![t] = "holding"]
    /\ UNCHANGED <<tabVars, activeReaders, waitingWriters, entry, dead>>

(* The file is gone and so is the entry, under s.mu.                       *)
RemoveEntry(t) ==
    /\ at[t] = "holding" /\ Kind[t] = "deleter" /\ ~dead
    /\ table' = None
    /\ at' = [at EXCEPT ![t] = "removed"]
    /\ UNCHANGED <<allocated, hasCond, lockVars, entry, dead>>

(* The deferred release, also when os.Remove failed.  entry.cond is used   *)
(* as it is: nil, the Broadcast panics.                                    *)
ReleaseDelete(t) ==
    /\ at[t] \in Holds /\ Kind[t] = "deleter" /\ ~dead
    /\ activeWriter' = [activeWriter EXCEPT ![entry[t]] = FALSE]
    /\ at' = IF hasCond[entry[t]] THEN WakeAll(t) ELSE [at EXCEPT ![t] = "idle"]
    /\ dead' = ~hasCond[entry[t]]
    /\ UNCHANGED <<tabVars, activeReaders, waitingWriters, entry>>

-----------------------------------------------------------------------------
Lockers(t) == GetFileEntry(t) \/ FindForDelete(t)

Progress(t) == \/ Acquire(t) \/ Wait(t) \/ Retake(t) \/ WaitAgain(t)
               \/ ReleaseRead(t) \/ ReleaseWrite(t)
               \/ RefuseDelete(t) \/ LockForDelete(t)
               \/ RemoveEntry(t) \/ ReleaseDelete(t)

Next == \E t \in Thread : Lockers(t) \/ Progress(t)

Spec == Init /\ [][Next]_vars

(* A handler that has started runs on: the scheduler is fair to runnable   *)
(* goroutines.  New calls need not come.                                   *)
FairSpec == Spec /\ \A t \in Thread : WF_vars(Progress(t))

(***************************************************************************)
(* Properties                                                              *)
(***************************************************************************)
Readers(e) == {t \in Thread : /\ at[t] = "holding" /\ entry[t] = e
                              /\ Kind[t] \in {"reader", "polite"}}
Writers(e) == {t \in Thread : /\ at[t] \in Holds /\ entry[t] = e
                              /\ Kind[t] \in {"writer", "deleter"}}

(* The counters have their types, handlers past the lookup have an entry.  *)
TypeOK ==
    /\ table \in allocated \cup {None}
    /\ allocated \subseteq FileEntry
    /\ hasCond \in [FileEntry -> BOOLEAN]
    /\ activeReaders \in [FileEntry -> Nat]
    /\ activeWriter \in [FileEntry -> BOOLEAN]
    /\ waitingWriters \in [FileEntry -> Nat]
    /\ at \in [Thread -> Places]
    /\ entry \in [Thread -> FileEntry \cup {None}]
    /\ \A t \in Thread : at[t] # "idle" => entry[t] \in allocated
    /\ dead \in BOOLEAN

(* FileEntry is a reader-writer lock: the three counters, tested and set   *)
(* in separate critical sections, and Delete's own way in, never let a     *)
(* writer in with a reader or another writer.                              *)
Abstract == INSTANCE RWLock WITH
    Lock <- FileEntry,
    readers <- [e \in FileEntry |-> Readers(e)],
    writers <- [e \in FileEntry |-> Writers(e)]

IsRWLock == Abstract!Spec

(* A handler sleeps only while another will wake it: its entry is held, or *)
(* a woken writer the sleeping reader gives way to is about to run.        *)
NoLostWakeup ==
    ~dead => \A t \in Thread : at[t] = "asleep" =>
        \/ Readers(entry[t]) \cup Writers(entry[t]) # {}
        \/ \E u \in Thread : at[u] = "woken" /\ entry[u] = entry[t]

(* A handler that waits for a lock is not left waiting by a lock nobody    *)
(* takes: some handler holds the entry again, or the process has died.     *)
LockMoves ==
    \A e \in FileEntry :
        (\E t \in Thread : at[t] \in {"asleep", "woken"} /\ entry[t] = e)
            ~> (Readers(e) \cup Writers(e) # {} \/ dead)

(* Only one writer is allowed on a file: two handlers never hold write     *)
(* locks for the one name.                                                 *)
OneWriterPerName ==
    Cardinality({t \in Thread : at[t] = "holding" /\ Kind[t] = "writer"}) <= 1
=============================================================================
