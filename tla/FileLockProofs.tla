--------------------------- MODULE FileLockProofs ---------------------------
(***************************************************************************)
(* FileLock implements RWLock, for any number of handlers and of FileEntry *)
(* objects.  The invariant ties the three counters to who holds and who    *)
(* waits.                                                                  *)
(***************************************************************************)
EXTENDS FileLock, FiniteSetTheorems, TLAPS

Waiters(e) == {t \in Thread : /\ at[t] \in {"asleep", "woken"} /\ entry[t] = e
                              /\ Kind[t] = "writer"}

Counted ==
    \A e \in FileEntry :
        /\ activeReaders[e] = Cardinality(Readers(e))
        /\ waitingWriters[e] = Cardinality(Waiters(e))

Excluded ==
    \A e \in FileEntry :
        /\ activeWriter[e] => Readers(e) = {} /\ \E t \in Thread : Writers(e) = {t}
        /\ ~activeWriter[e] => Writers(e) = {}

(* A deleter does not sleep, only a deleter removes.                       *)
PlacesMatch ==
    \A t \in Thread : /\ at[t] \in {"asleep", "woken"} => Kind[t] # "deleter"
                      /\ at[t] = "removed" => Kind[t] = "deleter"

LockInv == TypeOK /\ Counted /\ Excluded /\ PlacesMatch

LEMMA SetsFinite ==
    ASSUME NEW e
    PROVE  /\ IsFiniteSet(Readers(e)) /\ Cardinality(Readers(e)) \in Nat
           /\ IsFiniteSet(Waiters(e)) /\ Cardinality(Waiters(e)) \in Nat
<1>1. Readers(e) \subseteq Thread /\ Waiters(e) \subseteq Thread
    BY DEF Readers, Waiters
<1> QED
    BY <1>1, ThreadAssumption, FS_Subset, FS_CardinalityType

(* A step of t leaves the others where they are, but for waking some.      *)
OnlyMoves(t) ==
    /\ UNCHANGED entry
    /\ \A u \in Thread : \/ u = t
                         \/ at'[u] = at[u]
                         \/ at[u] = "asleep" /\ at'[u] = "woken"

LEMMA OthersStay ==
    ASSUME NEW t \in Thread, OnlyMoves(t), NEW e
    PROVE  /\ Readers(e)' \ {t} = Readers(e) \ {t}
           /\ Writers(e)' \ {t} = Writers(e) \ {t}
           /\ Waiters(e)' \ {t} = Waiters(e) \ {t}
BY DEF OnlyMoves, Readers, Writers, Waiters, Holds

LEMMA WakeMoves ==
    ASSUME TypeOK, NEW t \in Thread, UNCHANGED entry, at' = WakeAll(t)
    PROVE  /\ OnlyMoves(t) /\ at'[t] = "idle" /\ at' \in [Thread -> Places]
           /\ \A u \in Thread : at'[u] # "idle" => at[u] # "idle"
BY DEF WakeAll, OnlyMoves, TypeOK, Places

LEMMA MoveMoves ==
    ASSUME TypeOK, NEW t \in Thread, UNCHANGED entry, NEW to \in Places,
           at' = [at EXCEPT ![t] = to]
    PROVE  OnlyMoves(t) /\ at'[t] = to /\ at' \in [Thread -> Places]
BY DEF OnlyMoves, TypeOK

(* The sets of a step of t, on t's entry and on the others.                *)
LEMMA SetsStep ==
    ASSUME TypeOK, NEW t \in Thread, OnlyMoves(t), NEW e \in FileEntry
    PROVE  /\ Readers(e)' = IF /\ at'[t] = "holding" /\ entry[t] = e
                               /\ Kind[t] \in {"reader", "polite"}
                            THEN Readers(e) \cup {t} ELSE Readers(e) \ {t}
           /\ Writers(e)' = IF /\ at'[t] \in Holds /\ entry[t] = e
                               /\ Kind[t] \in {"writer", "deleter"}
                            THEN Writers(e) \cup {t} ELSE Writers(e) \ {t}
           /\ Waiters(e)' = IF /\ at'[t] \in {"asleep", "woken"} /\ entry[t] = e
                               /\ Kind[t] = "writer"
                            THEN Waiters(e) \cup {t} ELSE Waiters(e) \ {t}
BY OthersStay DEF OnlyMoves, Readers, Writers, Waiters

LEMMA AddOne ==
    ASSUME NEW S, IsFiniteSet(S), NEW t, t \notin S
    PROVE  Cardinality(S \cup {t}) = Cardinality(S) + 1
BY FS_AddElement

LEMMA DropOne ==
    ASSUME NEW S, IsFiniteSet(S), NEW t, t \in S
    PROVE  Cardinality(S \ {t}) = Cardinality(S) - 1 /\ Cardinality(S) > 0
<1>1. Cardinality(S) \in Nat /\ Cardinality(S \ {t}) \in Nat
    BY FS_CardinalityType, FS_RemoveElement
<1>2. Cardinality(S \ {t}) = Cardinality(S) - 1
    BY FS_RemoveElement
<1> QED
    BY <1>1, <1>2

(* The four steps of the abstract lock, and the step that is none of them. *)
LEMMA StartReadStep ==
    ASSUME LockInv, NEW t \in Thread, OnlyMoves(t),
           at[t] \in {"found", "woken"}, at'[t] = "holding",
           Kind[t] \in {"reader", "polite"}, ~activeWriter[entry[t]],
           activeReaders' = [activeReaders EXCEPT ![entry[t]] = @ + 1],
           UNCHANGED <<activeWriter, waitingWriters>>
    PROVE  Counted' /\ Excluded' /\ Abstract!Next
<1> DEFINE e0 == entry[t]
<1>1. /\ e0 \in FileEntry /\ activeReaders \in [FileEntry -> Nat]
      /\ \A e \in FileEntry : /\ t \notin Readers(e)
                              /\ t \notin Writers(e)
                              /\ t \notin Waiters(e)
    BY DEF LockInv, TypeOK, Readers, Writers, Waiters, Holds
<1>2. \A e \in FileEntry :
         /\ Readers(e)' = IF e = e0 THEN Readers(e) \cup {t} ELSE Readers(e)
         /\ Writers(e)' = Writers(e)
         /\ Waiters(e)' = Waiters(e)
    <2> SUFFICES ASSUME NEW e \in FileEntry
                 PROVE  /\ Readers(e)' = IF e = e0 THEN Readers(e) \cup {t} ELSE Readers(e)
                        /\ Writers(e)' = Writers(e)
                        /\ Waiters(e)' = Waiters(e)
        OBVIOUS
    <2>1. TypeOK
        BY DEF LockInv
    <2>2. /\ Readers(e) \ {t} = Readers(e) \/ t \in Readers(e)
          /\ Writers(e) \ {t} = Writers(e) \/ t \in Writers(e)
          /\ Waiters(e) \ {t} = Waiters(e) \/ t \in Waiters(e)
        OBVIOUS
    <2>3. Readers(e)' = IF e = e0 THEN Readers(e) \cup {t} ELSE Readers(e)
        BY <1>1, <2>1, <2>2, SetsStep
    <2>4. Writers(e)' = Writers(e)
        BY <1>1, <2>1, <2>2, SetsStep DEF Holds
    <2>5. Waiters(e)' = Waiters(e)
        BY <1>1, <2>1, <2>2, SetsStep
    <2> QED
        BY <2>3, <2>4, <2>5
<1>3. Writers(e0) = {}
    BY <1>1 DEF LockInv, Excluded
<1>4. Counted'
    <2> SUFFICES ASSUME NEW e \in FileEntry
                 PROVE  /\ activeReaders'[e] = Cardinality(Readers(e)')
                        /\ waitingWriters'[e] = Cardinality(Waiters(e)')
        BY DEF Counted
    <2>1. Cardinality(Readers(e0) \cup {t}) = Cardinality(Readers(e0)) + 1
        BY <1>1, AddOne, SetsFinite
    <2> QED
        BY <1>1, <1>2, <2>1 DEF LockInv, Counted
<1>5. Excluded'
    BY <1>1, <1>2, <1>3 DEF LockInv, Excluded
<1>6. Abstract!StartRead(e0, t)
    BY <1>1, <1>2, <1>3 DEF Abstract!StartRead
<1> QED
    BY <1>1, <1>4, <1>5, <1>6 DEF Abstract!Next

LEMMA EndReadStep ==
    ASSUME LockInv, NEW t \in Thread, OnlyMoves(t),
           at[t] = "holding", at'[t] = "idle", Kind[t] \in {"reader", "polite"},
           activeReaders' = [activeReaders EXCEPT
                               ![entry[t]] = IF @ > 0 THEN @ - 1 ELSE @],
           UNCHANGED <<activeWriter, waitingWriters>>
    PROVE  Counted' /\ Excluded' /\ Abstract!Next
<1> DEFINE e0 == entry[t]
<1>1. /\ e0 \in FileEntry /\ activeReaders \in [FileEntry -> Nat]
      /\ t \in Readers(e0)
      /\ \A e \in FileEntry : /\ e # e0 => t \notin Readers(e)
                              /\ t \notin Writers(e) /\ t \notin Waiters(e)
    BY DEF LockInv, TypeOK, Readers, Writers, Waiters, Holds
<1>2. \A e \in FileEntry :
         /\ Readers(e)' = IF e = e0 THEN Readers(e) \ {t} ELSE Readers(e)
         /\ Writers(e)' = Writers(e)
         /\ Waiters(e)' = Waiters(e)
    <2> SUFFICES ASSUME NEW e \in FileEntry
                 PROVE  /\ Readers(e)' = IF e = e0 THEN Readers(e) \ {t} ELSE Readers(e)
                        /\ Writers(e)' = Writers(e)
                        /\ Waiters(e)' = Waiters(e)
        OBVIOUS
    <2>1. TypeOK
        BY DEF LockInv
    <2>2. /\ Readers(e) \ {t} = Readers(e) \/ t \in Readers(e)
          /\ Writers(e) \ {t} = Writers(e) \/ t \in Writers(e)
          /\ Waiters(e) \ {t} = Waiters(e) \/ t \in Waiters(e)
        OBVIOUS
    <2>3. Readers(e)' = IF e = e0 THEN Readers(e) \ {t} ELSE Readers(e)
        BY <1>1, <2>1, <2>2, SetsStep
    <2>4. Writers(e)' = Writers(e)
        BY <1>1, <2>1, <2>2, SetsStep DEF Holds
    <2>5. Waiters(e)' = Waiters(e)
        BY <1>1, <2>1, <2>2, SetsStep
    <2> QED
        BY <2>3, <2>4, <2>5
<1>3. Writers(e0) = {}
    <2>1. ~activeWriter[e0]
        BY <1>1 DEF LockInv, Excluded
    <2> QED
        BY <1>1, <2>1 DEF LockInv, Excluded
<1>4. Counted'
    <2> SUFFICES ASSUME NEW e \in FileEntry
                 PROVE  /\ activeReaders'[e] = Cardinality(Readers(e)')
                        /\ waitingWriters'[e] = Cardinality(Waiters(e)')
        BY DEF Counted
    <2>1. /\ Cardinality(Readers(e0) \ {t}) = Cardinality(Readers(e0)) - 1
          /\ Cardinality(Readers(e0)) > 0
        BY <1>1, DropOne, SetsFinite
    <2> QED
        BY <1>1, <1>2, <2>1 DEF LockInv, Counted
<1>5. Excluded'
    BY <1>1, <1>2, <1>3 DEF LockInv, Excluded
<1>6. Abstract!EndRead(e0, t)
    BY <1>1, <1>2 DEF Abstract!EndRead
<1> QED
    BY <1>1, <1>4, <1>5, <1>6 DEF Abstract!Next

(* A writer takes the lock, one that waited (woken) or one that did not.   *)
LEMMA StartWriteStep ==
    ASSUME LockInv, NEW t \in Thread, OnlyMoves(t),
           at[t] \in {"found", "woken"}, at'[t] = "holding",
           Kind[t] \in {"writer", "deleter"},
           ~activeWriter[entry[t]], activeReaders[entry[t]] = 0,
           activeWriter' = [activeWriter EXCEPT ![entry[t]] = TRUE],
           UNCHANGED activeReaders,
           waitingWriters' = IF at[t] = "woken"
                             THEN [waitingWriters EXCEPT ![entry[t]] = @ - 1]
                             ELSE waitingWriters
    PROVE  Counted' /\ Excluded' /\ Abstract!Next
<1> DEFINE e0 == entry[t]
<1>1. /\ e0 \in FileEntry /\ activeWriter \in [FileEntry -> BOOLEAN]
      /\ waitingWriters \in [FileEntry -> Nat]
      /\ \A e \in FileEntry : t \notin Readers(e) /\ t \notin Writers(e)
      /\ \A e \in FileEntry : t \in Waiters(e) <=> e = e0 /\ at[t] = "woken"
    BY DEF LockInv, TypeOK, PlacesMatch, Readers, Writers, Waiters, Holds
<1>2. \A e \in FileEntry :
         /\ Readers(e)' = Readers(e)
         /\ Writers(e)' = IF e = e0 THEN Writers(e) \cup {t} ELSE Writers(e)
         /\ Waiters(e)' = Waiters(e) \ {t}
    <2> SUFFICES ASSUME NEW e \in FileEntry
                 PROVE  /\ Readers(e)' = Readers(e)
                        /\ Writers(e)' = IF e = e0 THEN Writers(e) \cup {t} ELSE Writers(e)
                        /\ Waiters(e)' = Waiters(e) \ {t}
        OBVIOUS
    <2>1. TypeOK
        BY DEF LockInv
    <2>2. /\ Readers(e) \ {t} = Readers(e) \/ t \in Readers(e)
          /\ Writers(e) \ {t} = Writers(e) \/ t \in Writers(e)
          /\ Waiters(e) \ {t} = Waiters(e) \/ t \in Waiters(e)
        OBVIOUS
    <2>3. Readers(e)' = Readers(e)
        BY <1>1, <2>1, <2>2, SetsStep
    <2>4. Writers(e)' = IF e = e0 THEN Writers(e) \cup {t} ELSE Writers(e)
        BY <1>1, <2>1, <2>2, SetsStep DEF Holds
    <2>5. Waiters(e)' = Waiters(e) \ {t}
        BY <1>1, <2>1, <2>2, SetsStep
    <2> QED
        BY <2>3, <2>4, <2>5
<1>3. Writers(e0) = {} /\ Readers(e0) = {}
    <2>1. Cardinality(Readers(e0)) = 0
        BY <1>1 DEF LockInv, Counted
    <2> QED
        BY <1>1, <2>1, SetsFinite, FS_EmptySet DEF LockInv, Excluded
<1>4. Counted'
    <2> SUFFICES ASSUME NEW e \in FileEntry
                 PROVE  /\ activeReaders'[e] = Cardinality(Readers(e)')
                        /\ waitingWriters'[e] = Cardinality(Waiters(e)')
        BY DEF Counted
    <2>1. CASE at[t] = "woken" /\ e = e0
        <3>1. Cardinality(Waiters(e) \ {t}) = Cardinality(Waiters(e)) - 1
            BY <1>1, <2>1, DropOne, SetsFinite
        <3> QED
            BY <1>1, <1>2, <2>1, <3>1 DEF LockInv, Counted
    <2>2. CASE ~(at[t] = "woken" /\ e = e0)
        <3>1. Waiters(e) \ {t} = Waiters(e)
            BY <1>1, <2>2
        <3> QED
            BY <1>1, <1>2, <2>2, <3>1 DEF LockInv, Counted
    <2> QED
        BY <2>1, <2>2
<1>5. Excluded'
    BY <1>1, <1>2, <1>3 DEF LockInv, Excluded
<1>6. Abstract!StartWrite(e0, t)
    BY <1>1, <1>2, <1>3 DEF Abstract!StartWrite
<1> QED
    BY <1>1, <1>4, <1>5, <1>6 DEF Abstract!Next

LEMMA EndWriteStep ==
    ASSUME LockInv, NEW t \in Thread, OnlyMoves(t),
           at[t] \in Holds, at'[t] = "idle", Kind[t] \in {"writer", "deleter"},
           activeWriter' = [activeWriter EXCEPT ![entry[t]] = FALSE],
           UNCHANGED <<activeReaders, waitingWriters>>
    PROVE  Counted' /\ Excluded' /\ Abstract!Next
<1> DEFINE e0 == entry[t]
<1>1. /\ e0 \in FileEntry /\ activeWriter \in [FileEntry -> BOOLEAN]
      /\ t \in Writers(e0)
      /\ \A e \in FileEntry : /\ e # e0 => t \notin Writers(e)
                              /\ t \notin Readers(e) /\ t \notin Waiters(e)
    BY DEF LockInv, TypeOK, Readers, Writers, Waiters, Holds
<1>2. \A e \in FileEntry :
         /\ Readers(e)' = Readers(e)
         /\ Writers(e)' = IF e = e0 THEN Writers(e) \ {t} ELSE Writers(e)
         /\ Waiters(e)' = Waiters(e)
    <2> SUFFICES ASSUME NEW e \in FileEntry
                 PROVE  /\ Readers(e)' = Readers(e)
                        /\ Writers(e)' = IF e = e0 THEN Writers(e) \ {t} ELSE Writers(e)
                        /\ Waiters(e)' = Waiters(e)
        OBVIOUS
    <2>1. TypeOK
        BY DEF LockInv
    <2>2. /\ Readers(e) \ {t} = Readers(e) \/ t \in Readers(e)
          /\ Writers(e) \ {t} = Writers(e) \/ t \in Writers(e)
          /\ Waiters(e) \ {t} = Waiters(e) \/ t \in Waiters(e)
        OBVIOUS
    <2>3. Readers(e)' = Readers(e)
        BY <1>1, <2>1, <2>2, SetsStep
    <2>4. Writers(e)' = IF e = e0 THEN Writers(e) \ {t} ELSE Writers(e)
        BY <1>1, <2>1, <2>2, SetsStep DEF Holds
    <2>5. Waiters(e)' = Waiters(e)
        BY <1>1, <2>1, <2>2, SetsStep
    <2> QED
        BY <2>3, <2>4, <2>5
<1>3. Writers(e0) = {t}
    <2>1. activeWriter[e0]
        BY <1>1 DEF LockInv, Excluded
    <2> QED
        BY <1>1, <2>1 DEF LockInv, Excluded
<1>4. Counted'
    BY <1>2 DEF LockInv, Counted
<1>5. Excluded'
    BY <1>1, <1>2, <1>3 DEF LockInv, Excluded
<1>6. Abstract!EndWrite(e0, t)
    BY <1>1, <1>2, <1>3 DEF Abstract!EndWrite
<1> QED
    BY <1>1, <1>4, <1>5, <1>6 DEF Abstract!Next

(* A step that gives no lock and takes none.                               *)
LEMMA NeutralStep ==
    ASSUME LockInv, UNCHANGED <<activeWriter, activeReaders>>,
           \A e \in FileEntry : /\ Readers(e)' = Readers(e)
                                /\ Writers(e)' = Writers(e)
                                /\ waitingWriters'[e] = Cardinality(Waiters(e)')
    PROVE  Counted' /\ Excluded' /\ UNCHANGED Abstract!vars
<1>1. Counted'
    BY DEF LockInv, Counted
<1>2. Excluded'
    BY DEF LockInv, Excluded
<1>3. UNCHANGED Abstract!vars
    BY DEF Abstract!vars
<1> QED
    BY <1>1, <1>2, <1>3

(* A step of t between two places that are no holding.                     *)
LEMMA ElsewhereStep ==
    ASSUME LockInv, NEW t \in Thread, OnlyMoves(t),
           at[t] \notin Holds, at'[t] \notin Holds,
           Kind[t] # "writer" \/ (at[t] \in {"asleep", "woken"}
                                  <=> at'[t] \in {"asleep", "woken"}),
           UNCHANGED lockVars
    PROVE  Counted' /\ Excluded' /\ UNCHANGED Abstract!vars
<1>1. TypeOK
    BY DEF LockInv
<1>2. ASSUME NEW e \in FileEntry
      PROVE  /\ t \notin Readers(e) /\ t \notin Writers(e)
             /\ Readers(e)' = Readers(e) \ {t} /\ Writers(e)' = Writers(e) \ {t}
    BY <1>1, SetsStep DEF Readers, Writers, Holds
<1>3. ASSUME NEW e \in FileEntry
      PROVE  Waiters(e)' = Waiters(e)
    BY DEF OnlyMoves, Waiters
<1>4. ASSUME NEW e \in FileEntry
      PROVE  /\ Readers(e)' = Readers(e) /\ Writers(e)' = Writers(e)
             /\ waitingWriters'[e] = Cardinality(Waiters(e)')
    BY <1>2, <1>3 DEF LockInv, Counted, lockVars
<1> QED
    BY <1>4, NeutralStep DEF lockVars

-----------------------------------------------------------------------------
LEMMA LockInit == Init => LockInv /\ Abstract!Init
<1> SUFFICES ASSUME Init PROVE LockInv /\ Abstract!Init
    OBVIOUS
<1>1. TypeOK
    BY DEF Init, TypeOK, Places
<1>2. \A e \in FileEntry : Readers(e) = {} /\ Writers(e) = {} /\ Waiters(e) = {}
    BY DEF Init, Readers, Writers, Waiters, Holds
<1>3. Counted /\ Excluded
    BY <1>2, FS_EmptySet DEF Init, Counted, Excluded
<1>4. PlacesMatch
    BY DEF Init, PlacesMatch
<1>5. Abstract!Init
    BY <1>2 DEF Abstract!Init
<1> QED
    BY <1>1, <1>3, <1>4, <1>5 DEF LockInv

(* A lookup changes the pointer of a handler that is nowhere near a lock.  *)
LEMMA LookupStep ==
    ASSUME LockInv, NEW t \in Thread, NEW e0 \in FileEntry,
           at[t] = "idle", at' = [at EXCEPT ![t] = "found"],
           entry' = [entry EXCEPT ![t] = e0], UNCHANGED lockVars
    PROVE  Counted' /\ Excluded' /\ PlacesMatch' /\ UNCHANGED Abstract!vars
<1>1. TypeOK
    BY DEF LockInv
<1>2. /\ at'[t] = "found"
      /\ \A u \in Thread \ {t} : at'[u] = at[u] /\ entry'[u] = entry[u]
    BY <1>1 DEF TypeOK
<1>3. ASSUME NEW e \in FileEntry
      PROVE  /\ Readers(e)' = Readers(e) /\ Writers(e)' = Writers(e)
             /\ Waiters(e)' = Waiters(e)
    BY <1>2 DEF Readers, Writers, Waiters, Holds
<1>4. PlacesMatch'
    BY <1>2 DEF LockInv, PlacesMatch
<1>5. ASSUME NEW e \in FileEntry
      PROVE  waitingWriters'[e] = Cardinality(Waiters(e)')
    BY <1>3 DEF LockInv, Counted, lockVars
<1> QED
    BY <1>3, <1>4, <1>5, NeutralStep DEF lockVars

-----------------------------------------------------------------------------
(* One lemma for the handlers' lookups and one for each way to wait, take  *)
(* and give back; Keeps is what all of them show.                          *)
Keeps == Counted' /\ Excluded' /\ [Abstract!Next]_(Abstract!vars)

LEMMA LookupKeeps ==
    ASSUME LockInv, NEW t \in Thread, Lockers(t)
    PROVE  LockInv' /\ Keeps
<1>1. TypeOK /\ PlacesMatch
    BY DEF LockInv
<1>2. CASE GetFileEntry(t)
    <2>1. PICK e \in FileEntry :
             /\ table' = e /\ allocated' = allocated \cup {e}
             /\ hasCond' = [hasCond EXCEPT ![e] = TRUE]
             /\ entry' = [entry EXCEPT ![t] = e]
        BY <1>2 DEF GetFileEntry
    <2>2. Counted' /\ Excluded' /\ PlacesMatch' /\ UNCHANGED Abstract!vars
        BY <1>2, <2>1, LookupStep DEF GetFileEntry
    <2>3. TypeOK'
        BY <1>1, <1>2, <2>1 DEF GetFileEntry, TypeOK, Places, lockVars
    <2> QED
        BY <2>2, <2>3 DEF LockInv, Keeps
<1>3. CASE FindForDelete(t)
    <2>1. table \in FileEntry
        BY <1>1, <1>3 DEF FindForDelete, TypeOK
    <2>2. Counted' /\ Excluded' /\ PlacesMatch' /\ UNCHANGED Abstract!vars
        BY <1>3, <2>1, LookupStep DEF FindForDelete
    <2>3. TypeOK'
        BY <1>1, <1>3, <2>1 DEF FindForDelete, TypeOK, Places, lockVars, tabVars
    <2> QED
        BY <2>2, <2>3 DEF LockInv, Keeps
<1> QED
    BY <1>2, <1>3 DEF Lockers

LEMMA TakeKeeps ==
    ASSUME LockInv, NEW t \in Thread, Acquire(t) \/ Retake(t)
    PROVE  LockInv' /\ Keeps
<1>1. /\ TypeOK /\ PlacesMatch /\ at[t] \in {"found", "woken"}
      /\ Kind[t] \in {"writer", "reader", "polite"} /\ entry[t] \in FileEntry
      /\ MayTake(t) /\ Take(t) /\ UNCHANGED <<tabVars, entry, dead>>
    BY ThreadAssumption
    DEF LockInv, Acquire, Retake, TypeOK, PlacesMatch, Kinds
<1>2. OnlyMoves(t) /\ at'[t] = "holding" /\ at' \in [Thread -> Places]
    BY <1>1, MoveMoves DEF Take, Places
<1>3. waitingWriters' = IF Kind[t] = "writer" /\ at[t] = "woken"
                        THEN [waitingWriters EXCEPT ![entry[t]] = @ - 1]
                        ELSE waitingWriters
    BY DEF Acquire, Retake
<1>4. ASSUME Kind[t] = "writer" PROVE Keeps
    <2>1. /\ ~activeWriter[entry[t]] /\ activeReaders[entry[t]] = 0
          /\ activeWriter' = [activeWriter EXCEPT ![entry[t]] = TRUE]
          /\ UNCHANGED activeReaders
        BY <1>1, <1>4 DEF MayTake, CanWrite, Take
    <2> QED
        BY <1>1, <1>2, <1>3, <1>4, <2>1, StartWriteStep DEF Keeps
<1>5. ASSUME Kind[t] \in {"reader", "polite"} PROVE Keeps
    <2>1. /\ ~activeWriter[entry[t]]
          /\ activeReaders' = [activeReaders EXCEPT ![entry[t]] = @ + 1]
          /\ UNCHANGED <<activeWriter, waitingWriters>>
        BY <1>1, <1>3, <1>5 DEF MayTake, CanRead, Take
    <2> QED
        BY <1>1, <1>2, <1>5, <2>1, StartReadStep DEF Keeps
<1>6. Keeps
    BY <1>1, <1>4, <1>5
<1>7. waitingWriters' \in [FileEntry -> Nat]
    <2>1. CASE Kind[t] = "writer" /\ at[t] = "woken"
        <3>1. t \in Waiters(entry[t])
            BY <2>1 DEF Waiters
        <3>2. waitingWriters[entry[t]] > 0
            BY <1>1, <3>1, DropOne, SetsFinite DEF LockInv, Counted
        <3> QED
            BY <1>1, <1>3, <2>1, <3>2 DEF TypeOK
    <2>2. CASE ~(Kind[t] = "writer" /\ at[t] = "woken")
        BY <1>1, <1>3, <2>2 DEF TypeOK
    <2> QED
        BY <2>1, <2>2
<1>8. TypeOK'
    <2>1. activeReaders' \in [FileEntry -> Nat] /\ activeWriter' \in [FileEntry -> BOOLEAN]
        <3>1. CASE Kind[t] = "writer"
            BY <1>1, <3>1 DEF Take, TypeOK
        <3>2. CASE Kind[t] # "writer"
            BY <1>1, <3>2 DEF Take, TypeOK
        <3> QED
            BY <3>1, <3>2
    <2>2. \A u \in Thread : at'[u] # "idle" => entry'[u] \in allocated'
        BY <1>1, <1>2 DEF OnlyMoves, TypeOK, tabVars
    <2> QED
        BY <1>1, <1>2, <1>7, <2>1, <2>2 DEF TypeOK, tabVars
<1>9. PlacesMatch'
    BY <1>1, <1>2 DEF PlacesMatch, OnlyMoves
<1> QED
    BY <1>6, <1>8, <1>9 DEF LockInv, Keeps

LEMMA WaitKeeps ==
    ASSUME LockInv, NEW t \in Thread, Wait(t) \/ WaitAgain(t)
    PROVE  LockInv' /\ Keeps
<1>1. /\ TypeOK /\ PlacesMatch /\ at[t] \in {"found", "woken"}
      /\ Kind[t] # "deleter" /\ entry[t] \in FileEntry
      /\ at' = [at EXCEPT ![t] = "asleep"]
      /\ UNCHANGED <<tabVars, activeReaders, activeWriter, entry, dead>>
    BY DEF LockInv, Wait, WaitAgain, TypeOK, PlacesMatch, lockVars
<1>2. OnlyMoves(t) /\ at'[t] = "asleep" /\ at' \in [Thread -> Places]
    BY <1>1, MoveMoves DEF Places
<1>3. waitingWriters' = IF at[t] = "found" /\ Kind[t] = "writer"
                        THEN [waitingWriters EXCEPT ![entry[t]] = @ + 1]
                        ELSE waitingWriters
    BY DEF Wait, WaitAgain, CountWaiter, lockVars
<1>4. ASSUME NEW e \in FileEntry
      PROVE  /\ Readers(e)' = Readers(e) /\ Writers(e)' = Writers(e)
             /\ waitingWriters'[e] = Cardinality(Waiters(e)')
    <2>1. Readers(e)' = Readers(e) /\ Writers(e)' = Writers(e)
        BY <1>1, <1>2 DEF OnlyMoves, Readers, Writers, Holds
    <2>2. waitingWriters[e] = Cardinality(Waiters(e))
        BY DEF LockInv, Counted
    <2>3. CASE at[t] = "found" /\ Kind[t] = "writer" /\ entry[t] = e
        <3>1. Waiters(e)' = Waiters(e) \cup {t} /\ t \notin Waiters(e)
            BY <1>1, <1>2, <2>3 DEF OnlyMoves, Waiters
        <3>2. Cardinality(Waiters(e) \cup {t}) = Cardinality(Waiters(e)) + 1
            BY <3>1, AddOne, SetsFinite
        <3> QED
            BY <1>1, <1>3, <2>1, <2>2, <2>3, <3>1, <3>2 DEF TypeOK
    <2>4. CASE ~(at[t] = "found" /\ Kind[t] = "writer" /\ entry[t] = e)
        <3>1. Waiters(e)' = Waiters(e)
            BY <1>1, <1>2, <2>4 DEF OnlyMoves, Waiters
        <3>2. waitingWriters'[e] = waitingWriters[e]
            BY <1>1, <1>3, <2>4 DEF TypeOK
        <3> QED
            BY <2>1, <2>2, <3>1, <3>2
    <2> QED
        BY <2>1, <2>3, <2>4
<1>5. Keeps
    BY <1>1, <1>4, NeutralStep DEF Keeps
<1>6. TypeOK'
    <2>1. waitingWriters' \in [FileEntry -> Nat]
        BY <1>1, <1>3 DEF TypeOK
    <2>2. \A u \in Thread : at'[u] # "idle" => entry'[u] \in allocated'
        BY <1>1, <1>2 DEF OnlyMoves, TypeOK, tabVars
    <2> QED
        BY <1>1, <1>2, <2>1, <2>2 DEF TypeOK, tabVars
<1>7. PlacesMatch'
    BY <1>1, <1>2 DEF PlacesMatch, OnlyMoves
<1> QED
    BY <1>5, <1>6, <1>7 DEF LockInv, Keeps

(* What ReleaseRead, ReleaseWrite and ReleaseDelete leave of the types.    *)
LEMMA ReleaseType ==
    ASSUME LockInv, NEW t \in Thread, OnlyMoves(t), at[t] \in Holds,
           at'[t] = "idle", at' \in [Thread -> Places],
           activeReaders' \in [FileEntry -> Nat],
           activeWriter' \in [FileEntry -> BOOLEAN],
           dead' \in BOOLEAN, UNCHANGED <<tabVars, waitingWriters>>
    PROVE  TypeOK' /\ PlacesMatch'
<1>1. TypeOK /\ PlacesMatch
    BY DEF LockInv
<1>2. \A u \in Thread : at'[u] # "idle" => entry'[u] \in allocated'
    BY <1>1 DEF OnlyMoves, TypeOK, tabVars
<1>3. TypeOK'
    BY <1>1, <1>2 DEF OnlyMoves, TypeOK, tabVars
<1>4. PlacesMatch'
    BY <1>1 DEF PlacesMatch, OnlyMoves
<1> QED
    BY <1>3, <1>4

LEMMA ReleaseKeeps ==
    ASSUME LockInv, NEW t \in Thread,
           ReleaseRead(t) \/ ReleaseWrite(t) \/ ReleaseDelete(t)
    PROVE  LockInv' /\ Keeps
<1>1. TypeOK /\ PlacesMatch
    BY DEF LockInv
<1>2. CASE ReleaseRead(t)
    <2>1. OnlyMoves(t) /\ at'[t] = "idle" /\ at' \in [Thread -> Places]
        BY <1>1, <1>2, WakeMoves DEF ReleaseRead
    <2>2. Counted' /\ Excluded' /\ Abstract!Next
        BY <1>2, <2>1, EndReadStep DEF ReleaseRead
    <2>3. activeReaders' \in [FileEntry -> Nat]
        BY <1>1, <1>2 DEF ReleaseRead, TypeOK
    <2>4. TypeOK' /\ PlacesMatch'
        BY <1>1, <1>2, <2>1, <2>3, ReleaseType DEF ReleaseRead, TypeOK, Holds
    <2> QED
        BY <2>2, <2>4 DEF LockInv, Keeps
<1>3. CASE ReleaseWrite(t)
    <2>1. OnlyMoves(t) /\ at'[t] = "idle" /\ at' \in [Thread -> Places]
        BY <1>1, <1>3, WakeMoves DEF ReleaseWrite
    <2>2. Counted' /\ Excluded' /\ Abstract!Next
        BY <1>3, <2>1, EndWriteStep DEF ReleaseWrite, Holds
    <2>3. activeWriter' \in [FileEntry -> BOOLEAN]
        BY <1>1, <1>3 DEF ReleaseWrite, TypeOK
    <2>4. TypeOK' /\ PlacesMatch'
        BY <1>1, <1>3, <2>1, <2>3, ReleaseType DEF ReleaseWrite, TypeOK, Holds
    <2> QED
        BY <2>2, <2>4 DEF LockInv, Keeps
<1>4. CASE ReleaseDelete(t)
    <2>1. OnlyMoves(t) /\ at'[t] = "idle" /\ at' \in [Thread -> Places]
        <3>1. CASE hasCond[entry[t]]
            BY <1>1, <1>4, <3>1, WakeMoves DEF ReleaseDelete
        <3>2. CASE ~hasCond[entry[t]]
            BY <1>1, <1>4, <3>2, MoveMoves DEF ReleaseDelete, Places
        <3> QED
            BY <3>1, <3>2
    <2>2. Counted' /\ Excluded' /\ Abstract!Next
        BY <1>4, <2>1, EndWriteStep DEF ReleaseDelete
    <2>3. /\ activeWriter' \in [FileEntry -> BOOLEAN]
          /\ dead' \in BOOLEAN
        BY <1>1, <1>4 DEF ReleaseDelete, TypeOK
    <2>4. TypeOK' /\ PlacesMatch'
        BY <1>1, <1>4, <2>1, <2>3, ReleaseType DEF ReleaseDelete, TypeOK
    <2> QED
        BY <2>2, <2>4 DEF LockInv, Keeps
<1> QED
    BY <1>2, <1>3, <1>4

LEMMA DeleteKeeps ==
    ASSUME LockInv, NEW t \in Thread,
           RefuseDelete(t) \/ LockForDelete(t) \/ RemoveEntry(t)
    PROVE  LockInv' /\ Keeps
<1>1. TypeOK /\ PlacesMatch
    BY DEF LockInv
<1>2. CASE RefuseDelete(t)
    <2>1. OnlyMoves(t) /\ at'[t] = "idle" /\ at' \in [Thread -> Places]
        BY <1>1, <1>2, MoveMoves DEF RefuseDelete, Places
    <2>2. Counted' /\ Excluded' /\ UNCHANGED Abstract!vars
        BY <1>2, <2>1, ElsewhereStep DEF RefuseDelete, Holds
    <2>3. TypeOK' /\ PlacesMatch'
        BY <1>1, <1>2, <2>1
        DEF RefuseDelete, TypeOK, PlacesMatch, OnlyMoves, tabVars, lockVars
    <2> QED
        BY <2>2, <2>3 DEF LockInv, Keeps
<1>3. CASE LockForDelete(t)
    <2>1. OnlyMoves(t) /\ at'[t] = "holding" /\ at' \in [Thread -> Places]
        BY <1>1, <1>3, MoveMoves DEF LockForDelete, Places
    <2>2. ~activeWriter[entry[t]] /\ activeReaders[entry[t]] = 0
        BY <1>1, <1>3 DEF LockForDelete, InUse, TypeOK
    <2>3. Counted' /\ Excluded' /\ Abstract!Next
        BY <1>3, <2>1, <2>2, StartWriteStep DEF LockForDelete
    <2>4. TypeOK' /\ PlacesMatch'
        BY <1>1, <1>3, <2>1
        DEF LockForDelete, TypeOK, PlacesMatch, OnlyMoves, tabVars
    <2> QED
        BY <2>3, <2>4 DEF LockInv, Keeps
<1>4. CASE RemoveEntry(t)
    <2>1. OnlyMoves(t) /\ at'[t] = "removed" /\ at' \in [Thread -> Places]
        BY <1>1, <1>4, MoveMoves DEF RemoveEntry, Places
    <2>2. ASSUME NEW e \in FileEntry
          PROVE  /\ Readers(e)' = Readers(e) /\ Writers(e)' = Writers(e)
                 /\ Waiters(e)' = Waiters(e)
        BY <1>4, <2>1 DEF RemoveEntry, OnlyMoves, Readers, Writers, Waiters, Holds
    <2>3. Counted' /\ Excluded' /\ UNCHANGED Abstract!vars
        <3>1. \A e \in FileEntry : waitingWriters'[e] = Cardinality(Waiters(e)')
            BY <1>4, <2>2 DEF RemoveEntry, lockVars, LockInv, Counted
        <3> QED
            BY <1>4, <2>2, <3>1, NeutralStep DEF RemoveEntry, lockVars
    <2>4. TypeOK' /\ PlacesMatch'
        BY <1>1, <1>4, <2>1
        DEF RemoveEntry, TypeOK, PlacesMatch, OnlyMoves, lockVars
    <2> QED
        BY <2>3, <2>4 DEF LockInv, Keeps
<1> QED
    BY <1>2, <1>3, <1>4

LEMMA LockNext ==
    LockInv /\ [Next]_vars => LockInv' /\ [Abstract!Next]_(Abstract!vars)
<1> SUFFICES ASSUME LockInv, [Next]_vars
             PROVE  LockInv' /\ [Abstract!Next]_(Abstract!vars)
    OBVIOUS
<1>1. CASE UNCHANGED vars
    <2>1. TypeOK' /\ PlacesMatch'
        BY <1>1 DEF LockInv, TypeOK, PlacesMatch, vars, tabVars, lockVars
    <2>2. \A e \in FileEntry : /\ Readers(e)' = Readers(e)
                               /\ Writers(e)' = Writers(e)
                               /\ waitingWriters'[e] = Cardinality(Waiters(e)')
        BY <1>1 DEF LockInv, Counted, Readers, Writers, Waiters, vars, lockVars
    <2>3. Counted' /\ Excluded' /\ UNCHANGED Abstract!vars
        BY <1>1, <2>2, NeutralStep DEF vars, lockVars
    <2> QED
        BY <2>1, <2>3 DEF LockInv
<1>2. CASE Next
    <2>1. PICK t \in Thread : Lockers(t) \/ Progress(t)
        BY <1>2 DEF Next
    <2> QED
        BY <2>1, LookupKeeps, TakeKeeps, WaitKeeps, ReleaseKeeps, DeleteKeeps
        DEF Progress, Keeps
<1> QED
    BY <1>1, <1>2

(* Every state of FileEntry locks has the types of TypeOK: in particular   *)
(* no counter is ever taken below zero, and no handler locks an entry      *)
(* that was not allocated.                                                 *)
THEOREM LockTypeCorrect == Spec => []TypeOK
<1>1. LockInv => TypeOK
    BY DEF LockInv
<1> QED
    BY <1>1, LockInit, LockNext, PTL DEF Spec

(* FileEntry implements the reader-writer lock, for any handlers and any   *)
(* number of entries: AcquireRead, AcquireReadNoPriority, AcquireWrite     *)
(* and Delete's own test let a writer in only on an entry nobody holds.    *)
THEOREM LockExcludes == Spec => IsRWLock
<1> QED
    BY LockInit, LockNext, PTL DEF Spec, IsRWLock, Abstract!Spec

-----------------------------------------------------------------------------
(* No wake-up is lost.  Where nobody holds an entry, only polite readers   *)
(* may sleep on it, and each because of a writer that is woken: a writer   *)
(* and a plain reader go to sleep under a holder, whose release wakes all. *)
Free(e)  == \A u \in Thread : ~(at[u] \in Holds /\ entry[u] = e)
Woken(e) == \E u \in Thread : /\ at[u] = "woken" /\ entry[u] = e
                              /\ Kind[u] = "writer"

Awake == ~dead => \A t \in Thread : at[t] = "asleep" /\ Free(entry[t]) =>
                      Kind[t] = "polite" /\ Woken(entry[t])

LEMMA FreeMeans ==
    ASSUME LockInv, NEW e
    PROVE  Free(e) <=> Readers(e) \cup Writers(e) = {}
BY ThreadAssumption
DEF LockInv, PlacesMatch, Free, Readers, Writers, Holds, Kinds

(* Who finds the lock taken finds it held, or a writer waiting for it.     *)
LEMMA TakenMeans ==
    ASSUME LockInv, NEW t \in Thread, Kind[t] # "deleter",
           at[t] \in {"found", "woken"}, ~MayTake(t), Free(entry[t])
    PROVE  /\ Kind[t] = "polite"
           /\ \E w \in Thread : /\ at[w] \in {"asleep", "woken"}
                                /\ entry[w] = entry[t] /\ Kind[w] = "writer"
<1>1. /\ entry[t] \in FileEntry /\ Kind[t] \in {"writer", "reader", "polite"}
      /\ activeReaders[entry[t]] \in Nat /\ waitingWriters[entry[t]] \in Nat
    BY ThreadAssumption DEF LockInv, TypeOK, Kinds
<1>2. Readers(entry[t]) = {} /\ Writers(entry[t]) = {}
    BY FreeMeans
<1>3. activeReaders[entry[t]] = 0 /\ ~activeWriter[entry[t]]
    BY <1>1, <1>2, FS_EmptySet DEF LockInv, Counted, Excluded
<1>4. Kind[t] = "polite" /\ waitingWriters[entry[t]] # 0
    BY <1>1, <1>3 DEF MayTake, CanWrite, CanRead
<1>5. Waiters(entry[t]) # {}
    BY <1>1, <1>4, FS_EmptySet DEF LockInv, Counted
<1> QED
    BY <1>4, <1>5 DEF Waiters

(* A step that puts nobody to sleep, gives up no lock, and takes one if it *)
(* takes a woken writer away.                                              *)
LEMMA AwakeStep ==
    ASSUME LockInv, Awake, NEW t \in Thread, dead' = dead,
           \A u \in Thread \ {t} : at'[u] = at[u] /\ entry'[u] = entry[u],
           at'[t] # "asleep", at[t] \in Holds => at'[t] \in Holds,
           at[t] # "idle" => entry'[t] = entry[t],
           at[t] = "woken" => at'[t] \in Holds
    PROVE  Awake'
<1> SUFFICES ASSUME ~dead', NEW u \in Thread, at'[u] = "asleep", Free(entry[u])'
             PROVE  Kind[u] = "polite" /\ Woken(entry[u])'
    BY DEF Awake
<1>1. u # t /\ at[u] = "asleep" /\ entry'[u] = entry[u]
    OBVIOUS
<1>2. Free(entry[u])
    BY <1>1 DEF Free, Holds
<1>3. Kind[u] = "polite" /\ Woken(entry[u])
    BY <1>1, <1>2 DEF Awake
<1>4. PICK w \in Thread : /\ at[w] = "woken" /\ entry[w] = entry[u]
                          /\ Kind[w] = "writer"
    BY <1>3 DEF Woken
<1>5. w # t
    BY <1>1, <1>4 DEF Free
<1> QED
    BY <1>1, <1>3, <1>4, <1>5 DEF Woken

LEMMA AwakeWait ==
    ASSUME LockInv, Awake, NEW t \in Thread, Wait(t) \/ WaitAgain(t)
    PROVE  Awake'
<1>1. /\ Kind[t] # "deleter" /\ at[t] \in {"found", "woken"} /\ ~MayTake(t)
      /\ dead' = dead /\ entry' = entry /\ at' = [at EXCEPT ![t] = "asleep"]
      /\ at \in [Thread -> Places]
    BY DEF LockInv, TypeOK, PlacesMatch, Wait, WaitAgain
<1> SUFFICES ASSUME ~dead', NEW u \in Thread, at'[u] = "asleep", Free(entry[u])'
             PROVE  Kind[u] = "polite" /\ Woken(entry[u])'
    BY DEF Awake
<1>2. Free(entry[u])
    BY <1>1 DEF Free, Holds
<1>3. \A w \in Thread : /\ at[w] = "asleep" /\ entry[w] = entry[u]
                        => Kind[w] = "polite" /\ Woken(entry[u])
    BY <1>1, <1>2 DEF Awake
<1>4. entry[u] = entry[t] => Kind[t] = "polite" /\ Woken(entry[u])
    <2> SUFFICES ASSUME entry[u] = entry[t]
                 PROVE  Kind[t] = "polite" /\ Woken(entry[u])
        OBVIOUS
    <2>1. Kind[t] = "polite"
        BY <1>1, <1>2, TakenMeans
    <2>2. PICK w \in Thread : /\ at[w] \in {"asleep", "woken"}
                              /\ entry[w] = entry[t] /\ Kind[w] = "writer"
        BY <1>1, <1>2, TakenMeans
    <2>3. at[w] = "woken"
        BY <1>3, <2>2
    <2> QED
        BY <2>1, <2>2, <2>3 DEF Woken
<1>5. Kind[u] = "polite" /\ Woken(entry[u])
    BY <1>1, <1>3, <1>4
<1>6. PICK w \in Thread : /\ at[w] = "woken" /\ entry[w] = entry[u]
                          /\ Kind[w] = "writer"
    BY <1>5 DEF Woken
<1>7. w # t
    BY <1>4, <1>6
<1> QED
    BY <1>1, <1>5, <1>6, <1>7 DEF Woken

(* A release wakes all who sleep on the entry, unless the process dies.    *)
LEMMA AwakeRelease ==
    ASSUME LockInv, Awake, NEW t \in Thread, entry' = entry, ~dead' => ~dead,
           ~dead' => at' = WakeAll(t), at[t] \in Holds
    PROVE  Awake'
<1> SUFFICES ASSUME ~dead', NEW u \in Thread, at'[u] = "asleep", Free(entry[u])'
             PROVE  Kind[u] = "polite" /\ Woken(entry[u])'
    BY DEF Awake
<1>1. u # t /\ at[u] = "asleep" /\ entry[u] # entry[t]
    BY DEF WakeAll
<1>2. \A w \in Thread : entry[w] = entry[u] => w # t /\ at'[w] = at[w]
    BY <1>1 DEF WakeAll
<1>3. Free(entry[u])
    BY <1>2 DEF Free
<1> QED
    BY <1>1, <1>2, <1>3 DEF Awake, Woken

LEMMA AwakeNext ==
    ASSUME LockInv, Awake, [Next]_vars
    PROVE  Awake'
<1>1. CASE UNCHANGED vars
    BY <1>1 DEF Awake, Free, Woken, vars
<1>2. ASSUME NEW t \in Thread, Lockers(t) \/ Progress(t) PROVE Awake'
    <2>1. /\ at \in [Thread -> Places] /\ entry \in [Thread -> FileEntry \cup {None}]
          /\ dead \in BOOLEAN
        BY DEF LockInv, TypeOK
    <2>2. CASE GetFileEntry(t)
        BY <2>1, <2>2, AwakeStep DEF GetFileEntry, Holds
    <2>3. CASE FindForDelete(t)
        BY <2>1, <2>3, AwakeStep DEF FindForDelete, Holds
    <2>4. CASE Acquire(t) \/ Retake(t)
        BY <2>1, <2>4, AwakeStep DEF Acquire, Retake, Take, Holds
    <2>5. CASE Wait(t) \/ WaitAgain(t)
        BY <2>5, AwakeWait
    <2>6. CASE ReleaseRead(t) \/ ReleaseWrite(t)
        BY <2>6, AwakeRelease DEF ReleaseRead, ReleaseWrite, Holds
    <2>7. CASE ReleaseDelete(t)
        BY <2>1, <2>7, AwakeRelease DEF ReleaseDelete
    <2>8. CASE RefuseDelete(t)
        BY <2>1, <2>8, AwakeStep DEF RefuseDelete, Holds
    <2>9. CASE LockForDelete(t)
        BY <2>1, <2>9, AwakeStep DEF LockForDelete, Holds
    <2>10. CASE RemoveEntry(t)
        BY <2>1, <2>10, AwakeStep DEF RemoveEntry, Holds
    <2> QED
        BY <1>2, <2>2, <2>3, <2>4, <2>5, <2>6, <2>7, <2>8, <2>9, <2>10
        DEF Lockers, Progress
<1> QED
    BY <1>1, <1>2 DEF Next

(* cond.Broadcast in every release is enough: no handler sleeps on an      *)
(* entry that nobody holds, but for a polite reader that gives way to a    *)
(* writer who is about to run.                                             *)
THEOREM WakeupsAreKept == Spec => []NoLostWakeup
<1>1. Init => Awake
    BY DEF Init, Awake
<1>2. LockInv /\ Awake => NoLostWakeup
    <2> SUFFICES ASSUME LockInv, Awake, ~dead, NEW t \in Thread, at[t] = "asleep"
                 PROVE  \/ Readers(entry[t]) \cup Writers(entry[t]) # {}
                        \/ \E u \in Thread : at[u] = "woken" /\ entry[u] = entry[t]
        BY DEF NoLostWakeup
    <2> QED
        BY FreeMeans DEF Awake, Woken
<1>3. LockInv /\ Awake /\ [Next]_vars => Awake'
    BY AwakeNext
<1> QED
    BY <1>1, <1>2, <1>3, LockInit, LockNext, PTL DEF Spec
=============================================================================
