---------------------------- MODULE PromiseProofs ----------------------------
(***************************************************************************)
(* What the clients of a primary that does not crash may rely on, for any  *)
(* number of servers, calls, follower crashes, disk errors and recoveries: *)
(* of the calls that opened the same version one commits, and the commit   *)
(* path implements VersionedFiles.                                         *)
(***************************************************************************)
EXTENDS ReplicationProofs

(* A call that holds the lock is alone, at the version it opened; one that *)
(* has finished left the version behind.                                   *)
VersionInv ==
    /\ \A r \in Request : pc[r] # "idle" => base[r] \in Nat
    /\ \A r, o \in Request :
         /\ pc[r] \in Holding /\ pc[o] \in Holding
         /\ ServedBy[r] = ServedBy[o] /\ FileOf[r] = FileOf[o]
         => r = o
    /\ \A r \in Request :
         pc[r] \in Holding => base[r] = version[ServedBy[r]][FileOf[r]]
    /\ \A r \in Request : pc[r] = "closed" /\ status[ServedBy[r]] = "up"
         => base[r] < version[ServedBy[r]][FileOf[r]]
    /\ FirstCommitterWins

LEMMA VersionInit == Init => VersionInv
BY DEF Init, VersionInv, Holding, FirstCommitterWins

(* A call moves on: nobody takes the lock, finishes, or changes a version. *)
LEMMA VersionCalm ==
    ASSUME TypeInv, VersionInv, NEW r \in Request, NEW to,
           UNCHANGED <<version, base, status>>,
           pc' = [pc EXCEPT ![r] = to], pc[r] # "idle",
           to # "closed", to \in Holding => pc[r] \in Holding
    PROVE  VersionInv'
<1>1. \A o \in Request : pc'[o] = IF o = r THEN to ELSE pc[o]
    BY DEF TypeInv, TypeOK
<1>2. FirstCommitterWins'
    BY <1>1 DEF VersionInv, FirstCommitterWins
<1> QED
    BY <1>1, <1>2 DEF VersionInv

LEMMA VersionOpen ==
    ASSUME TypeInv, VersionInv, NEW r \in Request, Open(r) PROVE VersionInv'
<1> DEFINE s == ServedBy[r]
           f == FileOf[r]
           v == IF version[s][f] = Absent THEN 1 ELSE version[s][f]
<1>1. /\ pc[r] = "idle" /\ pc' = [pc EXCEPT ![r] = "open"]
      /\ base' = [base EXCEPT ![r] = v]
      /\ version' = [version EXCEPT ![s][f] = v] /\ UNCHANGED status
    BY DEF Open
<1>2. /\ pc \in [Request -> CallState] /\ base \in [Request -> Nat \cup {Absent}]
      /\ version \in [Server -> [File -> Nat \cup {Absent}]]
      /\ s \in Server /\ f \in File
    BY RequestAssumption DEF TypeInv, TypeOK
<1>3. v \in Nat /\ v >= version[s][f] /\ (version[s][f] \in Nat => v = version[s][f])
    BY <1>2 DEF Absent
<1>4. \A o \in Request : /\ pc'[o] = IF o = r THEN "open" ELSE pc[o]
                         /\ base'[o] = IF o = r THEN v ELSE base[o]
    BY <1>1, <1>2
<1>5. \A o \in Request : version'[ServedBy[o]][FileOf[o]] =
          IF ServedBy[o] = s /\ FileOf[o] = f THEN v
          ELSE version[ServedBy[o]][FileOf[o]]
    BY <1>1, <1>2, RequestAssumption
<1>6. \A o \in Request : version[ServedBy[o]][FileOf[o]] \in Nat \cup {Absent}
    BY <1>2, RequestAssumption
<1> HIDE DEF v, s, f
<1>7. \A o \in Request : pc'[o] # "idle" => base'[o] \in Nat
    BY <1>3, <1>4 DEF VersionInv
<1>8. \A o \in Request : pc'[o] \in Holding => o # r /\ pc[o] \in Holding
    BY <1>4 DEF Holding
<1>9. \A o \in Request : pc'[o] \in Holding
          => base'[o] = version'[ServedBy[o]][FileOf[o]]
    <2> SUFFICES ASSUME NEW o \in Request, pc'[o] \in Holding
                 PROVE  base'[o] = version'[ServedBy[o]][FileOf[o]]
        OBVIOUS
    <2>1. base[o] \in Nat /\ base[o] = version[ServedBy[o]][FileOf[o]]
        BY <1>8 DEF VersionInv, Holding
    <2> QED
        BY <2>1, <1>3, <1>4, <1>5, <1>8 DEF s, f
<1>10. \A o \in Request : pc'[o] = "closed" /\ status'[ServedBy[o]] = "up"
          => base'[o] < version'[ServedBy[o]][FileOf[o]]
    <2> SUFFICES ASSUME NEW o \in Request, pc'[o] = "closed",
                        status'[ServedBy[o]] = "up"
                 PROVE  base'[o] < version'[ServedBy[o]][FileOf[o]]
        OBVIOUS
    <2>1. o # r /\ pc[o] = "closed"
        BY <1>4
    <2>2. base[o] \in Nat /\ base[o] < version[ServedBy[o]][FileOf[o]]
        BY <1>1, <2>1 DEF VersionInv
    <2>3. version[ServedBy[o]][FileOf[o]] \in Nat
        BY <2>2, <1>6 DEF Absent
    <2> QED
        BY <2>1, <2>2, <2>3, <1>3, <1>4, <1>5 DEF s, f
<1>11. FirstCommitterWins'
    BY <1>4 DEF VersionInv, FirstCommitterWins
<1> QED
    BY <1>7, <1>8, <1>9, <1>10, <1>11 DEF VersionInv

LEMMA VersionBegin ==
    ASSUME TypeInv, VersionInv, NEW r \in Request, BeginClose(r)
    PROVE  VersionInv'
<1>1. /\ pc[r] = "closing" /\ pc' = [pc EXCEPT ![r] = "prepared"]
      /\ VersionMatches(r) /\ LockFree(r) /\ UNCHANGED <<version, base, status>>
    BY DEF BeginClose
<1>2. \A o \in Request : pc'[o] = IF o = r THEN "prepared" ELSE pc[o]
    BY <1>1 DEF TypeInv, TypeOK
<1>3. FirstCommitterWins'
    BY <1>1, <1>2 DEF VersionInv, FirstCommitterWins
<1> QED
    BY <1>1, <1>2, <1>3 DEF VersionInv, VersionMatches, LockFree

LEMMA VersionFinish ==
    ASSUME TypeInv, VersionInv, NEW r \in Request, Finish(r) PROVE VersionInv'
<1> DEFINE s == ServedBy[r]
           f == FileOf[r]
           v == version[s][f]
<1>1. /\ pc[r] = "committed" /\ pc' = [pc EXCEPT ![r] = "closed"]
      /\ version' = [version EXCEPT ![s][f] = v + 1]
      /\ status[s] = "up" /\ UNCHANGED <<base, status>>
    BY DEF Finish
<1>2. /\ pc \in [Request -> CallState]
      /\ version \in [Server -> [File -> Nat \cup {Absent}]]
      /\ s \in Server /\ f \in File
    BY RequestAssumption DEF TypeInv, TypeOK
<1>3. \A o \in Request : pc'[o] = IF o = r THEN "closed" ELSE pc[o]
    BY <1>1, <1>2
<1>4. \A o \in Request : version'[ServedBy[o]][FileOf[o]] =
          IF ServedBy[o] = s /\ FileOf[o] = f THEN v + 1
          ELSE version[ServedBy[o]][FileOf[o]]
    BY <1>1, <1>2, RequestAssumption
<1>5. base[r] = v /\ base[r] \in Nat
    BY <1>1 DEF VersionInv, Holding
<1>6. \A o \in Request : pc[o] = "closed" /\ ServedBy[o] = s /\ FileOf[o] = f
          => base[o] < v /\ base[o] \in Nat
    BY <1>1 DEF VersionInv
<1> HIDE DEF s, f, v
<1>7. \A o \in Request : pc'[o] \in Holding => /\ o # r /\ pc[o] \in Holding
                                               /\ ~(ServedBy[o] = s /\ FileOf[o] = f)
    BY <1>1, <1>3 DEF VersionInv, Holding, s, f
<1>8. \A o \in Request : pc'[o] \in Holding
          => base'[o] = version'[ServedBy[o]][FileOf[o]]
    BY <1>1, <1>4, <1>7 DEF VersionInv
<1>9. \A o \in Request : pc'[o] = "closed" /\ status'[ServedBy[o]] = "up"
          => base'[o] < version'[ServedBy[o]][FileOf[o]]
    <2> SUFFICES ASSUME NEW o \in Request, pc'[o] = "closed",
                        status'[ServedBy[o]] = "up"
                 PROVE  base[o] < version'[ServedBy[o]][FileOf[o]]
        BY <1>1
    <2>1. CASE o = r
        BY <2>1, <1>4, <1>5 DEF s, f
    <2>2. CASE o # r /\ ServedBy[o] = s /\ FileOf[o] = f
        BY <2>2, <1>3, <1>4, <1>5, <1>6
    <2>3. CASE o # r /\ ~(ServedBy[o] = s /\ FileOf[o] = f)
        BY <2>3, <1>1, <1>3, <1>4 DEF VersionInv
    <2> QED
        BY <2>1, <2>2, <2>3
<1>10. FirstCommitterWins'
    <2> SUFFICES ASSUME NEW o \in Request, NEW q \in Request, pc'[o] = "closed",
                        pc'[q] = "closed", base[o] = base[q],
                        FileOf[o] = FileOf[q], ServedBy[o] = ServedBy[q]
                 PROVE  o = q
        BY <1>1 DEF FirstCommitterWins
    <2>1. CASE o # r /\ q # r
        BY <2>1, <1>3 DEF VersionInv, FirstCommitterWins
    <2>2. CASE o = r /\ q # r
        BY <2>2, <1>3, <1>5, <1>6 DEF s, f
    <2>3. CASE o # r /\ q = r
        BY <2>3, <1>3, <1>5, <1>6 DEF s, f
    <2> QED
        BY <2>1, <2>2, <2>3
<1>11. \A o \in Request : pc'[o] # "idle" => base'[o] \in Nat
    BY <1>1, <1>3 DEF VersionInv
<1>12. \A o, q \in Request :
         /\ pc'[o] \in Holding /\ pc'[q] \in Holding
         /\ ServedBy[o] = ServedBy[q] /\ FileOf[o] = FileOf[q]
         => o = q
    BY <1>7 DEF VersionInv
<1> QED
    BY <1>8, <1>9, <1>10, <1>11, <1>12 DEF VersionInv

(* A server dies, and the calls it held the lock for with it.              *)
LEMMA VersionHalt ==
    ASSUME TypeInv, VersionInv, NEW s \in Server, NEW how, how # "up",
           Halt(s, how)
    PROVE  VersionInv'
<1>1. /\ status' = [status EXCEPT ![s] = how] /\ UNCHANGED base
      /\ version' = [version EXCEPT ![s] = [f \in File |-> Absent]]
    BY DEF Halt
<1>2. /\ status \in [Server -> {"up", "down", "panicked"}]
      /\ version \in [Server -> [File -> Nat \cup {Absent}]]
    BY DEF TypeInv, TypeOK
<1>3. \A o \in Request :
         /\ pc'[o] \in Holding => pc'[o] = pc[o] /\ ServedBy[o] # s
         /\ pc'[o] = "closed" => pc[o] = "closed"
         /\ pc'[o] # "idle" => pc[o] # "idle"
    BY DEF Halt, Holding, Answered, Dead
<1>4. \A o \in Request : ServedBy[o] # s =>
         /\ status'[ServedBy[o]] = status[ServedBy[o]]
         /\ version'[ServedBy[o]] = version[ServedBy[o]]
    BY <1>1, <1>2, RequestAssumption
<1>5. FirstCommitterWins'
    BY <1>1, <1>3 DEF VersionInv, FirstCommitterWins
<1>6. \A o \in Request : pc'[o] = "closed" /\ status'[ServedBy[o]] = "up"
          => base'[o] < version'[ServedBy[o]][FileOf[o]]
    BY <1>1, <1>2, <1>3, <1>4 DEF VersionInv
<1>7. \A o \in Request : pc'[o] \in Holding
          => base'[o] = version'[ServedBy[o]][FileOf[o]]
    BY <1>1, <1>3, <1>4 DEF VersionInv
<1>8. /\ \A o \in Request : pc'[o] # "idle" => base'[o] \in Nat
      /\ \A o, q \in Request :
           /\ pc'[o] \in Holding /\ pc'[q] \in Holding
           /\ ServedBy[o] = ServedBy[q] /\ FileOf[o] = FileOf[q]
           => o = q
    BY <1>1, <1>3 DEF VersionInv
<1> QED
    BY <1>5, <1>6, <1>7, <1>8 DEF VersionInv

(* A step that no primary notices.                                         *)
LEMMA VersionElsewhere ==
    ASSUME VersionInv, UNCHANGED <<pc, base>>,
           \A q \in Primaries : /\ version'[q] = version[q]
                                /\ status'[q] = "up" => status[q] = "up"
    PROVE  VersionInv'
<1>1. \A r \in Request : ServedBy[r] \in Primaries
    BY DEF Primaries
<1>2. FirstCommitterWins'
    BY DEF VersionInv, FirstCommitterWins
<1>3. \A r \in Request :
         /\ version'[ServedBy[r]][FileOf[r]] = version[ServedBy[r]][FileOf[r]]
         /\ status'[ServedBy[r]] = "up" => status[ServedBy[r]] = "up"
    BY <1>1
<1>4. \A r \in Request : pc'[r] = pc[r] /\ base'[r] = base[r]
    OBVIOUS
<1> QED
    BY <1>2, <1>3, <1>4 DEF VersionInv

LEMMA VersionRunning ==
    ASSUME TypeInv, VersionInv, [Running]_vars PROVE VersionInv'
<1> USE DEF commitVars, fileVars, callVars, syncVars
<1>1. ASSUME NEW r \in Request, CloseArrives(r) PROVE VersionInv'
    BY <1>1, VersionCalm DEF CloseArrives, Holding
<1>2. ASSUME NEW r \in Request, Conflict(r) PROVE VersionInv'
    BY <1>2, VersionCalm DEF Conflict, Holding
<1>3. ASSUME NEW r \in Request, NEW ok \in BOOLEAN, AppendLog(r, ok)
      PROVE  VersionInv'
    <2> DEFINE to == IF ok THEN "logged" ELSE "failed"
    <2>1. /\ pc[r] = "prepared" /\ pc' = [pc EXCEPT ![r] = to]
          /\ UNCHANGED <<version, base, status>>
        BY <1>3 DEF AppendLog
    <2> QED
        BY <2>1, VersionCalm DEF Holding
<1>4. ASSUME NEW r \in Request, SendAppends(r) PROVE VersionInv'
    BY <1>4, VersionCalm DEF SendAppends, Holding
<1>5. ASSUME NEW r \in Request, Commit(r) PROVE VersionInv'
    BY <1>5, VersionCalm DEF Commit, Holding
<1>6. ASSUME NEW r \in Request, Timeout(r) PROVE VersionInv'
    BY <1>6, VersionCalm DEF Timeout, Holding
<1>7. ASSUME NEW m \in msgs, NEW ok \in BOOLEAN, NEW heard \in BOOLEAN,
             AppendEntries(m, ok, heard)
      PROVE  VersionInv'
    BY <1>7, VersionElsewhere DEF AppendEntries
<1>8. ASSUME NEW m \in msgs, NEW ok \in BOOLEAN, AppendEntriesPanics(m, ok)
      PROVE  VersionInv'
    <2>1. m.dest \in Server /\ Halt(m.dest, "panicked") /\ "panicked" # "up"
        BY <1>8 DEF AppendEntriesPanics, TypeInv, TypeOK, Message
    <2> QED
        BY <2>1, VersionHalt
<1>9. ASSUME NEW s \in Server, Crash(s) PROVE VersionInv'
    <2>1. Halt(s, "down") /\ "down" # "up"
        BY <1>9 DEF Crash
    <2> QED
        BY <2>1, VersionHalt
<1>10. CASE UNCHANGED vars
    BY <1>10, VersionElsewhere DEF vars
<1> QED
    BY <1>1, <1>2, <1>3, <1>4, <1>5, <1>6, <1>7, <1>8, <1>9, <1>10, VersionOpen,
       VersionBegin, VersionFinish DEF Running, Handler, Network, Ends

(* A restart forgets the version table: no primary may restart.            *)
LEMMA VersionNext ==
    ASSUME Primaries \cap CanCrash = {}, TypeInv, VersionInv, [Next]_vars
    PROVE  VersionInv'
<1> USE DEF commitVars, fileVars, callVars, syncVars
<1>1. ASSUME NEW s \in Server, Restart(s) PROVE VersionInv'
    <2>1. /\ s \notin Primaries /\ UNCHANGED <<version, pc, base>>
          /\ status' = [status EXCEPT ![s] = "up"]
        BY <1>1 DEF Restart
    <2>2. \A q \in Primaries : status'[q] = status[q]
        BY <2>1, RequestAssumption DEF TypeInv, TypeOK, Primaries
    <2> QED
        BY <2>1, <2>2, VersionElsewhere
<1>2. ASSUME NEW q \in Server, NEW p \in Server, RequestRecovery(q, p)
       PROVE  VersionInv'
    BY <1>2, VersionElsewhere DEF RequestRecovery
<1>3. ASSUME NEW q \in Server, ApplyUpdate(q) PROVE VersionInv'
    <2>1. q \notin Primaries
        BY <1>3 DEF ApplyUpdate, TypeInv, IndexInLog
    <2>2. \A s \in Primaries : version'[s] = version[s]
        BY <1>3, <2>1, RequestAssumption
        DEF ApplyUpdate, TypeInv, TypeOK, Primaries
    <2> QED
        BY <1>3, <2>2, VersionElsewhere DEF ApplyUpdate
<1>4. CASE [Running]_vars
    BY <1>4, VersionRunning
<1> QED
    BY <1>1, <1>2, <1>3, <1>4 DEF Next, Running, Failure

(* Of the Close and Write calls that opened the same version of a file on  *)
(* the same primary, one at most commits and is answered: several files,   *)
(* several primaries, whatever fails, while no primary restarts.           *)
THEOREM OneCommitPerVersion ==
    ASSUME Primaries \cap CanCrash = {} PROVE Spec => []FirstCommitterWins
<1>1. Init => TypeInv /\ VersionInv
    BY TypeInit, VersionInit
<1>2. TypeInv /\ VersionInv /\ [Next]_vars => (TypeInv /\ VersionInv)'
    BY TypeNext, VersionNext
<1>3. VersionInv => FirstCommitterWins
    BY DEF VersionInv
<1> QED
    BY <1>1, <1>2, <1>3, PTL DEF Spec

-----------------------------------------------------------------------------
(* One primary p that does not crash, one file, and Close calls only.      *)
OneStore(p) ==
    /\ p \in Server \ CanCrash /\ Request # {} /\ Write = {}
    /\ \A r \in Request : ServedBy[r] = p
    /\ \A r, o \in Request : FileOf[r] = FileOf[o]

(* The primary runs, and the lock holder's entry is the end of its log,    *)
(* just after what has been applied.                                       *)
LogEnd(p) ==
    /\ status[p] = "up" /\ \A m \in msgs : m.dest # p
    /\ lastApplied[p] = commitIndex[p] /\ commitIndex[p] <= Len(log[p])
    /\ \A r \in Request : \A i \in DOMAIN log[p] : log[p][i].file = FileOf[r]
    /\ \A r \in Request : pc[r] \in Holding => ent[r].file = FileOf[r]
    /\ \A r \in Request :
         pc[r] = "prepared" => ent[r].index = Len(log[p]) + 1
    /\ \A r \in Request : pc[r] \in {"logged", "waiting"} =>
         /\ ent[r].index = Len(log[p]) /\ log[p][ent[r].index] = ent[r]
         /\ commitIndex[p] < ent[r].index

Closed(f)  == {r \in Request : FileOf[r] = f /\ pc[r] = "closed"}
Started(f) == {r \in Request : FileOf[r] = f /\ pc[r] \notin {"idle", "open"}}

Between(f, numbers) == Closed(f) \subseteq numbers /\ numbers \subseteq Started(f)

(* The file, the prime set and the entry of the lock holder all have the   *)
(* numbers of the calls that were answered, and only of calls that were    *)
(* sent; once it is committed, the holder's entry is the file.             *)
KeptInv(p) ==
    /\ \A f \in File : Between(f, content[p][f]) /\ Between(f, filesPrimes[p][f])
    /\ \A r \in Request : pc[r] \in Holding =>
         r \in ent[r].content /\ Between(FileOf[r], ent[r].content)
    /\ \A r \in Request :
         pc[r] = "committed" => content[p][FileOf[r]] = ent[r].content

StoreInv(p) == TypeInv /\ VersionInv /\ LogEnd(p) /\ KeptInv(p)

LEMMA ApplyLast ==
    ASSUME NEW files, NEW entries \in Seq(Entry), NEW lo \in Nat, NEW hi \in Nat,
           lo >= 1, lo <= hi, hi <= Len(entries), NEW f \in File,
           entries[hi].file = f
    PROVE  Apply(files, entries, lo, hi)[f] = entries[hi].content
<1> DEFINE hits == {i \in lo..hi : entries[i].file = f}
           last == {i \in hits : \A j \in hits : j <= i}
<1>1. hi \in hits /\ \A j \in hits : j <= hi /\ j \in Nat
    OBVIOUS
<1>2. last = {hi}
    <2>1. hi \in last
        BY <1>1
    <2>2. \A i \in last : i = hi
        <3>1. \A i \in last : i >= hi /\ i <= hi /\ i \in Int
            BY <1>1
        <3> HIDE DEF last
        <3> QED
            BY <3>1
    <2> HIDE DEF last
    <2> QED
        BY <2>1, <2>2
<1>3. UNION {entries[i].content : i \in last} = entries[hi].content
    BY <1>2
<1> QED
    BY <1>1, <1>3 DEF Apply

LEMMA ApplyOther ==
    ASSUME NEW files, NEW entries, NEW lo, NEW hi, NEW f \in File,
           \A i \in lo..hi : entries[i].file # f
    PROVE  Apply(files, entries, lo, hi)[f] = files[f]
BY DEF Apply

(* The primary and its calls take no part in the step.                     *)
LEMMA StoreElsewhere ==
    ASSUME NEW p, OneStore(p), StoreInv(p), UNCHANGED <<pc, ent>>, msgs' \subseteq msgs,
           status'[p] = status[p], log'[p] = log[p], content'[p] = content[p],
           filesPrimes'[p] = filesPrimes[p], commitIndex'[p] = commitIndex[p],
           lastApplied'[p] = lastApplied[p]
    PROVE  LogEnd(p)' /\ KeptInv(p)'
<1>1. LogEnd(p)'
    BY DEF StoreInv, LogEnd
<1>2. KeptInv(p)'
    BY DEF StoreInv, KeptInv, Between, Closed, Started
<1> QED
    BY <1>1, <1>2

LEMMA StoreTypes ==
    ASSUME NEW p, OneStore(p), StoreInv(p)
    PROVE  /\ p \in Server /\ Primaries = {p}
           /\ \A r \in Request : ServedBy[r] = p /\ FileOf[r] \in File
           /\ pc \in [Request -> CallState] /\ status \in [Server -> {"up", "down", "panicked"}]
           /\ log \in [Server -> Seq(Entry)] /\ log[p] \in Seq(Entry)
           /\ Len(log[p]) \in Nat /\ commitIndex[p] \in Nat /\ lastApplied[p] \in Nat
           /\ commitIndex \in [Server -> Nat] /\ lastApplied \in [Server -> Nat]
           /\ content \in [Server -> [File -> SUBSET Request]]
           /\ filesPrimes \in [Server -> [File -> SUBSET Request]]
           /\ version \in [Server -> [File -> Nat \cup {Absent}]]
           /\ DOMAIN ent = Request /\ msgs \subseteq Message
           /\ \A r \in Request : pc[r] \in Holding => ent[r] \in Entry
BY RequestAssumption DEF OneStore, StoreInv, TypeInv, TypeOK, Primaries

(* A call moves on and nothing it leaves behind changes.                   *)
LEMMA StoreCalm ==
    ASSUME NEW p, OneStore(p), StoreInv(p), NEW r \in Request, NEW to,
           pc' = [pc EXCEPT ![r] = to],
           UNCHANGED <<status, log, content, filesPrimes, commitIndex, lastApplied,
                       ent>>,
           \A m \in msgs' : m \in msgs \/ m.dest # p,
           \/ pc[r] \in {"idle", "open"} /\ to \in {"open", "closing"}
           \/ pc[r] = "closing" /\ to = "conflict"
           \/ pc[r] = "logged" /\ to = "waiting"
           \/ pc[r] = "waiting" /\ to = "failed"
    PROVE  LogEnd(p)' /\ KeptInv(p)'
<1>1. \A o \in Request : pc'[o] = IF o = r THEN to ELSE pc[o]
    BY StoreTypes
<1>2. LogEnd(p)'
    BY <1>1 DEF StoreInv, LogEnd, Holding
<1>3. \A f \in File : Closed(f)' = Closed(f) /\ Started(f) \subseteq Started(f)'
    BY <1>1 DEF Closed, Started
<1>4. \A o \in Request : pc'[o] \in Holding => pc[o] \in Holding
    BY <1>1 DEF Holding
<1>5. \A o \in Request : pc'[o] = "committed" => pc[o] = "committed"
    BY <1>1
<1>6. ASSUME NEW f \in File, NEW numbers, Between(f, numbers)
      PROVE  Closed(f)' \subseteq numbers /\ numbers \subseteq Started(f)'
    BY <1>3, <1>6 DEF Between
<1>7. KeptInv(p)'
    BY <1>4, <1>5, <1>6, StoreTypes DEF StoreInv, KeptInv, Between
<1> QED
    BY <1>2, <1>7

LEMMA StoreBegin ==
    ASSUME NEW p, OneStore(p), StoreInv(p), NEW r \in Request, BeginClose(r)
    PROVE  LogEnd(p)' /\ KeptInv(p)'
<1> DEFINE f == FileOf[r]
           e == [index |-> Len(log[p]) + 1, file |-> f, content |-> Merged(r)]
<1>1. /\ pc[r] = "closing" /\ pc' = [pc EXCEPT ![r] = "prepared"]
      /\ ent' = [ent EXCEPT ![r] = e]
      /\ UNCHANGED <<status, log, content, commitIndex, lastApplied, msgs>>
      /\ \A o \in Request : pc[o] \notin Holding
    BY StoreTypes
    DEF BeginClose, OneStore, Uploaded, NextIndex, LockFree, commitVars
<1>2. \A o \in Request : /\ pc'[o] = IF o = r THEN "prepared" ELSE pc[o]
                         /\ ent'[o] = IF o = r THEN e ELSE ent[o]
    BY <1>1, StoreTypes
<1>3. \A o \in Request : pc'[o] \in Holding => o = r
    BY <1>1, <1>2
<1>4. LogEnd(p)'
    BY <1>1, <1>2, <1>3 DEF StoreInv, LogEnd, Holding
<1>5. \A g \in File : Closed(g)' = Closed(g) /\ Started(g)' = Started(g)
    BY <1>1, <1>2 DEF Closed, Started
<1>6. Merged(r) = filesPrimes[p][f] \cup {r} /\ f \in File
    BY StoreTypes DEF Merged
<1>7. Between(f, Merged(r)) /\ r \in Merged(r)
    BY <1>1, <1>6 DEF StoreInv, KeptInv, Between, Started
<1>8. \A g \in File : filesPrimes'[p][g] \in {filesPrimes[p][g], Merged(r)}
                      /\ (g # f => filesPrimes'[p][g] = filesPrimes[p][g])
    <2>1. \/ filesPrimes' = filesPrimes
          \/ filesPrimes' = [filesPrimes EXCEPT ![p][f] = Merged(r)]
        BY StoreTypes DEF BeginClose
    <2> QED
        BY <2>1, StoreTypes
<1>9. \A g \in File : Between(g, content[p][g])' /\ Between(g, filesPrimes[p][g])'
    BY <1>1, <1>5, <1>7, <1>8 DEF StoreInv, KeptInv, Between
<1>10. ASSUME NEW o \in Request, pc'[o] \in Holding
       PROVE  o \in ent'[o].content /\ Between(FileOf[o], ent[o].content)'
    <2>1. o = r /\ ent'[o].content = Merged(r)
        BY <1>2, <1>3, <1>10
    <2> QED
        BY <2>1, <1>5, <1>6, <1>7 DEF Between
<1>11. \A o \in Request : pc'[o] # "committed"
    BY <1>1, <1>2 DEF Holding
<1>12. KeptInv(p)'
    BY <1>9, <1>10, <1>11 DEF KeptInv
<1> QED
    BY <1>4, <1>12

LEMMA StoreLogged ==
    ASSUME NEW p, OneStore(p), StoreInv(p), NEW r \in Request,
           NEW ok \in BOOLEAN, AppendLog(r, ok)
    PROVE  LogEnd(p)' /\ KeptInv(p)'
<1> DEFINE n == Len(log[p])
           e == ent[r]
           to == IF ok THEN "logged" ELSE "failed"
<1>1. /\ pc[r] = "prepared" /\ pc' = [pc EXCEPT ![r] = to]
      /\ log' = [log EXCEPT ![p] = Append(log[p], e)]
      /\ UNCHANGED <<status, content, filesPrimes, commitIndex, lastApplied,
                     ent, msgs>>
    BY StoreTypes DEF AppendLog, commitVars, fileVars
<1>2. \A o \in Request : pc'[o] = IF o = r THEN to ELSE pc[o]
    BY <1>1, StoreTypes
<1>3. e \in Entry /\ e.index = n + 1 /\ e.file = FileOf[r]
    BY <1>1, StoreTypes DEF StoreInv, LogEnd, Holding
<1>4. \A o \in Request : pc[o] \in Holding => o = r
    BY <1>1, StoreTypes DEF StoreInv, VersionInv, OneStore, Holding
<1>5. /\ log'[p] = Append(log[p], e) /\ Len(log'[p]) = n + 1
      /\ log'[p][n + 1] = e /\ DOMAIN log'[p] = 1 .. n + 1
      /\ \A i \in 1 .. n : log'[p][i] = log[p][i] /\ i \in DOMAIN log[p]
    <2>1. log'[p] = Append(log[p], e) /\ n \in Nat
        BY <1>1, StoreTypes
    <2>2. /\ Len(Append(log[p], e)) = n + 1
          /\ Append(log[p], e)[n + 1] = e
          /\ DOMAIN Append(log[p], e) = 1 .. n + 1
          /\ \A i \in 1 .. n : Append(log[p], e)[i] = log[p][i]
          /\ DOMAIN log[p] = 1 .. n
        <3> HIDE DEF e
        <3> QED
            BY <1>3, StoreTypes, AppendProperties, LenProperties
    <2> QED
        BY <2>1, <2>2
<1>6. \A o \in Request : \A i \in DOMAIN log'[p] : log'[p][i].file = FileOf[o]
    <2> SUFFICES ASSUME NEW o \in Request, NEW i \in DOMAIN log'[p]
                 PROVE  log'[p][i].file = FileOf[o]
        OBVIOUS
    <2>1. CASE i = n + 1
        BY <2>1, <1>3, <1>5 DEF OneStore
    <2>2. CASE i \in 1 .. n
        BY <2>2, <1>5 DEF StoreInv, LogEnd
    <2>3. i = n + 1 \/ i \in 1 .. n
        BY <1>5, StoreTypes
    <2> QED
        BY <2>1, <2>2, <2>3
<1>7. \A o \in Request : pc'[o] \in Holding => o = r /\ pc'[o] = "logged"
    BY <1>2, <1>4 DEF Holding
<1>8. commitIndex[p] < n + 1
    BY StoreTypes DEF StoreInv, LogEnd
<1>9. LogEnd(p)'
    BY <1>1, <1>3, <1>5, <1>6, <1>7, <1>8, StoreTypes
    DEF StoreInv, LogEnd, Holding
<1>10. \A f \in File : Closed(f)' = Closed(f) /\ Started(f)' = Started(f)
    BY <1>1, <1>2 DEF Closed, Started
<1>11. \A o \in Request : pc'[o] \in Holding => pc[o] \in Holding
    BY <1>1, <1>2, <1>7 DEF Holding
<1>12. KeptInv(p)'
    BY <1>1, <1>7, <1>10, <1>11, StoreTypes DEF StoreInv, KeptInv, Between
<1> QED
    BY <1>9, <1>12

(* The entry of the lock holder becomes the file.                          *)
LEMMA StoreCommit ==
    ASSUME NEW p, OneStore(p), StoreInv(p), NEW r \in Request, Commit(r)
    PROVE  /\ LogEnd(p)' /\ KeptInv(p)'
           /\ content'[p] = [content[p] EXCEPT ![FileOf[r]] = ent[r].content]
<1> DEFINE c == ent[r].index
           lo == lastApplied[p] + 1
           f == FileOf[r]
<1>1. /\ pc[r] = "waiting" /\ pc' = [pc EXCEPT ![r] = "committed"]
      /\ commitIndex' = [commitIndex EXCEPT ![p] = c]
      /\ lastApplied' = [lastApplied EXCEPT
                           ![p] = IF lastApplied[p] < c THEN c ELSE lastApplied[p]]
      /\ content' = [content EXCEPT ![p] = Apply(content[p], log[p], lo, c)]
      /\ UNCHANGED <<status, log, filesPrimes, ent, msgs>>
    BY StoreTypes DEF Commit, CommitUpTo
<1>2. /\ c = Len(log[p]) /\ log[p][c] = ent[r] /\ commitIndex[p] < c
      /\ lastApplied[p] = commitIndex[p] /\ ent[r].file = f /\ ent[r] \in Entry
    BY <1>1, StoreTypes DEF StoreInv, LogEnd, Holding
<1>3. /\ c \in Nat /\ lo \in Nat /\ lo >= 1 /\ lo <= c /\ c <= Len(log[p])
      /\ log[p] \in Seq(Entry) /\ f \in File
    BY <1>2, StoreTypes
<1>4. Apply(content[p], log[p], lo, c)[f] = ent[r].content
    <2> HIDE DEF c, lo, f
    <2> QED
        BY <1>2, <1>3, ApplyLast
<1>5. \A g \in File : g # f => Apply(content[p], log[p], lo, c)[g] = content[p][g]
    <2> SUFFICES ASSUME NEW g \in File, g # f
                 PROVE  Apply(content[p], log[p], lo, c)[g] = content[p][g]
        OBVIOUS
    <2>1. \A i \in lo..c : i \in DOMAIN log[p]
        BY <1>2, <1>3
    <2>2. \A i \in lo..c : log[p][i].file # g
        BY <2>1 DEF StoreInv, LogEnd
    <2> HIDE DEF c, lo, f
    <2> QED
        BY <2>2, ApplyOther
<1>6. content'[p] = [content[p] EXCEPT ![f] = ent[r].content]
    <2>1. content'[p] = Apply(content[p], log[p], lo, c)
        BY <1>1, StoreTypes
    <2>2. /\ DOMAIN Apply(content[p], log[p], lo, c) = File
          /\ Apply(content[p], log[p], lo, c)
               = [g \in File |-> Apply(content[p], log[p], lo, c)[g]]
        BY DEF Apply
    <2>3. content[p] \in [File -> SUBSET Request]
        BY StoreTypes
    <2> HIDE DEF c, lo, f
    <2>4. [content[p] EXCEPT ![f] = ent[r].content]
            = [g \in File |-> Apply(content[p], log[p], lo, c)[g]]
        BY <2>3, <1>4, <1>5
    <2> QED
        BY <2>1, <2>2, <2>4
<1>7. \A o \in Request : pc'[o] = IF o = r THEN "committed" ELSE pc[o]
    BY <1>1, StoreTypes
<1>8. \A o \in Request : pc'[o] \in Holding => o = r
    <2>1. \A o \in Request : pc[o] \in Holding => o = r
        BY <1>1, StoreTypes DEF StoreInv, VersionInv, OneStore, Holding
    <2> QED
        BY <1>7, <2>1
<1>9. commitIndex'[p] = c /\ lastApplied'[p] = c /\ log'[p] = log[p]
    BY <1>1, <1>2, StoreTypes
<1>10. LogEnd(p)'
    <2>1. \A o \in Request : pc'[o] \in Holding => pc'[o] = "committed" /\ o = r
        BY <1>7, <1>8
    <2> HIDE DEF c, lo
    <2> QED
        BY <1>1, <1>2, <1>3, <1>9, <2>1 DEF StoreInv, LogEnd, Holding
<1>11. \A g \in File : Closed(g)' = Closed(g) /\ Started(g)' = Started(g)
    BY <1>1, <1>7 DEF Closed, Started
<1>12. r \in ent[r].content /\ Between(f, ent[r].content)
    BY <1>1 DEF StoreInv, KeptInv, Holding
<1>13. \A g \in File : content'[p][g] = IF g = f THEN ent[r].content ELSE content[p][g]
    BY <1>6, StoreTypes
<1>14. \A g \in File : Between(g, content[p][g])' /\ Between(g, filesPrimes[p][g])'
    BY <1>1, <1>11, <1>12, <1>13 DEF StoreInv, KeptInv, Between
<1>15. ASSUME NEW o \in Request, pc'[o] \in Holding
       PROVE  /\ o \in ent'[o].content /\ Between(FileOf[o], ent[o].content)'
              /\ content'[p][FileOf[o]] = ent'[o].content
    BY <1>1, <1>3, <1>8, <1>11, <1>12, <1>13, <1>15 DEF Between
<1>16. KeptInv(p)'
    BY <1>14, <1>15 DEF KeptInv, Holding
<1> QED
    BY <1>6, <1>10, <1>16

LEMMA StoreFinish ==
    ASSUME NEW p, OneStore(p), StoreInv(p), NEW r \in Request, Finish(r)
    PROVE  LogEnd(p)' /\ KeptInv(p)'
<1> DEFINE f == FileOf[r]
<1>1. /\ pc[r] = "committed" /\ pc' = [pc EXCEPT ![r] = "closed"]
      /\ filesPrimes' = [filesPrimes EXCEPT ![p][f] = ent[r].content]
      /\ UNCHANGED <<status, log, content, commitIndex, lastApplied, ent>>
    BY StoreTypes DEF Finish, OneStore, commitVars
<1>2. \A m \in msgs' : m \in msgs \/ m.dest # p
    BY StoreTypes DEF Finish, Peers
<1>3. \A o \in Request : pc'[o] = IF o = r THEN "closed" ELSE pc[o]
    BY <1>1, StoreTypes
<1>4. \A o \in Request : pc'[o] \notin Holding
    <2>1. \A o \in Request : pc[o] \in Holding => o = r
        BY <1>1, StoreTypes DEF StoreInv, VersionInv, OneStore, Holding
    <2> QED
        BY <1>3, <2>1 DEF Holding
<1>5. LogEnd(p)'
    BY <1>1, <1>2, <1>4 DEF StoreInv, LogEnd, Holding
<1>6. \A g \in File : /\ Closed(g)' = IF g = f THEN Closed(g) \cup {r} ELSE Closed(g)
                      /\ Started(g)' = Started(g)
    BY <1>1, <1>3 DEF Closed, Started
<1>7. /\ r \in ent[r].content /\ Between(f, ent[r].content)
      /\ content[p][f] = ent[r].content
    BY <1>1 DEF StoreInv, KeptInv, Holding
<1>8. \A g \in File : filesPrimes'[p][g]
                        = IF g = f THEN ent[r].content ELSE filesPrimes[p][g]
    BY <1>1, StoreTypes
<1>9. \A g \in File : Between(g, content[p][g])' /\ Between(g, filesPrimes[p][g])'
    BY <1>1, <1>6, <1>7, <1>8 DEF StoreInv, KeptInv, Between
<1>10. KeptInv(p)'
    BY <1>4, <1>9 DEF KeptInv, Holding
<1> QED
    BY <1>5, <1>10

LEMMA StoreNext ==
    ASSUME NEW p, OneStore(p), StoreInv(p), [Next]_vars
    PROVE  StoreInv(p)'
<1> USE DEF commitVars, fileVars, callVars, syncVars
<1>1. TypeInv' /\ VersionInv'
    BY TypeNext, VersionNext, StoreTypes DEF StoreInv, OneStore
<1>2. ASSUME NEW r \in Request, Open(r) PROVE LogEnd(p)' /\ KeptInv(p)'
    BY <1>2, StoreCalm DEF Open
<1>3. ASSUME NEW r \in Request, CloseArrives(r) PROVE LogEnd(p)' /\ KeptInv(p)'
    BY <1>3, StoreCalm DEF CloseArrives
<1>4. ASSUME NEW r \in Request, Conflict(r) PROVE LogEnd(p)' /\ KeptInv(p)'
    BY <1>4, StoreCalm DEF Conflict
<1>5. ASSUME NEW r \in Request, SendAppends(r) PROVE LogEnd(p)' /\ KeptInv(p)'
    <2>1. \A m \in msgs' : m \in msgs \/ m.dest # p
        BY <1>5, StoreTypes DEF SendAppends, Peers
    <2> QED
        BY <1>5, <2>1, StoreCalm DEF SendAppends
<1>6. ASSUME NEW r \in Request, Timeout(r) PROVE LogEnd(p)' /\ KeptInv(p)'
    BY <1>6, StoreCalm DEF Timeout
<1>7. ASSUME NEW m \in msgs, NEW ok \in BOOLEAN, NEW heard \in BOOLEAN,
             AppendEntries(m, ok, heard)
      PROVE  LogEnd(p)' /\ KeptInv(p)'
    <2>1. m.dest # p
        BY DEF StoreInv, LogEnd
    <2>2. /\ log'[p] = log[p] /\ content'[p] = content[p]
          /\ commitIndex'[p] = commitIndex[p] /\ lastApplied'[p] = lastApplied[p]
        BY <1>7, <2>1, StoreTypes DEF AppendEntries
    <2> QED
        BY <1>7, <2>2, StoreElsewhere DEF AppendEntries
<1>8. ASSUME NEW s \in Server, s # p, NEW how, Halt(s, how), content'[p] = content[p],
             msgs' \subseteq msgs
      PROVE  LogEnd(p)' /\ KeptInv(p)'
    <2>1. pc' = pc
        <3>1. \A r \in Request : pc'[r] = pc[r]
            BY <1>8, StoreTypes DEF Halt
        <3> QED
            BY <1>8, <3>1, StoreTypes DEF Halt
    <2>2. /\ log'[p] = log[p] /\ status'[p] = status[p]
          /\ commitIndex'[p] = commitIndex[p] /\ lastApplied'[p] = lastApplied[p]
          /\ filesPrimes'[p] = filesPrimes[p]
        BY <1>8, StoreTypes DEF Halt
    <2> QED
        BY <1>8, <2>1, <2>2, StoreElsewhere DEF Halt
<1>9. ASSUME NEW m \in msgs, NEW ok \in BOOLEAN, AppendEntriesPanics(m, ok)
      PROVE  LogEnd(p)' /\ KeptInv(p)'
    <2>1. m.dest # p /\ m.dest \in Server
        BY StoreTypes DEF StoreInv, LogEnd, Message
    <2>2. content'[p] = content[p] /\ Halt(m.dest, "panicked") /\ msgs' \subseteq msgs
        BY <1>9, <2>1, StoreTypes DEF AppendEntriesPanics
    <2> QED
        BY <1>8, <2>1, <2>2
<1>10. ASSUME NEW s \in Server, Crash(s) PROVE LogEnd(p)' /\ KeptInv(p)'
    <2>1. s # p /\ Halt(s, "down") /\ UNCHANGED <<content, msgs>>
        BY <1>10 DEF Crash, OneStore
    <2> QED
        BY <1>8, <2>1
<1>11. ASSUME NEW s \in Server, Restart(s) PROVE LogEnd(p)' /\ KeptInv(p)'
    <2>1. s # p
        BY <1>11 DEF Restart, OneStore
    <2>2. /\ log'[p] = log[p] /\ status'[p] = status[p] /\ content'[p] = content[p]
        BY <1>11, <2>1, StoreTypes DEF Restart
    <2> QED
        BY <1>11, <2>2, StoreElsewhere DEF Restart
<1>12. ASSUME NEW q \in Server, NEW o \in Server, RequestRecovery(q, o)
       PROVE  LogEnd(p)' /\ KeptInv(p)'
    BY <1>12, StoreElsewhere DEF RequestRecovery
<1>13. ASSUME NEW q \in Server, ApplyUpdate(q) PROVE LogEnd(p)' /\ KeptInv(p)'
    <2>1. q # p
        BY <1>13, StoreTypes DEF ApplyUpdate, StoreInv, TypeInv, IndexInLog
    <2>2. /\ log'[p] = log[p] /\ content'[p] = content[p]
          /\ commitIndex'[p] = commitIndex[p] /\ lastApplied'[p] = lastApplied[p]
        BY <1>13, <2>1, StoreTypes DEF ApplyUpdate
    <2> QED
        BY <1>13, <2>2, StoreElsewhere DEF ApplyUpdate
<1>14. ASSUME UNCHANGED vars PROVE LogEnd(p)' /\ KeptInv(p)'
    <2>1. UNCHANGED <<status, log, commitIndex, lastApplied, content,
                      filesPrimes, pc, ent, msgs>>
        BY <1>14 DEF vars
    <2> QED
        BY <2>1, StoreElsewhere
<1>15. LogEnd(p)' /\ KeptInv(p)'
    BY <1>2, <1>3, <1>4, <1>5, <1>6, <1>7, <1>9, <1>10, <1>11, <1>12, <1>13,
       <1>14, StoreBegin, StoreLogged, StoreCommit, StoreFinish
    DEF Next, Handler, Network, Ends, Failure
<1> QED
    BY <1>1, <1>15 DEF StoreInv

LEMMA StoreInit == ASSUME NEW p, OneStore(p), Init PROVE StoreInv(p)
<1>1. LogEnd(p)
    BY DEF Init, LogEnd, OneStore, Holding
<1>2. KeptInv(p)
    BY DEF Init, KeptInv, OneStore, Holding, Between, Closed, Started, NoFiles
<1> QED
    BY <1>1, <1>2, TypeInit, VersionInit DEF StoreInv

THEOREM StoreInvariant ==
    ASSUME NEW p, OneStore(p) PROVE Spec => []StoreInv(p)
<1>1. Init => StoreInv(p)
    BY StoreInit
<1>2. StoreInv(p) /\ [Next]_vars => StoreInv(p)'
    BY StoreNext
<1> QED
    BY <1>1, <1>2, PTL DEF Spec

(* The number of an answered Close stays in the primary's file, whatever   *)
(* fails elsewhere, on its disk or in a later call.                        *)
THEOREM AnsweredDataStays ==
    ASSUME NEW p, OneStore(p) PROVE Spec => []AckedDataKept
<1>1. StoreInv(p) => AckedDataKept
    <2> SUFFICES ASSUME StoreInv(p), NEW r \in Request, pc[r] = "closed"
                 PROVE  r \in content[ServedBy[r]][FileOf[r]]
        BY DEF AckedDataKept
    <2>1. r \in Closed(FileOf[r]) /\ FileOf[r] \in File /\ ServedBy[r] = p
        BY StoreTypes DEF Closed
    <2> QED
        BY <2>1 DEF StoreInv, KeptInv, Between
<1> QED
    BY <1>1, StoreInvariant, PTL

(* The commit index of the running primary never goes back, and what it    *)
(* covers is applied at every step.                                        *)
THEOREM CommitIndexGrows ==
    ASSUME NEW p, OneStore(p) PROVE Spec => CommitMonotone
<1>1. StoreInv(p) /\ StoreInv(p)' /\ [Next]_vars => [CommitForward]_vars
    <2> SUFFICES ASSUME StoreInv(p), StoreInv(p)', [Next]_vars
                 PROVE  commitIndex'[p] >= commitIndex[p]
        BY StoreTypes DEF StoreInv, LogEnd, CommitForward
    <2> USE DEF commitVars, StoreInv, LogEnd
    <2>1. ASSUME NEW r \in Request, Commit(r)
          PROVE  commitIndex'[p] >= commitIndex[p]
        <3>1. commitIndex'[p] = ent[r].index /\ commitIndex[p] < ent[r].index
            BY <2>1, StoreTypes DEF Commit, CommitUpTo
        <3>2. ent[r].index \in Nat
            BY <2>1, StoreTypes DEF Commit, Holding, Entry
        <3> QED
            BY <3>1, <3>2, StoreTypes
    <2>2. ASSUME NEW m \in msgs, m.dest # p,
                 \/ \E ok, heard \in BOOLEAN : AppendEntries(m, ok, heard)
                 \/ \E ok \in BOOLEAN : AppendEntriesPanics(m, ok)
          PROVE  commitIndex'[p] = commitIndex[p]
        BY <2>2, StoreTypes DEF AppendEntries, AppendEntriesPanics, Halt
    <2>3. ASSUME NEW s \in Server, s # p, Crash(s) \/ ApplyUpdate(s)
          PROVE  commitIndex'[p] = commitIndex[p]
        BY <2>3, StoreTypes DEF Crash, ApplyUpdate, Halt
    <2>4. ~Crash(p) /\ ~ApplyUpdate(p)
        <3>1. p \notin CanCrash /\ sync[p] = "none"
            BY StoreTypes DEF OneStore, TypeInv, IndexInLog
        <3> QED
            BY <3>1 DEF Crash, ApplyUpdate
    <2>5. ASSUME NEW r \in Request, Finish(r) PROVE commitIndex' = commitIndex
        BY <2>5 DEF Finish, OneStore
    <2>6. commitIndex'[p] = commitIndex[p] \/ \E r \in Request : Commit(r)
        BY <2>2, <2>3, <2>4, <2>5
        DEF Next, Handler, Network, Ends, Failure, vars, Open, CloseArrives, BeginClose,
            Conflict, AppendLog, SendAppends, Timeout, Restart, RequestRecovery
    <2> QED
        BY <2>1, <2>6, StoreTypes
<1> QED
    BY <1>1, StoreInvariant, PTL DEF Spec, CommitMonotone

-----------------------------------------------------------------------------
(* What the one primary's state amounts to.                                *)
LEMMA Mapped ==
    ASSUME NEW p, OneStore(p)
    PROVE  /\ Versions = [f \in File |-> IF version[p][f] = Absent THEN 1
                                         ELSE version[p][f]]
           /\ Stored = [f \in File |-> content[p][f]]
           /\ Versions' = [f \in File |-> IF version'[p][f] = Absent THEN 1
                                          ELSE version'[p][f]]
           /\ Stored' = [f \in File |-> content'[p][f]]
<1>1. Primaries = {p}
    BY DEF Primaries, OneStore
<1>2. \A x : (CHOOSE n \in {x} : TRUE) = x /\ UNION {x} = x
    OBVIOUS
<1>3. \A f : /\ {version[q][f] : q \in {p}} = {version[p][f]}
             /\ {version'[q][f] : q \in {p}} = {version'[p][f]}
             /\ {content[q][f] : q \in {p}} = {content[p][f]}
             /\ {content'[q][f] : q \in {p}} = {content'[p][f]}
    OBVIOUS
<1>4. \A f : /\ {version[q][f] : q \in Primaries} = {version[p][f]}
             /\ {version'[q][f] : q \in Primaries} = {version'[p][f]}
             /\ {content[q][f] : q \in Primaries} = {content[p][f]}
             /\ {content'[q][f] : q \in Primaries} = {content'[p][f]}
    BY <1>1, <1>3
<1>5. \A f : /\ FileVersion(f) = IF version[p][f] = Absent THEN 1
                                 ELSE version[p][f]
             /\ FileVersion(f)' = IF version'[p][f] = Absent THEN 1
                                  ELSE version'[p][f]
    <2> TAKE f
    <2>1. \A S, x : S = {x} => /\ (CHOOSE n \in S : TRUE) = x
                               /\ S = {Absent} <=> x = Absent
        BY <1>2
    <2>2. /\ {version[q][f] : q \in Primaries} = {version[p][f]}
          /\ {version'[q][f] : q \in Primaries} = {version'[p][f]}
        BY <1>4
    <2>3. FileVersion(f) = IF version[p][f] = Absent THEN 1 ELSE version[p][f]
        BY <2>1, <2>2 DEF FileVersion
    <2>4. FileVersion(f)' = IF version'[p][f] = Absent THEN 1
                            ELSE version'[p][f]
        BY <2>1, <2>2 DEF FileVersion
    <2> QED
        BY <2>3, <2>4
<1> QED
    BY <1>2, <1>4, <1>5 DEF Versions, Stored

(* Nothing the clients can see changes.                                    *)
LEMMA Unseen ==
    ASSUME NEW p, OneStore(p), version'[p] = version[p], content'[p] = content[p],
           base' = base, \A r \in Request : Outcome(r)' = Outcome(r)
    PROVE  UNCHANGED Promise!vars
<1>1. Versions' = Versions /\ Stored' = Stored
    BY Mapped
<1>2. Seen' = Seen /\ Outcomes' = Outcomes
    BY DEF Seen, Outcomes
<1> QED
    BY <1>1, <1>2 DEF Promise!vars

LEMMA OutcomeMoves ==
    ASSUME NEW p, OneStore(p), StoreInv(p), NEW r \in Request, NEW to,
           pc' = [pc EXCEPT ![r] = to]
    PROVE  /\ Outcomes' = [Outcomes EXCEPT ![r] = Outcome(r)']
           /\ pc'[r] = to
           /\ Outcome(r)' = Outcome(r) => Outcomes' = Outcomes
<1>1. \A o \in Request : pc'[o] = IF o = r THEN to ELSE pc[o]
    BY StoreTypes
<1>2. \A o \in Request : o # r => Outcome(o)' = Outcome(o)
    BY <1>1 DEF Outcome
<1> HIDE DEF Outcome
<1> QED
    BY <1>1, <1>2 DEF Outcomes

LEMMA PromiseInit == ASSUME NEW p, OneStore(p), Init PROVE Promise!Init
<1>1. /\ version[p] = [f \in File |-> Absent] /\ content[p] = NoFiles
      /\ pc = [r \in Request |-> "idle"] /\ base = [r \in Request |-> Absent]
    BY DEF Init, OneStore
<1>2. Versions = [f \in File |-> 1] /\ Stored = [f \in File |-> {}]
    BY <1>1, Mapped DEF NoFiles
<1>3. Seen = [r \in Request |-> 0]
    BY <1>1 DEF Seen
<1>4. Outcomes = [r \in Request |-> "none"]
    <2>1. \A r \in Request : Outcome(r) = "none"
        BY <1>1 DEF Outcome, Dead
    <2> QED
        BY <2>1 DEF Outcomes
<1> QED
    BY <1>2, <1>3, <1>4 DEF Promise!Init

LEMMA PromiseOpen ==
    ASSUME NEW p, OneStore(p), StoreInv(p), NEW r \in Request, Open(r)
    PROVE  Promise!Open(r)
<1> DEFINE f == FileOf[r]
           v == IF version[p][f] = Absent THEN 1 ELSE version[p][f]
<1>1. /\ pc[r] = "idle" /\ pc' = [pc EXCEPT ![r] = "open"]
      /\ base' = [base EXCEPT ![r] = v]
      /\ version' = [version EXCEPT ![p][f] = v] /\ UNCHANGED content
    BY StoreTypes DEF Open
<1>2. p \in Server /\ f \in File /\ v \in Nat
      /\ version \in [Server -> [File -> Nat \cup {Absent}]]
      /\ base \in [Request -> Nat \cup {Absent}]
    <2>1. /\ p \in Server /\ f \in File
          /\ version \in [Server -> [File -> Nat \cup {Absent}]]
          /\ base \in [Request -> Nat \cup {Absent}]
        BY StoreTypes DEF StoreInv, TypeInv, TypeOK
    <2>2. version[p][f] \in Nat \cup {Absent}
        <3> HIDE DEF f
        <3> QED
            BY <2>1
    <2> QED
        BY <2>1, <2>2
<1>3. \A g \in File : version'[p][g] = IF g = f THEN v ELSE version[p][g]
    BY <1>1, <1>2
<1>4. Versions' = Versions /\ Versions[f] = v
    <2> HIDE DEF f
    <2>1. v # Absent
        BY <1>2 DEF Absent
    <2> QED
        BY <1>2, <1>3, <2>1, Mapped
<1>5. Stored' = Stored
    BY <1>1, Mapped
<1>6. Outcome(r) = "none" /\ Outcomes' = [Outcomes EXCEPT ![r] = "open"]
    <2>1. /\ Outcomes' = [Outcomes EXCEPT ![r] = Outcome(r)']
          /\ pc'[r] = "open"
        BY <1>1, OutcomeMoves
    <2>2. Outcome(r) = "none" /\ Outcome(r)' = "open"
        BY <1>1, <2>1 DEF Outcome, Dead
    <2> QED
        BY <2>1, <2>2
<1>7. Seen' = [Seen EXCEPT ![r] = v]
    <2>1. \A o \in Request : base'[o] = IF o = r THEN v ELSE base[o]
        BY <1>1, <1>2
    <2>2. v # Absent
        BY <1>2 DEF Absent
    <2> HIDE DEF v
    <2> QED
        BY <2>1, <2>2 DEF Seen
<1>8. Outcomes[r] = "none"
    BY <1>6 DEF Outcomes
<1> QED
    BY <1>4, <1>5, <1>6, <1>7, <1>8 DEF Promise!Open

(* A call goes on: its outcome is what it was, or its client is refused.   *)
LEMMA PromiseCalm ==
    ASSUME NEW p, OneStore(p), StoreInv(p), NEW r \in Request, NEW to,
           UNCHANGED <<version, content, base>>, pc' = [pc EXCEPT ![r] = to],
           \/ pc[r] = "open" /\ to = "closing"
           \/ pc[r] \in {"closing", "prepared", "logged"}
              /\ to \in {"prepared", "logged", "waiting", "failed", "conflict"}
           \/ pc[r] = "waiting" /\ to = "failed"
    PROVE  [Promise!Next]_(Promise!vars)
<1>1. Versions' = Versions /\ Stored' = Stored /\ Seen' = Seen
    BY Mapped DEF Seen
<1>2. Outcomes' = [Outcomes EXCEPT ![r] = Outcome(r)'] /\ pc'[r] = to
      /\ (Outcome(r)' = Outcome(r) => Outcomes' = Outcomes)
    BY OutcomeMoves
<1>3. Outcomes[r] = Outcome(r)
    BY DEF Outcomes
<1>4. CASE pc[r] = "open" /\ to = "closing"
    <2>1. Outcome(r) = "open" /\ Outcome(r)' = "sent"
        BY <1>2, <1>4 DEF Outcome, Dead
    <2> QED
        BY <1>1, <1>2, <1>3, <2>1 DEF Promise!Next, Promise!Send
<1>5. CASE pc[r] \in {"closing", "prepared", "logged", "waiting"}
           /\ to \in {"conflict", "failed"}
    <2>1. Outcome(r) = "sent" /\ Outcome(r)' = "refused"
        BY <1>2, <1>5 DEF Outcome, Dead
    <2> QED
        BY <1>1, <1>2, <1>3, <2>1 DEF Promise!Next, Promise!Refuse
<1>6. CASE pc[r] \in {"closing", "prepared", "logged"}
           /\ to \in {"prepared", "logged", "waiting"}
    <2>1. Outcome(r) = "sent" /\ Outcome(r)' = "sent"
        BY <1>2, <1>6 DEF Outcome, Dead
    <2> QED
        BY <1>1, <1>2, <2>1 DEF Promise!vars
<1> QED
    BY <1>4, <1>5, <1>6

LEMMA PromiseCommit ==
    ASSUME NEW p, OneStore(p), StoreInv(p), NEW r \in Request, Commit(r)
    PROVE  Promise!Next
<1> DEFINE f == FileOf[r]
           numbers == ent[r].content
<1>1. /\ pc[r] = "waiting" /\ pc' = [pc EXCEPT ![r] = "committed"]
      /\ UNCHANGED <<version, base>>
    BY DEF Commit
<1>2. content'[p] = [content[p] EXCEPT ![f] = numbers]
    BY StoreCommit
<1>3. Versions' = Versions /\ Seen' = Seen
    BY <1>1, Mapped DEF Seen
<1>4. Outcomes' = Outcomes
    <2>1. pc'[r] = "committed" /\ (Outcome(r)' = Outcome(r) => Outcomes' = Outcomes)
        BY <1>1, OutcomeMoves
    <2>2. Outcome(r) = "sent" /\ Outcome(r)' = "sent"
        BY <1>1, <2>1 DEF Outcome, Dead
    <2> QED
        BY <2>1, <2>2
<1>5. Stored' = [Stored EXCEPT ![f] = numbers]
    <2>1. f \in File /\ content[p] \in [File -> SUBSET Request]
        BY StoreTypes
    <2> HIDE DEF f, numbers
    <2> QED
        BY <1>2, <2>1, Mapped
<1>6. Between(f, numbers) /\ f \in File /\ numbers \in SUBSET Request
    BY <1>1, StoreTypes DEF StoreInv, KeptInv, Holding, Entry
<1>7. Promise!Accepted(f) \subseteq numbers
    <2>1. \A o \in Request : Outcomes[o] = "accepted" => pc[o] = "closed"
        BY DEF Outcomes, Outcome
    <2> QED
        BY <1>6, <2>1 DEF Between, Closed, Promise!Accepted
<1>8. numbers \subseteq Promise!Sent(f)
    <2>1. \A o \in Request : pc[o] \notin {"idle", "open"}
              => Outcomes[o] \in {"sent", "accepted", "refused"}
        BY DEF Outcomes, Outcome
    <2> QED
        BY <1>6, <2>1 DEF Between, Started, Promise!Sent
<1>9. Promise!Rewrite(f, numbers)
    BY <1>3, <1>4, <1>5, <1>7, <1>8 DEF Promise!Rewrite
<1> QED
    BY <1>6, <1>9 DEF Promise!Next

LEMMA PromiseFinish ==
    ASSUME NEW p, OneStore(p), StoreInv(p), NEW r \in Request, Finish(r)
    PROVE  Promise!Accept(r)
<1> DEFINE f == FileOf[r]
           v == version[p][f]
<1>1. /\ pc[r] = "committed" /\ pc' = [pc EXCEPT ![r] = "closed"]
      /\ version' = [version EXCEPT ![p][f] = v + 1]
      /\ UNCHANGED <<content, base>>
    BY StoreTypes DEF Finish, OneStore, commitVars
<1>2. base[r] = v /\ base[r] \in Nat /\ r \in content[p][f]
    BY <1>1, StoreTypes
    DEF StoreInv, VersionInv, KeptInv, Holding
<1>3. p \in Server /\ f \in File
      /\ version \in [Server -> [File -> Nat \cup {Absent}]]
    BY StoreTypes
<1>4. \A g \in File : version'[p][g] = IF g = f THEN v + 1 ELSE version[p][g]
    BY <1>1, <1>3
<1> HIDE DEF v, f
<1>5. Versions' = [Versions EXCEPT ![f] = Versions[f] + 1] /\ Versions[f] = v
    <2>1. v \in Nat /\ v # Absent /\ v + 1 # Absent
        BY <1>2 DEF Absent
    <2>2. Versions[f] = v
        BY <1>3, <2>1, Mapped DEF v
    <2>3. Versions' = [g \in File |-> IF g = f THEN v + 1 ELSE Versions[g]]
        BY <1>3, <1>4, <2>1, Mapped
    <2>4. DOMAIN Versions = File /\ Versions = [g \in File |-> Versions[g]]
        BY DEF Versions
    <2> QED
        BY <2>2, <2>3, <2>4, <1>3
<1>6. Stored' = Stored /\ r \in Stored[f] /\ Seen' = Seen /\ Seen[r] = v
    BY <1>1, <1>2, <1>3, Mapped DEF Seen, Absent
<1>7. /\ Outcomes' = [Outcomes EXCEPT ![r] = "accepted"]
      /\ Outcomes[r] = "sent"
    <2>1. /\ Outcomes' = [Outcomes EXCEPT ![r] = Outcome(r)']
          /\ pc'[r] = "closed"
        BY <1>1, OutcomeMoves
    <2>2. Outcome(r) = "sent" /\ Outcome(r)' = "accepted"
        BY <1>1, <2>1 DEF Outcome, Dead
    <2>3. Outcomes[r] = Outcome(r)
        BY DEF Outcomes
    <2> QED
        BY <2>1, <2>2, <2>3
<1> QED
    BY <1>5, <1>6, <1>7 DEF Promise!Accept, f

LEMMA PromiseNext ==
    ASSUME NEW p, OneStore(p), StoreInv(p), [Next]_vars
    PROVE  [Promise!Next]_(Promise!vars)
<1> USE DEF commitVars, fileVars, callVars, syncVars
<1>1. ASSUME NEW r \in Request, CloseArrives(r)
      PROVE  [Promise!Next]_(Promise!vars)
    BY <1>1, PromiseCalm DEF CloseArrives
<1>2. ASSUME NEW r \in Request, BeginClose(r) PROVE [Promise!Next]_(Promise!vars)
    BY <1>2, PromiseCalm DEF BeginClose
<1>3. ASSUME NEW r \in Request, Conflict(r) PROVE [Promise!Next]_(Promise!vars)
    BY <1>3, PromiseCalm DEF Conflict
<1>4. ASSUME NEW r \in Request, NEW ok \in BOOLEAN, AppendLog(r, ok)
      PROVE  [Promise!Next]_(Promise!vars)
    BY <1>4, PromiseCalm DEF AppendLog
<1>5. ASSUME NEW r \in Request, SendAppends(r) PROVE [Promise!Next]_(Promise!vars)
    BY <1>5, PromiseCalm DEF SendAppends
<1>6. ASSUME NEW r \in Request, Timeout(r) PROVE [Promise!Next]_(Promise!vars)
    BY <1>6, PromiseCalm DEF Timeout
<1>7. ASSUME UNCHANGED <<pc, base>>, version'[p] = version[p],
             content'[p] = content[p]
      PROVE  [Promise!Next]_(Promise!vars)
    <2>1. \A r \in Request : Outcome(r)' = Outcome(r)
        BY <1>7 DEF Outcome
    <2> QED
        BY <1>7, <2>1, Unseen
<1>8. ASSUME NEW m \in msgs, NEW ok \in BOOLEAN, NEW heard \in BOOLEAN,
             AppendEntries(m, ok, heard)
      PROVE  [Promise!Next]_(Promise!vars)
    <2>1. m.dest # p
        BY DEF StoreInv, LogEnd
    <2>2. content'[p] = content[p]
        BY <1>8, <2>1, StoreTypes DEF AppendEntries
    <2> QED
        BY <1>7, <1>8, <2>2 DEF AppendEntries
<1>9. ASSUME NEW s \in Server, s # p, NEW how, Halt(s, how), content'[p] = content[p]
      PROVE  [Promise!Next]_(Promise!vars)
    <2>1. pc' = pc
        <3>1. \A r \in Request : pc'[r] = pc[r]
            BY <1>9, StoreTypes DEF Halt
        <3> QED
            BY <1>9, <3>1, StoreTypes DEF Halt
    <2>2. version'[p] = version[p]
        BY <1>9, StoreTypes DEF Halt
    <2> QED
        BY <1>7, <1>9, <2>1, <2>2 DEF Halt
<1>10. ASSUME NEW m \in msgs, NEW ok \in BOOLEAN, AppendEntriesPanics(m, ok)
       PROVE  [Promise!Next]_(Promise!vars)
    <2>1. m.dest # p /\ m.dest \in Server
        BY StoreTypes DEF StoreInv, LogEnd, Message
    <2>2. content'[p] = content[p] /\ Halt(m.dest, "panicked")
        BY <1>10, <2>1, StoreTypes DEF AppendEntriesPanics
    <2> QED
        BY <1>9, <2>1, <2>2
<1>11. ASSUME NEW s \in Server, Crash(s) PROVE [Promise!Next]_(Promise!vars)
    <2>1. s # p /\ Halt(s, "down") /\ UNCHANGED content
        BY <1>11 DEF Crash, OneStore
    <2> QED
        BY <1>9, <2>1
<1>12. ASSUME NEW s \in Server, Restart(s) PROVE [Promise!Next]_(Promise!vars)
    <2>1. s # p
        BY <1>12 DEF Restart, OneStore
    <2>2. content'[p] = content[p]
        BY <1>12, <2>1, StoreTypes DEF Restart
    <2> QED
        BY <1>7, <1>12, <2>2 DEF Restart
<1>13. ASSUME NEW q \in Server, NEW o \in Server, RequestRecovery(q, o)
       PROVE  [Promise!Next]_(Promise!vars)
    BY <1>7, <1>13 DEF RequestRecovery
<1>14. ASSUME NEW q \in Server, ApplyUpdate(q) PROVE [Promise!Next]_(Promise!vars)
    <2>1. q # p
        BY <1>14, StoreTypes DEF ApplyUpdate, StoreInv, TypeInv, IndexInLog
    <2>2. content'[p] = content[p] /\ version'[p] = version[p]
        BY <1>14, <2>1, StoreTypes DEF ApplyUpdate
    <2> QED
        BY <1>7, <1>14, <2>2 DEF ApplyUpdate
<1>15. ASSUME UNCHANGED vars PROVE [Promise!Next]_(Promise!vars)
    BY <1>7, <1>15 DEF vars
<1>16. ASSUME NEW r \in Request, Open(r) \/ Commit(r) \/ Finish(r)
       PROVE  Promise!Next
    BY <1>16, PromiseOpen, PromiseCommit, PromiseFinish DEF Promise!Next
<1> QED
    BY <1>1, <1>2, <1>3, <1>4, <1>5, <1>6, <1>8, <1>10, <1>11, <1>12, <1>13,
       <1>14, <1>15, <1>16
    DEF Next, Handler, Network, Ends, Failure

(* The commit path implements VersionedFiles: what one primary that does   *)
(* not crash tells its clients about versions and numbers is true, with    *)
(* followers that crash, miss requests, panic or recover, and any disk     *)
(* that fails.                                                             *)
THEOREM PromiseIsKept ==
    ASSUME NEW p, OneStore(p) PROVE Spec => KeepsPromise
<1>1. Init => Promise!Init
    BY PromiseInit
<1>2. StoreInv(p) /\ [Next]_vars => [Promise!Next]_(Promise!vars)
    BY PromiseNext
<1> QED
    BY <1>1, <1>2, StoreInvariant, PTL DEF Spec, KeepsPromise, Promise!Spec

=============================================================================
