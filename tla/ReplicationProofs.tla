------------------------- MODULE ReplicationProofs -------------------------
(***************************************************************************)
(* The type invariant of Replication, for every value of the constants,    *)
(* and the safety of the commit path, for any number of servers, calls and *)
(* crashes, in the setting where the code provides it: one primary, one    *)
(* file, disks that do not fail, no full sync, every server flagged alive. *)
(***************************************************************************)
EXTENDS Replication, SequenceTheorems, FiniteSetTheorems, TLAPS

(* A call's index is within its server's log from the append on, so that   *)
(* applying up to it reads entries the log holds; only a backup recovers   *)
(* from the leader, so that no primary's log is emptied under its calls.   *)
IndexInLog ==
    /\ \A s \in Server : status[s] # "up" => log[s] = <<>>
    /\ \A s \in Primaries : sync[s] = "none"
    /\ \A r \in Request :
         pc[r] = "prepared" => ent[r].index <= Len(log[ServedBy[r]]) + 1
    /\ \A r \in Request :
         pc[r] \in {"logged", "waiting", "committed"}
            => ent[r].index <= Len(log[ServedBy[r]])

TypeInv == TypeOK /\ IndexInLog

-----------------------------------------------------------------------------
(* Applying a stretch of a log, or all of it, gives every file a set of    *)
(* requests.                                                               *)
LEMMA ApplyType ==
    ASSUME NEW files \in [File -> SUBSET Request], NEW entries \in Seq(Entry),
           NEW lo \in Nat, NEW hi \in Nat, lo >= 1,
           lo <= hi => hi <= Len(entries)
    PROVE  Apply(files, entries, lo, hi) \in [File -> SUBSET Request]
<1> SUFFICES ASSUME NEW f \in File
             PROVE  Apply(files, entries, lo, hi)[f] \in SUBSET Request
    BY DEF Apply
<1> DEFINE hits == {i \in lo..hi : entries[i].file = f}
           last == {i \in hits : \A j \in hits : j <= i}
<1>1. \A i \in lo..hi : entries[i] \in Entry
    OBVIOUS
<1>2. UNION {entries[i].content : i \in last} \in SUBSET Request
    BY <1>1 DEF Entry
<1> QED
    BY <1>2 DEF Apply

LEMMA ApplyAllType ==
    ASSUME NEW files \in [File -> SUBSET Request], NEW entries \in Seq(Entry),
           NEW lo \in Nat, lo >= 1
    PROVE  Apply(files, entries, lo, Len(entries)) \in [File -> SUBSET Request]
<1> DEFINE n == Len(entries)
<1>1. n \in Nat /\ n <= Len(entries)
    OBVIOUS
<1> HIDE DEF n
<1>2. Apply(files, entries, lo, n) \in [File -> SUBSET Request]
    BY <1>1, ApplyType
<1> QED
    BY <1>2 DEF n

(* The variables keep their types, whatever the constants: any number of   *)
(* primaries and files, failing disks, recoveries from the leader.         *)
LEMMA TypeInit == Init => TypeInv
BY RequestAssumption DEF Init, TypeInv, TypeOK, IndexInLog, NoFiles, CallState,
   Primaries, Absent, NoEntry, Holding

LEMMA TypeNext == TypeInv /\ [Next]_vars => TypeInv'
<1> SUFFICES ASSUME TypeInv, [Next]_vars
             PROVE  TypeInv'
    OBVIOUS
<1> USE RequestAssumption DEF TypeInv, TypeOK, IndexInLog, commitVars, fileVars,
        callVars, syncVars, Primaries
<1>1. ASSUME NEW r \in Request, Open(r) PROVE TypeInv'
    BY <1>1 DEF Open, Absent, CallState, Holding
<1>2. ASSUME NEW r \in Request, CloseArrives(r) PROVE TypeInv'
    BY <1>2 DEF CloseArrives, CallState, Holding
<1>3. ASSUME NEW r \in Request, BeginClose(r) PROVE TypeInv'
    <2>0. Merged(r) \in SUBSET Request /\ Uploaded(r) \in SUBSET Request
        BY DEF Merged, Uploaded
    <2>1. [index |-> NextIndex(ServedBy[r]), file |-> FileOf[r],
           content |-> Uploaded(r)] \in Entry
        BY <2>0 DEF Entry, NextIndex
    <2>2. /\ ent' = [ent EXCEPT ![r] = [index |-> NextIndex(ServedBy[r]),
                                         file |-> FileOf[r],
                                         content |-> Uploaded(r)]]
          /\ pc' = [pc EXCEPT ![r] = "prepared"]
          /\ UNCHANGED <<log, sync>>
        BY <1>3 DEF BeginClose
    <2>3. filesPrimes' \in [Server -> [File -> SUBSET Request]]
        <3>1. CASE filesPrimes' = filesPrimes
            BY <3>1
        <3>2. CASE filesPrimes' = [filesPrimes EXCEPT
                                     ![ServedBy[r]][FileOf[r]] = Merged(r)]
            BY <3>2, <2>0
        <3> QED
            BY <3>1, <3>2, <1>3 DEF BeginClose
    <2>4. ent' \in [Request ->
                      [index : Nat, file : File, content : SUBSET Request]]
        BY <2>1, <2>2 DEF Entry
    <2>5. \A o \in Request : pc'[o] \in Holding => ent'[o] \in Entry
        BY <2>1, <2>2
    <2>6. pc' \in [Request -> CallState]
        BY <2>2 DEF CallState, Holding
    <2>7. IndexInLog'
        <3>1. UNCHANGED status
            BY <1>3 DEF BeginClose
        <3> QED
            BY <2>1, <2>2, <3>1 DEF NextIndex
    <2> QED
        BY <1>3, <2>3, <2>4, <2>5, <2>6, <2>7 DEF BeginClose
<1>4. ASSUME NEW r \in Request, Conflict(r) PROVE TypeInv'
    BY <1>4 DEF Conflict, CallState, Holding, Answered
<1>5. ASSUME NEW r \in Request, NEW ok \in BOOLEAN, AppendLog(r, ok)
      PROVE TypeInv'
    <2> DEFINE s == ServedBy[r]
    <2>1. pc[r] = "prepared" /\ ent[r] \in Entry /\ s \in Server
        BY <1>5 DEF AppendLog, Holding
    <2>2. log' = [log EXCEPT ![s] = Append(log[s], ent[r])]
        BY <1>5 DEF AppendLog
    <2>3. log' \in [Server -> Seq(Entry)] /\ disk' \in [Server -> Seq(Entry)]
        BY <1>5, <2>1, <2>2 DEF AppendLog
    <2>4. pc' = [pc EXCEPT ![r] = IF ok THEN "logged" ELSE "failed"]
        BY <1>5 DEF AppendLog
    <2>5. /\ pc' \in [Request -> CallState]
          /\ \A o \in Request : pc'[o] \in Holding => ent[o] \in Entry
        BY <2>1, <2>4 DEF CallState, Holding, Answered
    <2>6. \A q \in Server : Len(log'[q]) >= Len(log[q])
        BY <2>1, <2>2
    <2>7. Len(log'[s]) = Len(log[s]) + 1
        BY <2>1, <2>2
    <2>8. IndexInLog'
        <3>1. \A q \in Server : status'[q] # "up" => log'[q] = <<>>
            BY <1>5, <2>1, <2>2 DEF AppendLog
        <3> QED
            BY <1>5, <2>1, <2>4, <2>6, <2>7, <3>1 DEF AppendLog
    <2> QED
        BY <1>5, <2>3, <2>5, <2>8 DEF AppendLog
<1>6. ASSUME NEW r \in Request, SendAppends(r) PROVE TypeInv'
    <2>1. msgs' \subseteq Message
        BY <1>6 DEF SendAppends, Holding, Message, Peers
    <2>2. pc' = [pc EXCEPT ![r] = "waiting"] /\ pc[r] = "logged"
        BY <1>6 DEF SendAppends
    <2>3. IndexInLog'
        BY <1>6, <2>2 DEF SendAppends
    <2>4. pc' \in [Request -> CallState]
        BY <2>2 DEF CallState, Holding
    <2>5. \A o \in Request : pc'[o] \in Holding => ent[o] \in Entry
        BY <2>2 DEF Holding
    <2> QED
        BY <1>6, <2>1, <2>3, <2>4, <2>5 DEF SendAppends
<1>7. ASSUME NEW r \in Request, Commit(r) PROVE TypeInv'
    <2> DEFINE s == ServedBy[r]
               c == ent[r].index
    <2>1. s \in Server /\ c \in Nat /\ c <= Len(log[s]) /\ c # 0
        BY <1>7 DEF Commit, Holding, Entry
    <2>2. Apply(content[s], log[s], lastApplied[s] + 1, c)
            \in [File -> SUBSET Request]
        <3>1. /\ content[s] \in [File -> SUBSET Request]
              /\ log[s] \in Seq(Entry)
              /\ lastApplied[s] + 1 \in Nat /\ lastApplied[s] + 1 >= 1
            BY <2>1
        <3> HIDE DEF s, c
        <3> QED
            BY <2>1, <3>1, ApplyType
    <2>3. content' \in [Server -> [File -> SUBSET Request]]
        BY <1>7, <2>2 DEF Commit, CommitUpTo
    <2>4. /\ commitIndex' \in [Server -> Nat]
          /\ lastApplied' \in [Server -> Nat]
        BY <1>7, <2>1 DEF Commit, CommitUpTo
    <2>5. pc' = [pc EXCEPT ![r] = "committed"] /\ pc[r] = "waiting"
        BY <1>7 DEF Commit
    <2> QED
        BY <1>7, <2>3, <2>4, <2>5 DEF Commit, CallState, Holding
<1>8. ASSUME NEW r \in Request, Timeout(r) PROVE TypeInv'
    BY <1>8 DEF Timeout, CallState, Holding, Answered
<1>9. ASSUME NEW r \in Request, Finish(r) PROVE TypeInv'
    <2>1. pc[r] = "committed" /\ ent[r] \in Entry /\ ServedBy[r] \in Server
        BY <1>9 DEF Finish, Holding
    <2>2. msgs' \subseteq Message
        BY <1>9, <2>1 DEF Finish, Message, Peers
    <2> DEFINE s == ServedBy[r]
               f == FileOf[r]
               c == ent[r].index
               new == {r} \ filesPrimes[s][f]
               files == [content[s] EXCEPT ![f] = @ \cup new]
    <2>3. filesPrimes' \in [Server -> [File -> SUBSET Request]]
        <3>1. CASE filesPrimes' = [filesPrimes EXCEPT ![s][f] = @ \cup new]
            BY <2>1, <3>1
        <3>2. CASE filesPrimes' = [filesPrimes EXCEPT ![s][f] = ent[r].content]
            BY <2>1, <3>2 DEF Entry
        <3> QED
            BY <1>9, <3>1, <3>2 DEF Finish
    <2>9. /\ commitIndex' \in [Server -> Nat] /\ lastApplied' \in [Server -> Nat]
          /\ content' \in [Server -> [File -> SUBSET Request]]
        <3>1. CASE UNCHANGED <<commitIndex, lastApplied, content>>
            BY <3>1
        <3>2. CASE CommitUpTo(s, c, files)
            <4>1. /\ c \in Nat /\ c <= Len(log[s])
                  /\ log[s] \in Seq(Entry) /\ lastApplied[s] + 1 \in Nat
                  /\ lastApplied[s] + 1 >= 1
                <5>1. c <= Len(log[s]) /\ c \in Nat /\ log[s] \in Seq(Entry)
                    BY <2>1
                <5>2. lastApplied[s] \in Nat
                    BY <2>1
                <5> QED
                    BY <5>1, <5>2
            <4>2. files \in [File -> SUBSET Request]
                <5>1. content[s] \in [File -> SUBSET Request] /\ f \in File
                    BY <2>1
                <5>2. new \in SUBSET Request
                    OBVIOUS
                <5> HIDE DEF s, f, new
                <5> QED
                    BY <5>1, <5>2
            <4>3. Apply(files, log[s], lastApplied[s] + 1, c)
                    \in [File -> SUBSET Request]
                <5> HIDE DEF s, c, files
                <5> QED
                    BY <4>1, <4>2, ApplyType
            <4>4. /\ commitIndex' = [commitIndex EXCEPT ![s] = c]
                  /\ lastApplied' = [lastApplied EXCEPT
                                       ![s] = IF @ < c THEN c ELSE @]
                  /\ content' = [content EXCEPT
                         ![s] = Apply(files, log[s], lastApplied[s] + 1, c)]
                BY <3>2 DEF CommitUpTo
            <4> HIDE DEF s, c, files
            <4> QED
                BY <4>1, <4>3, <4>4
        <3> QED
            BY <1>9, <3>1, <3>2 DEF Finish
    <2>4. version' \in [Server -> [File -> Nat \cup {Absent}]]
        <3>1. version[ServedBy[r]][FileOf[r]] + 1 \in Nat \cup {Absent}
            <4>1. version[ServedBy[r]][FileOf[r]] \in Nat \cup {Absent}
                BY <2>1
            <4>2. \A v \in Nat \cup {Absent} : v + 1 \in Nat \cup {Absent}
                BY DEF Absent
            <4> QED
                BY <4>1, <4>2
        <3>2. version' = [version EXCEPT ![ServedBy[r]][FileOf[r]] =
                            version[ServedBy[r]][FileOf[r]] + 1]
            BY <1>9 DEF Finish
        <3> QED
            BY <3>1, <3>2
    <2>5. pc' = [pc EXCEPT ![r] = "closed"]
        BY <1>9 DEF Finish
    <2>6. IndexInLog'
        BY <1>9, <2>5 DEF Finish
    <2>7. pc' \in [Request -> CallState]
        BY <2>5 DEF CallState, Answered
    <2>8. \A o \in Request : pc'[o] \in Holding => ent[o] \in Entry
        BY <2>5 DEF Holding
    <2> QED
        BY <1>9, <2>2, <2>3, <2>4, <2>6, <2>7, <2>8, <2>9 DEF Finish
<1>10. ASSUME NEW m \in msgs, NEW ok \in BOOLEAN, NEW heard \in BOOLEAN,
              AppendEntries(m, ok, heard)
       PROVE  TypeInv'
    <2> DEFINE q == m.dest
    <2>1. /\ q \in Server /\ m.entry \in Entry /\ m.commit \in Nat
          /\ m.req \in Request
        BY DEF Message
    <2>2. LogAfter(m) \in Seq(Entry) /\ Len(LogAfter(m)) >= Len(log[q])
        BY <2>1 DEF LogAfter
    <2>3. CommitAfter(m) \in Nat
        BY <2>1 DEF CommitAfter
    <2>4. disk' \in [Server -> Seq(Entry)]
        <3>1. Append(disk[q], m.entry) \in Seq(Entry)
            BY <2>1
        <3> QED
            BY <1>10, <2>1, <3>1 DEF AppendEntries, DiskAfter
    <2>5. content' \in [Server -> [File -> SUBSET Request]]
        <3>1. lastApplied[q] + 1 <= CommitAfter(m)
                => CommitAfter(m) <= Len(LogAfter(m))
            BY <1>10, <2>1, <2>2, <2>3 DEF AppendEntries, Overruns
        <3>2. /\ content[q] \in [File -> SUBSET Request]
              /\ lastApplied[q] + 1 \in Nat /\ lastApplied[q] + 1 >= 1
            BY <2>1
        <3>3. Apply(content[q], LogAfter(m), lastApplied[q] + 1, CommitAfter(m))
                \in [File -> SUBSET Request]
            <4> HIDE DEF q
            <4> QED
                BY <2>2, <2>3, <3>1, <3>2, ApplyType
        <3> QED
            BY <1>10, <3>3 DEF AppendEntries
    <2>6. commitIndex' \in [Server -> Nat] /\ lastApplied' \in [Server -> Nat]
        BY <1>10, <2>3 DEF AppendEntries
    <2>7. acks' \in [Request -> SUBSET Server] /\ msgs' \subseteq Message
        BY <1>10, <2>1 DEF AppendEntries
    <2>8. log' = [log EXCEPT ![q] = LogAfter(m)]
        BY <1>10 DEF AppendEntries
    <2>9. log' \in [Server -> Seq(Entry)]
        BY <2>2, <2>8
    <2>10. IndexInLog'
        <3>1. \A s \in Server : Len(log'[s]) >= Len(log[s])
            BY <2>1, <2>2, <2>8
        <3> QED
            <4>1. UNCHANGED <<pc, ent, sync>>
                BY <1>10 DEF AppendEntries
            <4>2. \A r \in Request :
                     /\ ServedBy[r] \in Server /\ ent[r].index \in Nat
                     /\ Len(log[ServedBy[r]]) \in Nat
                     /\ Len(log'[ServedBy[r]]) \in Nat
                BY <2>9
            <4>3. \A s \in Server : status'[s] # "up" => log'[s] = <<>>
                BY <1>10, <2>1, <2>8 DEF AppendEntries
            <4> QED
                BY <3>1, <4>1, <4>2, <4>3
    <2> QED
        BY <1>10, <2>4, <2>5, <2>6, <2>7, <2>9, <2>10 DEF AppendEntries
<1>11. ASSUME NEW s \in Server, NEW how \in {"down", "panicked"}, Halt(s, how)
       PROVE  /\ status' \in [Server -> {"up", "down", "panicked"}]
              /\ log' \in [Server -> Seq(Entry)]
              /\ commitIndex' \in [Server -> Nat]
              /\ lastApplied' \in [Server -> Nat]
              /\ filesPrimes' \in [Server -> [File -> SUBSET Request]]
              /\ version' \in [Server -> [File -> Nat \cup {Absent}]]
              /\ pc' \in [Request -> CallState]
              /\ \A r \in Request : pc'[r] \in Holding => ent'[r] \in Entry
              /\ IndexInLog'
    <2>1. \A r \in Request : /\ pc'[r] \in CallState
                             /\ pc'[r] \in Holding => /\ pc'[r] = pc[r]
                                                      /\ ServedBy[r] # s
        BY <1>11 DEF Halt, CallState, Holding, Answered, Dead
    <2>2. pc' \in [Request -> CallState]
        BY <1>11, <2>1 DEF Halt
    <2>3. \A q \in Server : q # s => log'[q] = log[q]
        BY <1>11 DEF Halt
    <2>4. IndexInLog'
        BY <1>11, <2>1, <2>3 DEF Halt, Holding
    <2>5. \A r \in Request : pc'[r] \in Holding => ent'[r] \in Entry
        BY <1>11, <2>1 DEF Halt
    <2> QED
        BY <1>11, <2>2, <2>4, <2>5 DEF Halt, NoFiles
<1>12. ASSUME NEW m \in msgs, NEW ok \in BOOLEAN, AppendEntriesPanics(m, ok)
       PROVE  TypeInv'
    <2> DEFINE q == m.dest
    <2>1. /\ q \in Server /\ m.entry \in Entry
        BY DEF Message
    <2>2. LogAfter(m) \in Seq(Entry)
        BY <2>1 DEF LogAfter
    <2>3. disk' \in [Server -> Seq(Entry)]
        <3>1. Append(disk[q], m.entry) \in Seq(Entry)
            BY <2>1
        <3> QED
            BY <1>12, <2>1, <3>1 DEF AppendEntriesPanics, DiskAfter
    <2>4. content' \in [Server -> [File -> SUBSET Request]]
        <3>1. /\ content[q] \in [File -> SUBSET Request]
              /\ lastApplied[q] + 1 \in Nat /\ lastApplied[q] + 1 >= 1
              /\ Len(LogAfter(m)) \in Nat
            BY <2>1, <2>2
        <3>2. Apply(content[q], LogAfter(m), lastApplied[q] + 1,
                    Len(LogAfter(m))) \in [File -> SUBSET Request]
            <4> DEFINE entries == LogAfter(m)
            <4>1. entries \in Seq(Entry) /\ Len(entries) \in Nat
                BY <2>2
            <4> HIDE DEF q, entries
            <4>2. Apply(content[q], entries, lastApplied[q] + 1, Len(entries))
                    \in [File -> SUBSET Request]
                BY <4>1, <3>1, ApplyAllType
            <4> QED
                BY <4>2 DEF entries
        <3> QED
            BY <1>12, <3>2 DEF AppendEntriesPanics
    <2>5. Halt(q, "panicked") /\ msgs' \subseteq Message
        BY <1>12 DEF AppendEntriesPanics
    <2>6. UNCHANGED <<base, ent, acks, sync, snap, crashes>>
        BY <1>12 DEF AppendEntriesPanics, Halt
    <2>7. "panicked" \in {"down", "panicked"}
        OBVIOUS
    <2> HIDE DEF q
    <2> QED
        BY <1>11, <2>1, <2>3, <2>4, <2>5, <2>6, <2>7
<1>13. ASSUME NEW s \in Server, Crash(s) PROVE TypeInv'
    <2>1. Halt(s, "down")
        BY <1>13 DEF Crash
    <2>2. UNCHANGED <<base, ent, acks, sync, snap, disk, content, msgs>>
        BY <1>13 DEF Crash, Halt
    <2>3. crashes' \in Nat
        BY <1>13 DEF Crash
    <2>4. "down" \in {"down", "panicked"}
        OBVIOUS
    <2> QED
        BY <1>11, <2>1, <2>2, <2>3, <2>4
<1>14. ASSUME NEW s \in Server, Restart(s) PROVE TypeInv'
    <2> DEFINE lines == disk[s]
               files == content[s]
    <2>1. /\ lines \in Seq(Entry) /\ Len(lines) \in Nat
          /\ files \in [File -> SUBSET Request]
        OBVIOUS
    <2>2. Apply(files, lines, 1, Len(lines)) \in [File -> SUBSET Request]
        <3>1. 1 \in Nat /\ 1 >= 1
            OBVIOUS
        <3> HIDE DEF lines, files
        <3> QED
            BY <2>1, <3>1, ApplyAllType
    <2>3. content' \in [Server -> [File -> SUBSET Request]]
        BY <1>14, <2>2 DEF Restart
    <2>4. /\ status' \in [Server -> {"up", "down", "panicked"}]
          /\ sync' \in [Server -> {"none", "due", "replied", "done"}]
          /\ \A q \in Primaries : sync'[q] = "none"
        BY <1>14 DEF Restart
    <2>5. log' \in [Server -> Seq(Entry)]
        BY <1>14 DEF Restart
    <2>6. UNCHANGED <<disk, commitIndex, lastApplied, filesPrimes, version, pc,
                      base, ent, acks, msgs, snap, crashes>>
        BY <1>14 DEF Restart
    <2>7. IndexInLog'
        <3>1. \A q \in Server : /\ Len(log[q]) \in Nat /\ Len(log'[q]) \in Nat
                                /\ Len(log'[q]) >= Len(log[q])
            BY <1>14, <2>1, <2>5 DEF Restart
        <3>2. \A q \in Server : status'[q] # "up" => log'[q] = <<>>
            BY <1>14 DEF Restart
        <3>3. \A r \in Request : ServedBy[r] \in Server /\ ent[r].index \in Nat
            OBVIOUS
        <3> QED
            BY <2>4, <2>6, <3>1, <3>2, <3>3
    <2> HIDE DEF IndexInLog
    <2> QED
        BY <2>3, <2>4, <2>5, <2>6, <2>7
<1>15. ASSUME NEW q \in Server, NEW p \in Server, RequestRecovery(q, p)
       PROVE  TypeInv'
    <2> DEFINE known == {g \in File : version[p][g] # Absent}
               files == [f \in known |-> content[p][f]]
    <2>1. known \in SUBSET File /\ files \in [known -> SUBSET Request]
        OBVIOUS
    <2>2. files \in UNION {[S -> SUBSET Request] : S \in SUBSET File}
        <3> HIDE DEF known, files
        <3> QED
            BY <2>1
    <2>3. snap' \in [Server ->
                       UNION {[S -> SUBSET Request] : S \in SUBSET File}]
        BY <1>15, <2>2 DEF RequestRecovery
    <2>4. q \notin Primaries
        BY <1>15 DEF RequestRecovery
    <2>5. IndexInLog'
        BY <1>15, <2>4 DEF RequestRecovery
    <2>6. sync' \in [Server -> {"none", "due", "replied", "done"}]
        BY <1>15 DEF RequestRecovery
    <2>7. UNCHANGED <<status, log, disk, commitVars, fileVars, callVars, msgs,
                      crashes>>
        BY <1>15 DEF RequestRecovery
    <2> HIDE DEF IndexInLog
    <2> QED
        BY <2>3, <2>5, <2>6, <2>7
<1>16. ASSUME NEW q \in Server, ApplyUpdate(q) PROVE TypeInv'
    <2> DEFINE files == snap[q]
    <2>1. /\ DOMAIN files \subseteq File
          /\ \A f \in DOMAIN files : files[f] \in SUBSET Request
        <3>1. PICK S \in SUBSET File : files \in [S -> SUBSET Request]
            OBVIOUS
        <3> HIDE DEF files
        <3> QED
            BY <3>1
    <2>2. content' \in [Server -> [File -> SUBSET Request]]
        BY <1>16, <2>1 DEF ApplyUpdate
    <2>3. version' \in [Server -> [File -> Nat \cup {Absent}]]
        BY <1>16, <2>1 DEF ApplyUpdate
    <2>4. /\ log' \in [Server -> Seq(Entry)]
          /\ commitIndex' \in [Server -> Nat]
          /\ lastApplied' \in [Server -> Nat]
          /\ sync' \in [Server -> {"none", "due", "replied", "done"}]
        BY <1>16 DEF ApplyUpdate
    <2>5. q \notin Primaries
        BY <1>16 DEF ApplyUpdate
    <2>6. IndexInLog'
        BY <1>16, <2>5 DEF ApplyUpdate
    <2>7. UNCHANGED <<status, disk, filesPrimes, pc, base, ent, acks, msgs,
                      snap, crashes>>
        BY <1>16 DEF ApplyUpdate
    <2> HIDE DEF IndexInLog
    <2> QED
        BY <2>2, <2>3, <2>4, <2>6, <2>7
<1>17. CASE UNCHANGED vars
    <2>1. UNCHANGED <<status, log, disk, commitIndex, lastApplied, content,
                      filesPrimes, version, pc, base, ent, acks, msgs, sync,
                      snap, crashes>>
        BY <1>17 DEF vars
    <2> QED
        BY <2>1
<1> HIDE DEF TypeInv
<1> QED
    BY <1>1, <1>2, <1>3, <1>4, <1>5, <1>6, <1>7, <1>8, <1>9, <1>10, <1>12,
       <1>13, <1>14, <1>15, <1>16, <1>17
    DEF Next, Handler, Network, Ends, Failure

(* Every variable keeps its type and every index a call uses is in the log *)
(* it indexes, with any number of primaries and files.                     *)
THEOREM TypeInvariant == Spec => []TypeInv
<1> QED
    BY TypeInit, TypeNext, PTL DEF Spec

(* The variables keep their types; an entry's index is at least 1.         *)
THEOREM TypeCorrect == Spec => []TypeOK
<1>1. TypeInv => TypeOK
    BY DEF TypeInv
<1> QED
    BY <1>1, TypeInvariant, PTL

-----------------------------------------------------------------------------
(***************************************************************************)
(* The setting of the commit theorems.  Ground(p): all calls are about one *)
(* file, disk writes succeed, and Write, if it is called, counts every     *)
(* server as alive.  Setting(p): p serves every call besides, and no       *)
(* backup runs a full sync.  Anything may crash, any request may be lost,  *)
(* late or out of order.                                                   *)
(***************************************************************************)
Ground(p) ==
    /\ p \in Server
    /\ \A r, o \in Request : FileOf[r] = FileOf[o]
    /\ PersistFails = {}
    /\ Write = {} \/ Alive = Server

Setting(p) ==
    /\ Ground(p)
    /\ \A r \in Request : ServedBy[r] = p
    /\ FullSync = FALSE

(* All that the steps below need of "p serves every call": so far nobody   *)
(* else has been called.                                                   *)
Alone(p) == \A r \in Request : pc[r] # "idle" => ServedBy[r] = p

OnPrimary(p, e) == e.index \in DOMAIN disk[p] /\ disk[p][e.index] = e

(* The log in memory is the log on disk, and empty when there is no process. *)
LogIsDisk ==
    \A s \in Server : log[s] = IF status[s] = "up" THEN disk[s] ELSE <<>>

PrimaryDisk(p) == \A i \in DOMAIN disk[p] : disk[p][i].index = i

(* Everything on any disk or on its way comes from the primary's disk.     *)
FromPrimary(p) ==
    /\ \A s \in Server : \A i \in DOMAIN disk[s] : OnPrimary(p, disk[s][i])
    /\ \A m \in msgs : OnPrimary(p, m.entry) /\ m.dest # p

(* A follower may hold entries at the wrong position, some twice, and miss *)
(* others, but never has more lines than the highest index it holds.       *)
(* Hence "within the log" on a follower means the entry is really there    *)
(* when it is the primary's last: the acknowledgement is genuine.          *)
NotPadded ==
    \A s \in Server : disk[s] # <<>> =>
        \E i \in DOMAIN disk[s] : disk[s][i].index >= Len(disk[s])

(* The lock holder's entry is, once logged, the last on the primary.       *)
LockHolder(p) ==
    /\ \A r, o \in Request : pc[r] \in Holding /\ pc[o] \in Holding => r = o
    /\ \A r \in Request :
         pc[r] = "prepared" => ent[r].index = Len(disk[p]) + 1
    /\ \A r \in Request : pc[r] \in {"logged", "waiting", "committed"}
         => ent[r].index = Len(disk[p]) /\ OnPrimary(p, ent[r])

Unsent == {"idle", "open", "closing", "prepared", "logged"}

(* An acknowledgement counted for a call comes from a follower whose disk  *)
(* holds the call's entry.                                                 *)
GenuineAcks(p) ==
    /\ \A m \in msgs : pc[m.req] \notin Unsent /\ m.entry = ent[m.req]
    /\ \A r \in Request : pc[r] \in Unsent => acks[r] = {}
    /\ \A r \in Request : pc[r] = "waiting" =>
                            /\ p \notin acks[r]
                            /\ acks[r] \subseteq Holders(ent[r])

NoSync == \A s \in Server : sync[s] = "none"

CommitInv(p) ==
    /\ TypeInv
    /\ LogIsDisk
    /\ PrimaryDisk(p)
    /\ FromPrimary(p)
    /\ NotPadded
    /\ LockHolder(p)
    /\ GenuineAcks(p)
    /\ AckedDurable
    /\ NoSync

-----------------------------------------------------------------------------
(* Appending to any log file loses no holder of an entry and nothing of    *)
(* what the primary has.                                                   *)
LEMMA DisksGrow ==
    ASSUME TypeOK, NEW s \in Server, NEW e \in Entry, NEW p \in Server,
           \/ disk' = disk
           \/ disk' = [disk EXCEPT ![s] = Append(disk[s], e)]
    PROVE  /\ \A x : Holders(x) \subseteq Holders(x)'
           /\ \A x : OnPrimary(p, x) => OnPrimary(p, x)'
<1>1. \A t \in Server : disk[t] \in Seq(Entry)
    BY DEF TypeOK
<1>2. CASE disk' = disk
    BY <1>2 DEF Holders, OnPrimary
<1>3. CASE disk' = [disk EXCEPT ![s] = Append(disk[s], e)]
    <2>1. \A t \in Server : \A i \in DOMAIN disk[t] :
             i \in DOMAIN disk'[t] /\ disk'[t][i] = disk[t][i]
        <3> SUFFICES ASSUME NEW t \in Server, NEW i \in DOMAIN disk[t]
                     PROVE  i \in DOMAIN disk'[t] /\ disk'[t][i] = disk[t][i]
            OBVIOUS
        <3>1. CASE t = s
            <4>1. disk'[t] = Append(disk[t], e)
                BY <1>3, <3>1 DEF TypeOK
            <4> QED
                BY <4>1, <1>1, AppendProperties
        <3>2. CASE t # s
            BY <1>3, <3>2 DEF TypeOK
        <3> QED
            BY <3>1, <3>2
    <2>2. ASSUME NEW x PROVE Holders(x) \subseteq Holders(x)'
        BY <2>1 DEF Holders
    <2>3. ASSUME NEW x, OnPrimary(p, x) PROVE OnPrimary(p, x)'
        BY <2>1, <2>3 DEF OnPrimary
    <2> QED
        BY <2>2, <2>3
<1> QED
    BY <1>2, <1>3

LEMMA HoldersFinite ==
    ASSUME NEW x
    PROVE  /\ Holders(x) \subseteq Server
           /\ IsFiniteSet(Holders(x)) /\ Cardinality(Holders(x)) \in Nat
BY ServerAssumption, FS_Subset, FS_CardinalityType DEF Holders

LEMMA MajorityType == Majority \in Nat
<1>1. Cardinality(Server) \in Nat
    BY ServerAssumption, FS_CardinalityType
<1> QED
    BY <1>1 DEF Majority

(* An entry on a majority of the disks stays there while the disks grow.   *)
LEMMA StaysHeld ==
    ASSUME \A x : Holders(x) \subseteq Holders(x)', NEW r \in Request,
           ent'[r] = ent[r], Cardinality(Holders(ent[r])) >= Majority
    PROVE  Cardinality(Holders(ent[r])') >= Majority
<1>1. PICK x : x = ent[r]
    OBVIOUS
<1>2. Holders(ent[r])' = Holders(x)'
    BY <1>1 DEF Holders
<1>3. Holders(x)' \subseteq Server
    BY DEF Holders
<1>4. /\ Cardinality(Holders(x)) <= Cardinality(Holders(x)')
      /\ Cardinality(Holders(x)') \in Nat /\ Cardinality(Holders(x)) \in Nat
    BY <1>3, ServerAssumption, FS_Subset, FS_CardinalityType, HoldersFinite
<1> QED
    BY <1>1, <1>2, <1>4, MajorityType

(* Commits stay durable over a step that commits nothing and grows the     *)
(* disks.                                                                  *)
LEMMA StayDurable ==
    ASSUME AckedDurable, \A x : Holders(x) \subseteq Holders(x)',
           \A r \in Request : Committed(r)' => Committed(r) /\ ent'[r] = ent[r]
    PROVE  AckedDurable'
<1> SUFFICES ASSUME NEW r \in Request, Committed(r)'
             PROVE  Cardinality(Holders(ent[r])') >= Majority
    BY DEF AckedDurable
<1>1. ent'[r] = ent[r] /\ Cardinality(Holders(ent[r])) >= Majority
    BY DEF AckedDurable
<1> QED
    BY <1>1, StaysHeld

(* A step of one call that touches no log, no message and no count.        *)
LEMMA QuietStep ==
    ASSUME NEW p, CommitInv(p), NEW r \in Request, TypeInv',
           UNCHANGED <<status, log, disk, ent, acks, msgs, sync>>,
           NEW to, pc' = [pc EXCEPT ![r] = to],
           \/ pc[r] = "idle"    /\ to = "open"
           \/ pc[r] = "open"    /\ to = "closing"
           \/ pc[r] = "closing" /\ to = "conflict"
           \/ pc[r] = "waiting" /\ to = "failed"
    PROVE  CommitInv(p)'
<1> USE DEF CommitInv
<1>1. pc \in [Request -> CallState] /\ Message = Message
    BY DEF TypeInv, TypeOK
<1>2. \A o \in Request : pc'[o] = IF o = r THEN to ELSE pc[o]
    BY <1>1
<1>3. LogIsDisk' /\ PrimaryDisk(p)' /\ NotPadded' /\ NoSync'
    BY DEF LogIsDisk, PrimaryDisk, NotPadded, NoSync
<1>4. FromPrimary(p)'
    BY DEF FromPrimary, OnPrimary
<1>5. LockHolder(p)'
    BY <1>2 DEF LockHolder, OnPrimary, Holding
<1>6. GenuineAcks(p)'
    <2>1. \A m \in msgs : m.req \in Request
        BY DEF TypeInv, TypeOK, Message
    <2> QED
        BY <1>2, <2>1 DEF GenuineAcks, Unsent, Holders
<1>7. AckedDurable'
    BY <1>2 DEF AckedDurable, Committed, Holders
<1> QED
    BY <1>3, <1>4, <1>5, <1>6, <1>7

(* What an acknowledgement is worth: the entry is on the follower's disk   *)
(* after the handler, whether it was appended or taken for a duplicate.    *)
LEMMA AckIsGenuine ==
    ASSUME NEW p, Ground(p), CommitInv(p), NEW m \in msgs,
           status[m.dest] = "up", DiskAfter(m, TRUE) = disk',
           m.entry.index = Len(disk[p])
    PROVE  m.dest \in Holders(m.entry)'
<1> DEFINE q == m.dest
<1>1. /\ q \in Server /\ m.entry \in Entry /\ p \in Server
      /\ disk \in [Server -> Seq(Entry)]
    BY DEF CommitInv, TypeInv, TypeOK, Message, Ground
<1>2. log[q] = disk[q]
    BY <1>1 DEF CommitInv, LogIsDisk
<1>3. CASE IsNew(m)
    <2>1. disk'[q] = Append(disk[q], m.entry)
        BY <1>1, <1>3 DEF DiskAfter
    <2>2. /\ Len(disk[q]) + 1 \in DOMAIN disk'[q]
          /\ disk'[q][Len(disk[q]) + 1] = m.entry
        BY <1>1, <2>1
    <2> QED
        BY <1>1, <2>2 DEF Holders
<1>4. CASE ~IsNew(m)
    <2>1. m.entry.index <= Len(disk[q]) /\ disk' = disk
        BY <1>2, <1>4, <1>1 DEF IsNew, DiskAfter, Entry
    <2>2. disk[q] # <<>>
        BY <1>1, <2>1 DEF Entry
    <2>3. PICK i \in DOMAIN disk[q] : disk[q][i].index >= Len(disk[q])
        BY <1>1, <2>2 DEF CommitInv, NotPadded
    <2>4. OnPrimary(p, disk[q][i]) /\ OnPrimary(p, m.entry)
        BY <1>1, <2>3 DEF CommitInv, FromPrimary
    <2>5. disk[q][i].index = m.entry.index
        BY <1>1, <2>1, <2>3, <2>4 DEF OnPrimary, Entry
    <2>6. disk[q][i] = m.entry
        BY <2>4, <2>5 DEF OnPrimary
    <2> QED
        BY <1>1, <2>1, <2>3, <2>6 DEF Holders
<1> QED
    BY <1>3, <1>4

(* An entry is logged: the primary's disk grows by the lock holder's entry. *)
LEMMA LoggedStep ==
    ASSUME NEW p, Ground(p), Alone(p), CommitInv(p), TypeInv',
           NEW r \in Request,
           NEW ok \in BOOLEAN, AppendLog(r, ok)
    PROVE  CommitInv(p)'
<1> USE DEF CommitInv
<1> DEFINE e == ent[r]
           n == Len(disk[p])
<1>1. /\ p \in Server /\ ServedBy[r] = p /\ pc[r] = "prepared" /\ e \in Entry
      /\ status[p] = "up" /\ ok = TRUE /\ log[p] = disk[p]
      /\ disk[p] \in Seq(Entry) /\ n \in Nat
    BY DEF AppendLog, Ground, Alone, TypeInv, TypeOK, Holding, LogIsDisk
<1>2. /\ disk' = [disk EXCEPT ![p] = Append(disk[p], e)]
      /\ log' = [log EXCEPT ![p] = Append(disk[p], e)]
      /\ pc' = [pc EXCEPT ![r] = "logged"]
      /\ UNCHANGED <<status, ent, acks, msgs, sync>>
    BY <1>1 DEF AppendLog, callVars, syncVars
<1>3. /\ disk \in [Server -> Seq(Entry)] /\ log \in [Server -> Seq(Entry)]
      /\ pc \in [Request -> CallState] /\ msgs \subseteq Message
    BY DEF TypeInv, TypeOK
<1>4. /\ \A x : Holders(x) \subseteq Holders(x)'
      /\ \A x : OnPrimary(p, x) => OnPrimary(p, x)'
    BY <1>1, <1>2, DisksGrow DEF TypeInv
<1>5. /\ disk'[p] = Append(disk[p], e) /\ Len(disk'[p]) = n + 1
      /\ disk'[p][n + 1] = e /\ e.index = n + 1 /\ n + 1 \in DOMAIN disk'[p]
      /\ \A i \in DOMAIN disk'[p] :
            i = n + 1 \/ (i \in DOMAIN disk[p] /\ disk'[p][i] = disk[p][i])
    <2>1. disk'[p] = Append(disk[p], e)
        BY <1>1, <1>2, <1>3
    <2>2. e.index = n + 1
        BY <1>1 DEF LockHolder
    <2>3. /\ Len(Append(disk[p], e)) = n + 1
          /\ Append(disk[p], e)[n + 1] = e
          /\ DOMAIN Append(disk[p], e) = 1 .. n + 1
          /\ \A i \in 1 .. n : Append(disk[p], e)[i] = disk[p][i]
          /\ DOMAIN disk[p] = 1 .. n
        <3> HIDE DEF e
        <3> QED
            BY <1>1, AppendProperties, LenProperties
    <2>4. \A i \in 1 .. n + 1 : i = n + 1 \/ i \in 1 .. n
        BY <1>1
    <2>5. n + 1 \in 1 .. n + 1
        BY <1>1
    <2>6. \A i \in DOMAIN disk'[p] :
              i = n + 1 \/ (i \in DOMAIN disk[p] /\ disk'[p][i] = disk[p][i])
        <3> DEFINE d == disk'[p]
        <3>1. DOMAIN d = 1 .. n + 1
            BY <2>1, <2>3
        <3>2. ASSUME NEW i \in 1 .. n + 1
              PROVE  \/ i = n + 1
                     \/ i \in DOMAIN disk[p] /\ d[i] = disk[p][i]
            BY <2>1, <2>3, <2>4
        <3> HIDE DEF n, d
        <3>3. \A i \in DOMAIN d :
                  i = n + 1 \/ (i \in DOMAIN disk[p] /\ d[i] = disk[p][i])
            BY <3>1, <3>2
        <3> QED
            BY <3>3 DEF d
    <2>7. n + 1 \in DOMAIN disk'[p]
        BY <2>1, <2>3, <2>5
    <2>8. Len(disk'[p]) = n + 1 /\ disk'[p][n + 1] = e
        BY <2>1, <2>3
    <2> QED
        BY <2>1, <2>2, <2>6, <2>7, <2>8
<1>6. OnPrimary(p, e)'
    BY <1>2, <1>5 DEF OnPrimary
<1>7. \A s \in Server : s # p => disk'[s] = disk[s]
    BY <1>2, <1>3
<1>8. LogIsDisk'
    BY <1>1, <1>2, <1>3 DEF LogIsDisk
<1>9. PrimaryDisk(p)'
    BY <1>5 DEF PrimaryDisk
<1>10. FromPrimary(p)'
    <2>1. ASSUME NEW s \in Server, NEW i \in DOMAIN disk'[s]
          PROVE  OnPrimary(p, disk[s][i])'
        <3>1. CASE s = p /\ i = n + 1
            BY <1>5, <1>6, <3>1 DEF OnPrimary
        <3>2. CASE i \in DOMAIN disk[s] /\ disk'[s][i] = disk[s][i]
            <4>1. PICK x : x = disk[s][i]
                OBVIOUS
            <4>2. OnPrimary(p, x)
                BY <4>1, <3>2 DEF FromPrimary
            <4>3. OnPrimary(p, x)'
                BY <4>2, <1>4
            <4> QED
                BY <4>1, <4>3, <3>2 DEF OnPrimary
        <3> QED
            BY <2>1, <3>1, <3>2, <1>5, <1>7
    <2>2. ASSUME NEW m \in msgs
          PROVE  OnPrimary(p, m.entry)' /\ m.dest # p
        BY <1>4 DEF FromPrimary
    <2> QED
        BY <1>2, <2>1, <2>2 DEF FromPrimary
<1>11. NotPadded'
    <2>1. ASSUME NEW s \in Server, disk'[s] # <<>>
          PROVE  \E i \in DOMAIN disk'[s] : disk'[s][i].index >= Len(disk'[s])
        <3>1. CASE s = p
            BY <1>1, <1>5, <3>1
        <3>2. CASE s # p
            BY <1>7, <2>1, <3>2 DEF NotPadded
        <3> QED
            BY <3>1, <3>2
    <2> QED
        BY <2>1 DEF NotPadded
<1>12. \A o \in Request : pc'[o] = IF o = r THEN "logged" ELSE pc[o]
    BY <1>2, <1>3
<1>13. LockHolder(p)'
    <2>1. \A o \in Request : pc[o] \in Holding => o = r
        BY <1>1 DEF LockHolder, Holding
    <2>2. \A o \in Request : pc'[o] \in Holding => o = r
        BY <1>12, <2>1
    <2> QED
        BY <1>2, <1>5, <1>6, <1>12, <2>2 DEF LockHolder, Holding, OnPrimary
<1>14. GenuineAcks(p)'
    <2>1. \A m \in msgs : m.req \in Request
        BY <1>3 DEF Message
    <2>2. /\ \A m \in msgs : pc'[m.req] \notin Unsent /\ m.entry = ent[m.req]
          /\ \A o \in Request : pc'[o] \in Unsent => acks[o] = {}
        BY <1>1, <1>12, <2>1 DEF GenuineAcks, Unsent
    <2>3. ASSUME NEW o \in Request, pc'[o] = "waiting"
          PROVE  p \notin acks[o] /\ acks[o] \subseteq Holders(ent[o])'
        <3>1. pc[o] = "waiting"
            BY <1>12, <2>3
        <3>2. PICK x : x = ent[o]
            OBVIOUS
        <3>3. Holders(ent[o])' = Holders(x)'
            BY <1>2, <3>2 DEF Holders
        <3> QED
            BY <3>1, <3>2, <3>3, <1>4 DEF GenuineAcks
    <2> QED
        BY <1>2, <2>2, <2>3 DEF GenuineAcks
<1>15. AckedDurable'
    <2>1. \A o \in Request : Committed(o)' => Committed(o) /\ ent'[o] = ent[o]
        BY <1>2, <1>12 DEF Committed
    <2> QED
        BY <1>4, <2>1, StayDurable
<1>16. NoSync'
    BY <1>2 DEF NoSync
<1> QED
    BY <1>8, <1>9, <1>10, <1>11, <1>13, <1>14, <1>15, <1>16

(* A call commits: its acknowledgements and the primary make a majority of *)
(* holders.                                                                *)
LEMMA CommitStep ==
    ASSUME NEW p, Ground(p), Alone(p), CommitInv(p), TypeInv',
           NEW r \in Request,
           Commit(r)
    PROVE  CommitInv(p)'
<1> USE DEF CommitInv
<1>1. /\ p \in Server /\ ServedBy[r] = p /\ pc[r] = "waiting"
      /\ 1 + Cardinality(acks[r]) >= Majority
      /\ pc' = [pc EXCEPT ![r] = "committed"]
      /\ UNCHANGED <<status, log, disk, ent, acks, msgs, sync>>
    <2>1. Needed(r) = Majority
        BY DEF Needed, Majority, Ground
    <2> QED
        BY <2>1 DEF Commit, CommitUpTo, Ground, Alone, syncVars
<1>2. /\ pc \in [Request -> CallState] /\ msgs \subseteq Message
      /\ acks[r] \subseteq Server
    BY DEF TypeInv, TypeOK
<1>3. \A o \in Request : pc'[o] = IF o = r THEN "committed" ELSE pc[o]
    BY <1>1, <1>2
<1>4. Cardinality(Holders(ent[r])) >= Majority
    <2>1. p \in Holders(ent[r])
        BY <1>1 DEF LockHolder, OnPrimary, Holders
    <2>2. p \notin acks[r] /\ acks[r] \subseteq Holders(ent[r])
        BY <1>1 DEF GenuineAcks
    <2>3. IsFiniteSet(acks[r]) /\ Cardinality(acks[r]) \in Nat
        BY <1>2, ServerAssumption, FS_Subset, FS_CardinalityType
    <2>4. Cardinality(acks[r] \cup {p}) = Cardinality(acks[r]) + 1
        BY <2>2, <2>3, FS_AddElement
    <2>5. Cardinality(acks[r] \cup {p}) <= Cardinality(Holders(ent[r]))
        <3>1. acks[r] \cup {p} \subseteq Holders(ent[r])
            BY <2>1, <2>2
        <3> QED
            BY <3>1, HoldersFinite, FS_Subset
    <2>6. Cardinality(Holders(ent[r])) \in Nat
        BY HoldersFinite
    <2> QED
        BY <1>1, <2>3, <2>4, <2>5, <2>6, MajorityType
<1>5. LogIsDisk' /\ PrimaryDisk(p)' /\ NotPadded' /\ NoSync'
    BY <1>1 DEF LogIsDisk, PrimaryDisk, NotPadded, NoSync
<1>6. FromPrimary(p)'
    BY <1>1 DEF FromPrimary, OnPrimary
<1>7. LockHolder(p)'
    BY <1>1, <1>3 DEF LockHolder, OnPrimary, Holding
<1>8. GenuineAcks(p)'
    <2>1. \A m \in msgs : m.req \in Request
        BY <1>2 DEF Message
    <2> QED
        BY <1>1, <1>3, <2>1 DEF GenuineAcks, Unsent, Holders
<1>9. AckedDurable'
    <2>1. ASSUME NEW o \in Request, Committed(o)'
          PROVE  Cardinality(Holders(ent[o])) >= Majority
        <3>1. o = r \/ Committed(o)
            BY <1>3, <2>1 DEF Committed
        <3> QED
            BY <3>1, <1>4 DEF AckedDurable
    <2> QED
        BY <1>1, <2>1 DEF AckedDurable, Holders
<1> QED
    BY <1>5, <1>6, <1>7, <1>8, <1>9

(* The entry is sent to the followers, to be acknowledged or to be applied. *)
LEMMA SendStep ==
    ASSUME NEW p, Ground(p), Alone(p), CommitInv(p), TypeInv',
           NEW r \in Request,
           SendAppends(r) \/ Finish(r)
    PROVE  CommitInv(p)'
<1> USE DEF CommitInv
<1> DEFINE to == IF pc[r] = "logged" THEN "waiting" ELSE "closed"
<1>1. /\ p \in Server /\ ServedBy[r] = p /\ pc[r] \in {"logged", "committed"}
      /\ pc' = [pc EXCEPT ![r] = to]
      /\ UNCHANGED <<status, log, disk, ent, acks, sync>>
    BY DEF SendAppends, Finish, Ground, Alone, syncVars
<1>2. pc \in [Request -> CallState] /\ msgs \subseteq Message
    BY DEF TypeInv, TypeOK
<1>3. \A o \in Request : pc'[o] = IF o = r THEN to ELSE pc[o]
    BY <1>1, <1>2
<1>4. \A m \in msgs' : \/ m \in msgs
                       \/ m.req = r /\ m.entry = ent[r] /\ m.dest # p
    <2>1. CASE SendAppends(r)
        BY <1>1, <2>1 DEF SendAppends, Peers
    <2>2. CASE Finish(r)
        BY <1>1, <2>2 DEF Finish, Peers
    <2> QED
        BY <2>1, <2>2
<1>5. LogIsDisk' /\ PrimaryDisk(p)' /\ NotPadded' /\ NoSync'
    BY <1>1 DEF LogIsDisk, PrimaryDisk, NotPadded, NoSync
<1>6. FromPrimary(p)'
    <2>1. OnPrimary(p, ent[r])
        BY <1>1 DEF LockHolder
    <2>2. \A m \in msgs' : OnPrimary(p, m.entry) /\ m.dest # p
        BY <1>4, <2>1 DEF FromPrimary
    <2> QED
        BY <1>1, <2>2 DEF FromPrimary, OnPrimary
<1>7. LockHolder(p)'
    BY <1>1, <1>3 DEF LockHolder, OnPrimary, Holding
<1>8. GenuineAcks(p)'
    <2>1. \A m \in msgs : m.req \in Request
        BY <1>2 DEF Message
    <2>2. \A m \in msgs' : pc'[m.req] \notin Unsent /\ m.entry = ent[m.req]
        BY <1>1, <1>3, <1>4, <2>1 DEF GenuineAcks, Unsent
    <2>3. \A o \in Request : pc'[o] \in Unsent => acks[o] = {}
        BY <1>1, <1>3 DEF GenuineAcks, Unsent
    <2>4. \A o \in Request : pc'[o] = "waiting" =>
              p \notin acks[o] /\ acks[o] \subseteq Holders(ent[o])
        BY <1>1, <1>3 DEF GenuineAcks, Unsent
    <2> QED
        BY <1>1, <2>2, <2>3, <2>4 DEF GenuineAcks, Holders
<1>9. AckedDurable'
    <2>1. \A o \in Request : Committed(o)' => Committed(o) /\ ent'[o] = ent[o]
        BY <1>1, <1>3 DEF Committed
    <2>2. \A x : Holders(x) \subseteq Holders(x)'
        BY <1>1 DEF Holders
    <2> QED
        BY <2>1, <2>2, StayDurable
<1> QED
    BY <1>5, <1>6, <1>7, <1>8, <1>9

(* A call takes the lock and prepares its entry.                           *)
LEMMA PrepareStep ==
    ASSUME NEW p, Ground(p), Alone(p), CommitInv(p), TypeInv',
           NEW r \in Request,
           BeginClose(r)
    PROVE  CommitInv(p)'
<1> USE DEF CommitInv
<1>1. /\ p \in Server /\ ServedBy[r] = p /\ pc[r] = "closing"
      /\ status[p] = "up" /\ pc' = [pc EXCEPT ![r] = "prepared"]
      /\ UNCHANGED <<status, log, disk, acks, msgs, sync>>
      /\ \A o \in Request : pc[o] \notin Holding
    BY DEF BeginClose, LockFree, Ground, Alone, Holding, syncVars
<1>2. /\ pc \in [Request -> CallState] /\ msgs \subseteq Message
      /\ DOMAIN ent = Request
    BY DEF TypeInv, TypeOK
<1>3. \A o \in Request : /\ pc'[o] = IF o = r THEN "prepared" ELSE pc[o]
                         /\ o # r => ent'[o] = ent[o]
    BY <1>1, <1>2 DEF BeginClose
<1>4. ent'[r].index = Len(disk[p]) + 1
    BY <1>1, <1>2 DEF BeginClose, NextIndex, LogIsDisk
<1>5. LogIsDisk' /\ PrimaryDisk(p)' /\ NotPadded' /\ NoSync'
    BY <1>1 DEF LogIsDisk, PrimaryDisk, NotPadded, NoSync
<1>6. FromPrimary(p)'
    BY <1>1 DEF FromPrimary, OnPrimary
<1>7. LockHolder(p)'
    BY <1>1, <1>3, <1>4 DEF LockHolder, OnPrimary, Holding
<1>8. GenuineAcks(p)'
    <2>1. \A m \in msgs : m.req \in Request
        BY <1>2 DEF Message
    <2> QED
        BY <1>1, <1>3, <2>1 DEF GenuineAcks, Unsent, Holders
<1>9. AckedDurable'
    <2>1. \A o \in Request : Committed(o)' => Committed(o) /\ ent'[o] = ent[o]
        BY <1>1, <1>3 DEF Committed
    <2>2. \A x : Holders(x) \subseteq Holders(x)'
        BY <1>1 DEF Holders
    <2> QED
        BY <2>1, <2>2, StayDurable
<1> QED
    BY <1>5, <1>6, <1>7, <1>8, <1>9

(* A follower handles a request: its disk may grow by an entry of the      *)
(* primary's, with or without a panic afterwards.                          *)
LEMMA FollowerStep ==
    ASSUME NEW p, Ground(p), CommitInv(p), NEW m \in msgs, status[m.dest] = "up",
           disk' = DiskAfter(m, TRUE), msgs' = msgs \ {m},
           UNCHANGED <<pc, ent, sync>>,
           LogIsDisk'
    PROVE  /\ PrimaryDisk(p)' /\ FromPrimary(p)' /\ NotPadded'
           /\ LockHolder(p)' /\ AckedDurable' /\ NoSync'
           /\ \A x : Holders(x) \subseteq Holders(x)'
<1> USE DEF CommitInv
<1> DEFINE q == m.dest
           e == m.entry
<1>1. /\ q \in Server /\ e \in Entry /\ p \in Server /\ q # p
      /\ disk \in [Server -> Seq(Entry)] /\ disk[q] \in Seq(Entry)
      /\ log[q] = disk[q] /\ OnPrimary(p, e)
    BY DEF TypeInv, TypeOK, Message, Ground, LogIsDisk, FromPrimary
<1>2. \/ disk' = disk
      \/ /\ e.index > Len(disk[q])
         /\ disk' = [disk EXCEPT ![q] = Append(disk[q], e)]
    BY <1>1 DEF DiskAfter, IsNew
<1>3. /\ \A x : Holders(x) \subseteq Holders(x)'
      /\ \A x : OnPrimary(p, x) => OnPrimary(p, x)'
    <2> HIDE DEF q, e
    <2> QED
        BY <1>1, <1>2, DisksGrow DEF TypeInv
<1>4. \A s \in Server : s # q => disk'[s] = disk[s]
    BY <1>1, <1>2
<1>5. CASE disk' = disk
    <2>1. PrimaryDisk(p)' /\ NotPadded' /\ LockHolder(p)'
        BY <1>5 DEF PrimaryDisk, NotPadded, LockHolder, OnPrimary
    <2>2. FromPrimary(p)'
        BY <1>5 DEF FromPrimary, OnPrimary
    <2>3. AckedDurable' /\ NoSync'
        BY <1>3, StayDurable DEF Committed, NoSync
    <2> QED
        BY <1>3, <2>1, <2>2, <2>3
<1>6. CASE /\ e.index > Len(disk[q])
           /\ disk' = [disk EXCEPT ![q] = Append(disk[q], e)]
    <2> DEFINE n == Len(disk[q])
    <2>1. disk'[q] = Append(disk[q], e)
        BY <1>1, <1>6
    <2>2. /\ n \in Nat /\ Len(disk'[q]) = n + 1 /\ disk'[q][n + 1] = e
          /\ DOMAIN disk'[q] = 1 .. n + 1
          /\ \A i \in 1 .. n : disk'[q][i] = disk[q][i]
          /\ DOMAIN disk[q] = 1 .. n
        <3>1. /\ n \in Nat
              /\ Len(Append(disk[q], e)) = n + 1
              /\ Append(disk[q], e)[n + 1] = e
              /\ DOMAIN Append(disk[q], e) = 1 .. n + 1
              /\ \A i \in 1 .. n : Append(disk[q], e)[i] = disk[q][i]
              /\ DOMAIN disk[q] = 1 .. n
            <4> HIDE DEF q, e
            <4> QED
                BY <1>1, AppendProperties, LenProperties
        <3> QED
            BY <2>1, <3>1
    <2>3. PrimaryDisk(p)' /\ LockHolder(p)'
        BY <1>1, <1>4 DEF PrimaryDisk, LockHolder, OnPrimary
    <2>4. FromPrimary(p)'
        <3>1. ASSUME NEW s \in Server, NEW i \in DOMAIN disk'[s]
              PROVE  OnPrimary(p, disk[s][i])'
            <4>1. \/ disk'[s][i] = e
                  \/ i \in DOMAIN disk[s] /\ disk'[s][i] = disk[s][i]
                <5>1. CASE s # q
                    BY <1>4, <3>1, <5>1
                <5>2. CASE s = q
                    <6>1. i \in 1 .. n + 1
                        BY <2>2, <3>1, <5>2
                    <6>2. i = n + 1 \/ i \in 1 .. n
                        BY <2>2, <6>1
                    <6> QED
                        BY <2>2, <5>2, <6>2
                <5> QED
                    BY <5>1, <5>2
            <4>2. PICK x : x = disk'[s][i] /\ OnPrimary(p, x)
                BY <1>1, <4>1 DEF FromPrimary
            <4>3. OnPrimary(p, x)'
                BY <1>3, <4>2
            <4> QED
                BY <4>2, <4>3 DEF OnPrimary
        <3>2. ASSUME NEW o \in msgs'
              PROVE  OnPrimary(p, o.entry)' /\ o.dest # p
            BY <1>3 DEF FromPrimary
        <3> QED
            BY <3>1, <3>2 DEF FromPrimary
    <2>5. NotPadded'
        <3>1. ASSUME NEW s \in Server, disk'[s] # <<>>
              PROVE  \E i \in DOMAIN disk'[s] :
                        disk'[s][i].index >= Len(disk'[s])
            <4>1. CASE s # q
                BY <1>4, <3>1, <4>1 DEF NotPadded
            <4>2. CASE s = q
                <5>1. n + 1 \in 1 .. n + 1 /\ e.index >= n + 1
                    <6>1. e.index \in Nat /\ e.index > n /\ n \in Nat
                        BY <1>1, <1>6, <2>2 DEF Entry
                    <6> HIDE DEF e, n
                    <6> QED
                        BY <6>1
                <5> QED
                    BY <2>2, <4>2, <5>1
            <4> QED
                BY <4>1, <4>2
        <3> QED
            BY <3>1 DEF NotPadded
    <2>6. AckedDurable'
        BY <1>3, StayDurable DEF Committed
    <2>7. NoSync'
        BY DEF NoSync
    <2> QED
        BY <1>3, <2>3, <2>4, <2>5, <2>6, <2>7
<1> QED
    BY <1>2, <1>5, <1>6

LEMMA AppendEntriesStep ==
    ASSUME NEW p, Ground(p), Alone(p), CommitInv(p), TypeInv',
           NEW m \in msgs,
           NEW ok \in BOOLEAN, NEW heard \in BOOLEAN,
           AppendEntries(m, ok, heard)
    PROVE  CommitInv(p)'
<1> USE DEF CommitInv
<1> DEFINE q == m.dest
<1>1. /\ ok = TRUE /\ status[q] = "up" /\ disk' = DiskAfter(m, TRUE)
      /\ msgs' = msgs \ {m} /\ UNCHANGED <<status, pc, ent, sync>>
      /\ log' = [log EXCEPT ![q] = LogAfter(m)]
    BY DEF AppendEntries, Ground, syncVars
<1>2. /\ q \in Server /\ p \in Server /\ q # p /\ log[q] = disk[q]
      /\ disk \in [Server -> Seq(Entry)] /\ log \in [Server -> Seq(Entry)]
      /\ msgs \subseteq Message /\ m.req \in Request
      /\ acks \in [Request -> SUBSET Server]
    BY <1>1 DEF TypeInv, TypeOK, Message, Ground, LogIsDisk, FromPrimary
<1>3. LogIsDisk'
    BY <1>1, <1>2 DEF LogIsDisk, DiskAfter, LogAfter, IsNew
<1>4. /\ PrimaryDisk(p)' /\ FromPrimary(p)' /\ NotPadded'
      /\ LockHolder(p)' /\ AckedDurable' /\ NoSync'
      /\ \A x : Holders(x) \subseteq Holders(x)'
    BY <1>1, <1>3, FollowerStep
<1>5. GenuineAcks(p)'
    <2>1. /\ \A o \in msgs' : pc'[o.req] \notin Unsent /\ o.entry = ent'[o.req]
          /\ \A o \in Request : pc'[o] \in Unsent => acks'[o] = {}
        BY <1>1, <1>2 DEF GenuineAcks, AppendEntries, Unsent
    <2>2. ASSUME NEW o \in Request, pc[o] = "waiting"
          PROVE  p \notin acks'[o] /\ acks'[o] \subseteq Holders(ent[o])'
        <3>1. PICK x : x = ent[o]
            OBVIOUS
        <3>2. Holders(ent[o])' = Holders(x)'
            BY <1>1, <3>1 DEF Holders
        <3>3. p \notin acks[o] /\ acks[o] \subseteq Holders(x)'
            BY <1>4, <2>2, <3>1 DEF GenuineAcks
        <3>4. \/ acks'[o] = acks[o]
              \/ m.req = o /\ acks'[o] = acks[o] \cup {q}
            BY <1>2 DEF AppendEntries
        <3>5. CASE m.req = o
            <4>1. m.entry = x
                BY <3>1, <3>5 DEF GenuineAcks
            <4>2. m.entry.index = Len(disk[p])
                BY <2>2, <3>1, <4>1 DEF LockHolder
            <4>3. q \in Holders(m.entry)'
                BY <1>1, <4>2, AckIsGenuine
            <4>4. q \in Holders(x)'
                BY <4>1, <4>3 DEF Holders
            <4> QED
                BY <1>2, <3>2, <3>3, <3>4, <4>4
        <3> QED
            BY <3>2, <3>3, <3>4, <3>5
    <2> QED
        BY <1>1, <2>1, <2>2 DEF GenuineAcks
<1> QED
    BY <1>3, <1>4, <1>5

(* The calls a dead server leaves behind hold no lock and have not         *)
(* committed anew.                                                         *)
LEMMA HaltStep ==
    ASSUME NEW p, CommitInv(p), NEW s \in Server, NEW how, how # "up",
           Halt(s, how), LogIsDisk, UNCHANGED <<disk, msgs>>
    PROVE  /\ LogIsDisk' /\ PrimaryDisk(p)' /\ FromPrimary(p)' /\ NotPadded'
           /\ LockHolder(p)' /\ GenuineAcks(p)' /\ AckedDurable' /\ NoSync'
<1> USE DEF CommitInv
<1>1. /\ UNCHANGED <<ent, acks, sync>>
      /\ log' = [log EXCEPT ![s] = <<>>] /\ status' = [status EXCEPT ![s] = how]
    BY DEF Halt, syncVars
<1>2. /\ log \in [Server -> Seq(Entry)] /\ msgs \subseteq Message
      /\ status \in [Server -> {"up", "down", "panicked"}]
      /\ pc \in [Request -> CallState]
    BY DEF TypeInv, TypeOK
<1>3. \A r \in Request :
         \/ pc'[r] = pc[r]
         \/ pc[r] = "committed" /\ pc'[r] = "unanswered"
         \/ pc'[r] = "lost"
    BY DEF Halt
<1>4. LogIsDisk'
    BY <1>1, <1>2 DEF LogIsDisk
<1>5. PrimaryDisk(p)' /\ NotPadded' /\ NoSync' /\ FromPrimary(p)'
    BY <1>1 DEF PrimaryDisk, NotPadded, NoSync, FromPrimary, OnPrimary
<1>6. LockHolder(p)'
    BY <1>1, <1>3 DEF LockHolder, OnPrimary, Holding
<1>7. GenuineAcks(p)'
    <2>1. \A m \in msgs : m.req \in Request
        BY <1>2 DEF Message
    <2> QED
        BY <1>1, <1>3, <2>1 DEF GenuineAcks, Unsent, Holders
<1>8. AckedDurable'
    <2>1. \A r \in Request : Committed(r)' => Committed(r) /\ ent'[r] = ent[r]
        BY <1>1, <1>3 DEF Committed
    <2>2. \A x : Holders(x) \subseteq Holders(x)'
        BY DEF Holders
    <2> QED
        BY <2>1, <2>2, StayDurable
<1> QED
    BY <1>4, <1>5, <1>6, <1>7, <1>8

LEMMA PanicStep ==
    ASSUME NEW p, Ground(p), Alone(p), CommitInv(p), TypeInv',
           NEW m \in msgs,
           NEW ok \in BOOLEAN, AppendEntriesPanics(m, ok)
    PROVE  CommitInv(p)'
<1> USE DEF CommitInv
<1> DEFINE q == m.dest
<1>1. /\ ok = TRUE /\ status[q] = "up" /\ disk' = DiskAfter(m, TRUE)
      /\ msgs' = msgs \ {m} /\ UNCHANGED <<ent, acks, sync>>
      /\ log' = [log EXCEPT ![q] = <<>>]
      /\ status' = [status EXCEPT ![q] = "panicked"]
    BY DEF AppendEntriesPanics, Halt, Ground, syncVars
<1>2. /\ q \in Server /\ p \in Server /\ q # p
      /\ disk \in [Server -> Seq(Entry)] /\ log \in [Server -> Seq(Entry)]
      /\ status \in [Server -> {"up", "down", "panicked"}]
      /\ pc \in [Request -> CallState]
    BY DEF TypeInv, TypeOK, Message, Ground, FromPrimary
<1>3. pc' = pc
    <2>1. \A r \in Request : ServedBy[r] # q \/ pc[r] = "idle"
        BY <1>2 DEF Alone
    <2>2. \A r \in Request : pc'[r] = pc[r]
        BY <2>1 DEF AppendEntriesPanics, Halt
    <2>3. pc' \in [Request -> CallState]
        BY DEF TypeInv, TypeOK
    <2> QED
        BY <1>2, <2>2, <2>3
<1>4. LogIsDisk'
    BY <1>1, <1>2 DEF LogIsDisk, DiskAfter
<1>5. /\ PrimaryDisk(p)' /\ FromPrimary(p)' /\ NotPadded'
      /\ LockHolder(p)' /\ AckedDurable' /\ NoSync'
      /\ \A x : Holders(x) \subseteq Holders(x)'
    BY <1>1, <1>3, <1>4, FollowerStep
<1>6. GenuineAcks(p)'
    <2>1. ASSUME NEW o \in Request, pc[o] = "waiting"
          PROVE  p \notin acks[o] /\ acks[o] \subseteq Holders(ent[o])'
        <3>1. PICK x : x = ent[o]
            OBVIOUS
        <3>2. Holders(ent[o])' = Holders(x)'
            BY <1>1, <3>1 DEF Holders
        <3> QED
            BY <1>5, <2>1, <3>1, <3>2 DEF GenuineAcks
    <2> QED
        BY <1>1, <1>3, <2>1 DEF GenuineAcks
<1> QED
    BY <1>4, <1>5, <1>6

LEMMA RestartStep ==
    ASSUME NEW p, Setting(p), CommitInv(p), TypeInv', NEW s \in Server, Restart(s)
    PROVE  CommitInv(p)'
<1> USE DEF CommitInv
<1>1. /\ UNCHANGED <<disk, pc, ent, acks, msgs, sync>>
      /\ status' = [status EXCEPT ![s] = "up"]
      /\ log' = [log EXCEPT ![s] = disk[s]]
    BY DEF Restart, Setting, callVars
<1>2. /\ log \in [Server -> Seq(Entry)]
      /\ status \in [Server -> {"up", "down", "panicked"}]
    BY DEF TypeInv, TypeOK
<1>3. LogIsDisk'
    BY <1>1, <1>2 DEF LogIsDisk
<1>4. PrimaryDisk(p)' /\ NotPadded' /\ NoSync' /\ FromPrimary(p)'
    BY <1>1 DEF PrimaryDisk, NotPadded, NoSync, FromPrimary, OnPrimary
<1>5. LockHolder(p)' /\ GenuineAcks(p)'
    BY <1>1 DEF LockHolder, OnPrimary, GenuineAcks, Holders
<1>6. AckedDurable'
    BY <1>1 DEF AckedDurable, Committed, Holders
<1> QED
    BY <1>3, <1>4, <1>5, <1>6

-----------------------------------------------------------------------------
LEMMA CommitInit == ASSUME NEW p, p \in Server, Init PROVE CommitInv(p)
<1>1. LogIsDisk /\ PrimaryDisk(p) /\ FromPrimary(p) /\ NotPadded /\ NoSync
    BY DEF Init, LogIsDisk, PrimaryDisk, FromPrimary, NotPadded, NoSync
<1>2. LockHolder(p) /\ GenuineAcks(p) /\ AckedDurable
    BY DEF Init, LockHolder, GenuineAcks, AckedDurable, Committed, Holding
<1> QED
    BY <1>1, <1>2, TypeInit DEF CommitInv

(* The steps of servers that nobody restarts.                              *)
Running == \/ \E r \in Request : Open(r) \/ CloseArrives(r) \/ Handler(r)
           \/ Network
           \/ \E s \in Server : Ends(s)

LEMMA RunningNext == [Running]_vars => [Next]_vars
BY DEF Running, Next, Failure

LEMMA CommitRunning ==
    ASSUME NEW p, Ground(p), Alone(p), CommitInv(p), [Running]_vars
    PROVE  CommitInv(p)'
<1>0. TypeInv /\ TypeInv'
    BY TypeNext, RunningNext DEF CommitInv
<1>1. ASSUME NEW r \in Request, Open(r) PROVE CommitInv(p)'
    BY <1>0, <1>1, QuietStep DEF Open, syncVars
<1>2. ASSUME NEW r \in Request, CloseArrives(r) PROVE CommitInv(p)'
    BY <1>0, <1>2, QuietStep DEF CloseArrives, syncVars
<1>3. ASSUME NEW r \in Request, BeginClose(r) PROVE CommitInv(p)'
    BY <1>0, <1>3, PrepareStep
<1>4. ASSUME NEW r \in Request, Conflict(r) PROVE CommitInv(p)'
    BY <1>0, <1>4, QuietStep DEF Conflict, syncVars
<1>5. ASSUME NEW r \in Request, NEW ok \in BOOLEAN, AppendLog(r, ok)
      PROVE  CommitInv(p)'
    BY <1>0, <1>5, LoggedStep
<1>6. ASSUME NEW r \in Request, SendAppends(r) PROVE CommitInv(p)'
    BY <1>0, <1>6, SendStep
<1>7. ASSUME NEW r \in Request, Commit(r) PROVE CommitInv(p)'
    BY <1>0, <1>7, CommitStep
<1>8. ASSUME NEW r \in Request, Timeout(r) PROVE CommitInv(p)'
    BY <1>0, <1>8, QuietStep DEF Timeout, syncVars
<1>9. ASSUME NEW r \in Request, Finish(r) PROVE CommitInv(p)'
    BY <1>0, <1>9, SendStep
<1>10. ASSUME NEW m \in msgs, NEW ok \in BOOLEAN, NEW heard \in BOOLEAN,
              AppendEntries(m, ok, heard)
       PROVE  CommitInv(p)'
    BY <1>0, <1>10, AppendEntriesStep
<1>11. ASSUME NEW m \in msgs, NEW ok \in BOOLEAN, AppendEntriesPanics(m, ok)
       PROVE  CommitInv(p)'
    BY <1>0, <1>11, PanicStep
<1>12. ASSUME NEW s \in Server, Crash(s) PROVE CommitInv(p)'
    <2>1. Halt(s, "down") /\ UNCHANGED <<disk, msgs>> /\ "down" # "up"
        BY <1>12 DEF Crash
    <2> QED
        BY <1>0, <2>1, HaltStep DEF CommitInv
<1>13. CASE UNCHANGED vars
    <2>1. UNCHANGED <<status, log, disk, pc, ent, acks, msgs, sync>>
        BY <1>13 DEF vars, callVars, syncVars
    <2>2. (LogIsDisk /\ PrimaryDisk(p) /\ FromPrimary(p) /\ NotPadded /\ NoSync)'
        BY <2>1 DEF CommitInv, LogIsDisk, PrimaryDisk, FromPrimary, OnPrimary,
                    NotPadded, NoSync
    <2>3. LockHolder(p)'
        BY <2>1 DEF CommitInv, LockHolder, OnPrimary
    <2>4. GenuineAcks(p)'
        BY <2>1 DEF CommitInv, GenuineAcks, Holders
    <2>5. AckedDurable'
        BY <2>1 DEF CommitInv, AckedDurable, Committed, Holders
    <2> QED
        BY <1>0, <2>2, <2>3, <2>4, <2>5 DEF CommitInv
<1> QED
    BY <1>1, <1>2, <1>3, <1>4, <1>5, <1>6, <1>7, <1>8, <1>9, <1>10, <1>11,
       <1>12, <1>13
    DEF Running, Handler, Network, Ends

LEMMA CommitNext ==
    ASSUME NEW p, Setting(p), CommitInv(p), [Next]_vars PROVE CommitInv(p)'
<1>1. Ground(p) /\ Alone(p)
    BY DEF Setting, Alone
<1>2. TypeInv'
    BY TypeNext DEF CommitInv
<1>3. CASE [Running]_vars
    BY <1>1, <1>3, CommitRunning
<1>4. ASSUME NEW s \in Server, Restart(s) PROVE CommitInv(p)'
    BY <1>2, <1>4, RestartStep
<1>5. ASSUME NEW q \in Server, NEW o \in Server, RequestRecovery(q, o)
      PROVE  CommitInv(p)'
    BY <1>5 DEF RequestRecovery, CommitInv, NoSync
<1>6. ASSUME NEW q \in Server, ApplyUpdate(q) PROVE CommitInv(p)'
    BY <1>6 DEF ApplyUpdate, CommitInv, NoSync
<1> QED
    BY <1>3, <1>4, <1>5, <1>6 DEF Next, Running, Failure

THEOREM CommitInvariant ==
    ASSUME NEW p, Setting(p) PROVE Spec => []CommitInv(p)
<1>1. Init => CommitInv(p)
    BY CommitInit DEF Setting, Ground
<1>2. CommitInv(p) /\ [Next]_vars => CommitInv(p)'
    BY CommitNext
<1> QED
    BY <1>1, <1>2, PTL DEF Spec

(* A commit is durable: the entry of a Close that reached its majority is  *)
(* in the log file of a majority of the servers, and stays there.          *)
THEOREM CommitsAreDurable ==
    ASSUME NEW p, Setting(p) PROVE Spec => []AckedDurable
<1>1. CommitInv(p) => AckedDurable
    BY DEF CommitInv
<1> QED
    BY <1>1, CommitInvariant, PTL

(* Two log files never hold different entries under the same index.        *)
THEOREM IndexNamesOneEntry ==
    ASSUME NEW p, Setting(p) PROVE Spec => []OneEntryPerIndex
<1>1. CommitInv(p) => OneEntryPerIndex
    BY DEF CommitInv, FromPrimary, OnPrimary, OneEntryPerIndex
<1> QED
    BY <1>1, CommitInvariant, PTL

=============================================================================
