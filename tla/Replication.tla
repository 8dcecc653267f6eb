---------------------------- MODULE Replication ----------------------------
(***************************************************************************)
(* The commit path of ikkat: a client's dirty Close or Write is written to *)
(* the primary's log, copied to the followers by AppendEntries, committed once *)
(* a majority acknowledged it, applied to the file and announced; plus     *)
(* what a crash and a restart do to that state.                            *)
(*   server_basics.go       Close and Write (dirty), Open (output files)   *)
(*   server_replication.go  AppendEntries, applyCommitted, apply,          *)
(*                          appendToDisk, recoverFromLog, RequestRecovery, *)
(*                          ApplyUpdate                                    *)
(*                                                                         *)
(* A Request is one dirty Close or Write call; the data it uploads is one  *)
(* prime that no other call uploads, named by the request itself.  So the        *)
(* content of a file, of a log entry and of a prime set is a set of        *)
(* requests: whose numbers it holds.                                       *)
(***************************************************************************)
EXTENDS Integers, Sequences, FiniteSets

CONSTANTS
    Server,         \* the keys of s.servers, the same on every server
    File,           \* names of output files, created before the first Open
    Request,        \* dirty Close and Write calls
    Write,          \* those that are Write calls, from a client's Commit
    Alive,          \* the servers that s.servers flags as alive
    FileOf,         \* the file each call names
    ServedBy,       \* the server each call is sent to; its role is Primary
    CanCrash,       \* servers that may crash and be restarted
    MaxCrashes,     \* bound: crashes in a behaviour
    PersistFails,   \* servers whose appendToDisk may return an error
    FullSync        \* does a restarted backup run RecoverFromLeader?

ASSUME ServerAssumption   == IsFiniteSet(Server) /\ Server # {}
ASSUME RequestAssumption  == /\ Write \subseteq Request
                             /\ Alive \subseteq Server
                             /\ FileOf \in [Request -> File]
                             /\ ServedBy \in [Request -> Server]
ASSUME FailureAssumption  == /\ CanCrash \subseteq Server
                             /\ PersistFails \subseteq Server
                             /\ MaxCrashes \in Nat
                             /\ FullSync \in BOOLEAN

VARIABLES
    status,         \* is the process running; "panicked" by an index out of range
    log,            \* s.log
    disk,           \* the lines of s.logFilePath
    commitIndex,    \* s.commitIndex
    lastApplied,    \* s.lastApplied
    content,        \* the bytes of each file under s.rootDir
    filesPrimes,    \* s.filesPrimes; {} when the file has no entry in the map
    version,        \* s.table[f].version; Absent when f is not in s.table
    pc,             \* where each call is
    base,           \* the version the call's Open returned, sent as req.Version
    ent,            \* logEntry of the call
    acks,           \* the peers whose Success the call has counted
    msgs,           \* AppendEntries requests sent and not handled
    sync,           \* the start-up recovery of a restarted backup
    snap,           \* the files of the reply of RequestRecovery, once sent
    crashes         \* crashes so far

callVars   == <<pc, base, ent, acks>>
fileVars   == <<content, filesPrimes, version>>
syncVars   == <<sync, snap>>
commitVars == <<commitIndex, lastApplied>>
vars == <<status, log, disk, commitVars, fileVars, callVars, msgs, syncVars,
          crashes>>

Primaries == {ServedBy[r] : r \in Request}
Peers(s)  == Server \ {s}
Majority  == Cardinality(Server) \div 2 + 1
Absent    == -1

NoFiles == [f \in File |-> {}]
Entry   == [index : Nat \ {0}, file : File, content : SUBSET Request]
NoEntry(r) == [index |-> 0, file |-> FileOf[r], content |-> {}]
Message == [req : Request, dest : Server, ask : BOOLEAN, entry : Entry,
            commit : Nat]

(* A call holds the FileEntry's write lock from its version check to its   *)
(* return.                                                                 *)
Holding  == {"prepared", "logged", "waiting", "committed"}
Answered == {"conflict", "failed", "closed"}
Dead     == {"lost", "unanswered"}
CallState == {"idle", "open", "closing"} \cup Holding \cup Answered \cup Dead

Committed(r) == pc[r] \in {"committed", "closed", "unanswered"}

(* Applying the entries at positions lo..hi leaves in each file the        *)
(* content of the last of them that names it.                              *)
Apply(files, entries, lo, hi) ==
    [f \in File |->
        LET hits == {i \in lo..hi : entries[i].file = f}
            last == {i \in hits : \A j \in hits : j <= i}
        IN  IF hits = {} THEN files[f]
            ELSE UNION {entries[i].content : i \in last}]

Init ==
    /\ status      = [s \in Server |-> "up"]
    /\ log         = [s \in Server |-> <<>>]
    /\ disk        = [s \in Server |-> <<>>]
    /\ commitIndex = [s \in Server |-> 0]
    /\ lastApplied = [s \in Server |-> 0]
    /\ content     = [s \in Server |-> NoFiles]
    /\ filesPrimes = [s \in Server |-> NoFiles]
    /\ version     = [s \in Server |-> [f \in File |-> Absent]]
    /\ pc          = [r \in Request |-> "idle"]
    /\ base        = [r \in Request |-> Absent]
    /\ ent         = [r \in Request |-> NoEntry(r)]
    /\ acks        = [r \in Request |-> {}]
    /\ msgs        = {}
    /\ sync        = [s \in Server |-> "none"]
    /\ snap        = [s \in Server |-> NoFiles]
    /\ crashes     = 0

-----------------------------------------------------------------------------
(* The client's Open, which returns the version of the file and registers  *)
(* the descriptor; a file the table does not know starts at version 1.     *)
Open(r) ==
    LET s == ServedBy[r]  f == FileOf[r]
        v == IF version[s][f] = Absent THEN 1 ELSE version[s][f]
    IN  /\ pc[r] = "idle" /\ status[s] = "up"
        /\ version' = [version EXCEPT ![s][f] = v]
        /\ base' = [base EXCEPT ![r] = v]
        /\ pc' = [pc EXCEPT ![r] = "open"]
        /\ UNCHANGED <<status, log, disk, commitVars, content, filesPrimes,
                       ent, acks, msgs, syncVars, crashes>>

(* The call reaches the server and waits for the write lock.         *)
CloseArrives(r) ==
    /\ pc[r] = "open" /\ status[ServedBy[r]] = "up"
    /\ pc' = [pc EXCEPT ![r] = "closing"]
    /\ UNCHANGED <<status, log, disk, commitVars, fileVars, base, ent, acks,
                   msgs, syncVars, crashes>>

LockedUntilLogged(r) ==             \* mutant: released before the commit
    \A o \in Request : ServedBy[o] = ServedBy[r] /\ FileOf[o] = FileOf[r]
                       => pc[o] # "prepared"

LeakyLock(r) ==                     \* mutant: not released on a timeout
    \A o \in Request : ServedBy[o] = ServedBy[r] /\ FileOf[o] = FileOf[r]
                       => pc[o] \notin Holding \cup {"failed"}

LockFree(r) ==
    \A o \in Request : /\ ServedBy[o] = ServedBy[r]
                       /\ FileOf[o] = FileOf[r]
                       => pc[o] \notin Holding

IndexFromZero(s)   == Len(log[s])             \* mutant: off by one
IndexOfCommit(s)   == commitIndex[s] + 1      \* mutant: counts the committed
NextIndex(s)       == Len(log[s]) + 1

OnlyUploaded(r)    == {r}                     \* mutant: no merge
Merged(r)          == filesPrimes[ServedBy[r]][FileOf[r]] \cup {r}

(* Write logs what was uploaded, Close the whole prime set it goes into.   *)
Uploaded(r)        == IF r \in Write THEN {r} ELSE Merged(r)

AnyOlderVersion(r) == base[r] <= version[ServedBy[r]][FileOf[r]] \* mutant: <=
VersionMatches(r)  == base[r] = version[ServedBy[r]][FileOf[r]]

(* AcquireWrite, the version check, Close's merge into the prime set and   *)
(* the choice of the index, which reads len(s.log) without s.mu.  A prime  *)
(* set already in the map is merged in place: tempPrimeSet is that map.    *)
BeginClose(r) ==
    LET s == ServedBy[r]  f == FileOf[r]
    IN  /\ pc[r] = "closing" /\ status[s] = "up" /\ LockFree(r)
        /\ VersionMatches(r)
        /\ pc' = [pc EXCEPT ![r] = "prepared"]
        /\ ent' = [ent EXCEPT ![r] = [index |-> NextIndex(s), file |-> f,
                                      content |-> Uploaded(r)]]
        /\ filesPrimes' = IF r \in Write \/ filesPrimes[s][f] = {}
                          THEN filesPrimes
                          ELSE [filesPrimes EXCEPT ![s][f] = Merged(r)]
        /\ UNCHANGED <<status, log, disk, commitVars, content, version, base,
                       acks, msgs, syncVars, crashes>>

(* The version check fails: "conflict".                                    *)
Conflict(r) ==
    /\ pc[r] = "closing" /\ status[ServedBy[r]] = "up" /\ LockFree(r)
    /\ ~VersionMatches(r)
    /\ pc' = [pc EXCEPT ![r] = "conflict"]
    /\ UNCHANGED <<status, log, disk, commitVars, fileVars, base, ent, acks,
                   msgs, syncVars, crashes>>

(* Under s.mu, the entry goes to the log and to the disk.  When the disk   *)
(* write fails the call does, and the entry stays in the log.              *)
AppendLog(r, persisted) ==
    LET s == ServedBy[r]
    IN  /\ pc[r] = "prepared" /\ status[s] = "up"
        /\ persisted \/ s \in PersistFails
        /\ log' = [log EXCEPT ![s] = Append(@, ent[r])]
        /\ disk' = IF persisted THEN [disk EXCEPT ![s] = Append(@, ent[r])]
                   ELSE disk
        /\ pc' = [pc EXCEPT ![r] = IF persisted THEN "logged" ELSE "failed"]
        /\ UNCHANGED <<status, commitVars, fileVars, base, ent, acks, msgs,
                       syncVars, crashes>>

(* One sendAppendEntry per peer, all with the commit index read here.      *)
(* Write calls its peers in turn, in any order, and gives up each within a *)
(* time: nothing that is handled or counted tells it from Close.           *)
SendAppends(r) ==
    LET s == ServedBy[r]
    IN  /\ pc[r] = "logged" /\ status[s] = "up"
        /\ msgs' = msgs \cup
             [req : {r}, dest : Peers(s), ask : {TRUE}, entry : {ent[r]},
              commit : {commitIndex[s]}]
        /\ pc' = [pc EXCEPT ![r] = "waiting"]
        /\ UNCHANGED <<status, log, disk, commitVars, fileVars, base, ent,
                       acks, syncVars, crashes>>

(* Write asks for a majority of the servers flagged alive.                 *)
Needed(r) == IF r \in Write THEN Cardinality(Alive) \div 2 + 1 ELSE Majority

(* commitIndex is assigned c and what lies between lastApplied and it is   *)
(* applied to the files.                                                   *)
CommitUpTo(s, c, files) ==
    /\ commitIndex' = [commitIndex EXCEPT ![s] = c]
    /\ lastApplied' = [lastApplied EXCEPT ![s] = IF @ < c THEN c ELSE @]
    /\ content' = [content EXCEPT
                     ![s] = Apply(files, log[s], lastApplied[s] + 1, c)]

Commit(r) ==
    LET s == ServedBy[r]
    IN  /\ pc[r] = "waiting" /\ status[s] = "up"
        /\ 1 + Cardinality(acks[r]) >= Needed(r)
        /\ CommitUpTo(s, ent[r].index, content[s])
        /\ pc' = [pc EXCEPT ![r] = "committed"]
        /\ UNCHANGED <<status, log, disk, filesPrimes, version, base, ent,
                       acks, msgs, syncVars, crashes>>

(* One second without a majority: "failed to reach majority".              *)
Timeout(r) ==
    /\ pc[r] = "waiting" /\ status[ServedBy[r]] = "up"
    /\ 1 + Cardinality(acks[r]) < Needed(r)
    /\ pc' = [pc EXCEPT ![r] = "failed"]
    /\ UNCHANGED <<status, log, disk, commitVars, fileVars, base, ent, acks,
                   msgs, syncVars, crashes>>

(* The followers are told of the commit, with the commit index of now; the *)
(* prime set and the version are stored, the lock released, the client     *)
(* answered.  Close stores the set it logged.  Write adds its number to    *)
(* the set, appends it to the file if it is new to the set, and assigns    *)
(* commitIndex and applies the log once more.                              *)
Finish(r) ==
    LET s == ServedBy[r]  f == FileOf[r]
        new == {r} \ filesPrimes[s][f]
    IN  /\ pc[r] = "committed" /\ status[s] = "up"
        /\ msgs' = msgs \cup
             [req : {r}, dest : Peers(s), ask : {FALSE}, entry : {ent[r]},
              commit : {commitIndex[s]}]
        /\ version' = [version EXCEPT ![s][f] = @ + 1]
        /\ IF r \in Write
           THEN /\ filesPrimes' = [filesPrimes EXCEPT ![s][f] = @ \cup new]
                /\ CommitUpTo(s, ent[r].index,
                              [content[s] EXCEPT ![f] = @ \cup new])
           ELSE /\ filesPrimes' = [filesPrimes EXCEPT ![s][f] = ent[r].content]
                /\ UNCHANGED <<commitVars, content>>
        /\ pc' = [pc EXCEPT ![r] = "closed"]
        /\ UNCHANGED <<status, log, disk, base, ent, acks, syncVars, crashes>>

-----------------------------------------------------------------------------
(* What AppendEntries makes of the receiver's log and commit index: an     *)
(* entry whose index is within the log counts as a duplicate, any other is *)
(* appended at the end.                                                    *)
IsBeyond(m) == m.entry.index > Len(log[m.dest]) + 1   \* mutant: off by one
IsNew(m) == m.entry.index > Len(log[m.dest])

LogAfter(m) == IF IsNew(m) THEN Append(log[m.dest], m.entry) ELSE log[m.dest]

CommitAfter(m) == IF m.commit > commitIndex[m.dest] THEN m.commit
                  ELSE commitIndex[m.dest]

DiskAfter(m, persisted) ==
    IF IsNew(m) /\ persisted THEN [disk EXCEPT ![m.dest] = Append(@, m.entry)]
    ELSE disk

(* applyCommitted indexes the log past its end.                            *)
Overruns(m) == /\ lastApplied[m.dest] < CommitAfter(m)
               /\ Len(LogAfter(m)) < CommitAfter(m)

(* The handler, and the answer's way back: the caller counts it if it is   *)
(* still waiting when it arrives in time.  A failed disk write is only     *)
(* logged.  A request that is lost is one that is never handled.           *)
AppendEntries(m, persisted, heard) ==
    LET q == m.dest
    IN  /\ status[q] = "up" /\ ~Overruns(m)
        /\ persisted \/ q \in PersistFails
        /\ log' = [log EXCEPT ![q] = LogAfter(m)]
        /\ disk' = DiskAfter(m, persisted)
        /\ commitIndex' = [commitIndex EXCEPT ![q] = CommitAfter(m)]
        /\ lastApplied' = [lastApplied EXCEPT
                             ![q] = IF @ < CommitAfter(m) THEN CommitAfter(m)
                                    ELSE @]
        /\ content' = [content EXCEPT
                         ![q] = Apply(@, LogAfter(m), lastApplied[q] + 1,
                                      CommitAfter(m))]
        /\ acks' = IF heard /\ m.ask /\ pc[m.req] = "waiting"
                   THEN [acks EXCEPT ![m.req] = @ \cup {q}] ELSE acks
        /\ msgs' = msgs \ {m}
        /\ UNCHANGED <<status, filesPrimes, version, pc, base, ent, syncVars,
                       crashes>>

(* The process of s ends: memory is gone, and so are the calls it served.  *)
(* A call that had committed leaves its client without an answer.          *)
Halt(s, how) ==
    /\ status'      = [status EXCEPT ![s] = how]
    /\ log'         = [log EXCEPT ![s] = <<>>]
    /\ commitIndex' = [commitIndex EXCEPT ![s] = 0]
    /\ lastApplied' = [lastApplied EXCEPT ![s] = 0]
    /\ filesPrimes' = [filesPrimes EXCEPT ![s] = NoFiles]
    /\ version'     = [version EXCEPT ![s] = [f \in File |-> Absent]]
    /\ pc' = [r \in Request |->
                IF ServedBy[r] # s \/ pc[r] \in {"idle"} \cup Answered \cup Dead
                THEN pc[r]
                ELSE IF pc[r] = "committed" THEN "unanswered" ELSE "lost"]
    /\ UNCHANGED <<base, ent, acks, syncVars>>

(* AppendEntries appends, applies what the log holds, and panics.          *)
AppendEntriesPanics(m, persisted) ==
    LET q == m.dest
    IN  /\ status[q] = "up" /\ Overruns(m)
        /\ persisted \/ q \in PersistFails
        /\ disk' = DiskAfter(m, persisted)
        /\ content' = [content EXCEPT
                         ![q] = Apply(@, LogAfter(m), lastApplied[q] + 1,
                                      Len(LogAfter(m)))]
        /\ msgs' = msgs \ {m}
        /\ Halt(q, "panicked")
        /\ UNCHANGED crashes

Crash(s) ==
    /\ s \in CanCrash /\ crashes < MaxCrashes /\ status[s] = "up"
    /\ crashes' = crashes + 1
    /\ Halt(s, "down")
    /\ UNCHANGED <<disk, content, msgs>>

(* StartServer: recoverFromLog loads every line into the log and applies   *)
(* it; commitIndex and lastApplied start at zero.  A backup then waits two *)
(* seconds to ask the leader for its files.                                *)
Restart(s) ==
    /\ s \in CanCrash /\ status[s] # "up"
    /\ status' = [status EXCEPT ![s] = "up"]
    /\ log' = [log EXCEPT ![s] = disk[s]]
    /\ content' = [content EXCEPT ![s] = Apply(@, disk[s], 1, Len(disk[s]))]
    /\ sync' = IF FullSync /\ s \notin Primaries
               THEN [sync EXCEPT ![s] = "due"] ELSE sync
    /\ UNCHANGED <<disk, commitVars, filesPrimes, version, callVars, msgs,
                   snap, crashes>>

(* RecoverFromLeader's call is handled by the primary p, which returns the *)
(* bytes of every file in its table.                                       *)
RequestRecovery(q, p) ==
    /\ sync[q] = "due" /\ status[q] = "up"
    /\ p \in Primaries /\ status[p] = "up"
    /\ sync' = [sync EXCEPT ![q] = "replied"]
    /\ snap' = [snap EXCEPT ![q] = [f \in {g \in File : version[p][g] # Absent}
                                      |-> content[p][f]]]
    /\ UNCHANGED <<status, log, disk, commitVars, fileVars, callVars, msgs,
                   crashes>>

(* ApplyUpdate, full sync: the log and both indexes are emptied, the log   *)
(* file is not; the files are overwritten, their table entries have        *)
(* version 0.                                                              *)
ApplyUpdate(q) ==
    /\ sync[q] = "replied" /\ status[q] = "up"
    /\ sync' = [sync EXCEPT ![q] = "done"]
    /\ log' = [log EXCEPT ![q] = <<>>]
    /\ commitIndex' = [commitIndex EXCEPT ![q] = 0]
    /\ lastApplied' = [lastApplied EXCEPT ![q] = 0]
    /\ content' = [content EXCEPT
                     ![q] = [f \in File |-> IF f \in DOMAIN snap[q]
                                            THEN snap[q][f] ELSE @[f]]]
    /\ version' = [version EXCEPT
                     ![q] = [f \in File |-> IF f \in DOMAIN snap[q] THEN 0
                                            ELSE @[f]]]
    /\ UNCHANGED <<status, disk, filesPrimes, callVars, msgs, snap, crashes>>

-----------------------------------------------------------------------------
Handler(r) == \/ BeginClose(r)
              \/ Conflict(r)
              \/ \E persisted \in BOOLEAN : AppendLog(r, persisted)
              \/ SendAppends(r)
              \/ Commit(r)
              \/ Timeout(r)
              \/ Finish(r)

Network == \E m \in msgs, persisted, heard \in BOOLEAN :
              AppendEntries(m, persisted, heard)

(* The process of s ends, by itself or not.                                *)
Ends(s) == \/ Crash(s)
           \/ \E m \in msgs, persisted \in BOOLEAN :
                 m.dest = s /\ AppendEntriesPanics(m, persisted)

Failure == \E s \in Server : \/ Ends(s)
                             \/ Restart(s)
                             \/ \E p \in Server : RequestRecovery(s, p)
                             \/ ApplyUpdate(s)

Next == \/ \E r \in Request : Open(r) \/ CloseArrives(r) \/ Handler(r)
        \/ Network
        \/ Failure

Spec == Init /\ [][Next]_vars

(***************************************************************************)
(* Properties                                                              *)
(***************************************************************************)
(* The variables have their types; an entry's index is at least 1.         *)
TypeOK ==
    /\ status \in [Server -> {"up", "down", "panicked"}]
    /\ log \in [Server -> Seq(Entry)]
    /\ disk \in [Server -> Seq(Entry)]
    /\ commitIndex \in [Server -> Nat]
    /\ lastApplied \in [Server -> Nat]
    /\ content \in [Server -> [File -> SUBSET Request]]
    /\ filesPrimes \in [Server -> [File -> SUBSET Request]]
    /\ version \in [Server -> [File -> Nat \cup {Absent}]]
    /\ pc \in [Request -> CallState]
    /\ base \in [Request -> Nat \cup {Absent}]
    /\ ent \in [Request ->
                 [index : Nat, file : File, content : SUBSET Request]]
    /\ \A r \in Request : pc[r] \in Holding => ent[r] \in Entry
    /\ acks \in [Request -> SUBSET Server]
    /\ msgs \subseteq Message
    /\ sync \in [Server -> {"none", "due", "replied", "done"}]
    /\ snap \in [Server -> UNION {[S -> SUBSET Request] : S \in SUBSET File}]
    /\ crashes \in Nat

Holders(e) == {s \in Server : \E i \in DOMAIN disk[s] : disk[s][i] = e}

(* A commit is durable: once Close or Write has reached its majority, the  *)
(* entry is in the log file of a majority of the servers, whatever         *)
(* crashes, is lost or arrives late.                                       *)
AckedDurable ==
    \A r \in Request :
        Committed(r) => Cardinality(Holders(ent[r])) >= Majority

(* LogEntry.Index is the entry's position in the primary's log: what the   *)
(* comment of LogEntry says.  Calls on one file keep it, calls on two      *)
(* files do not.                                                           *)
PrimaryIndexIsPosition ==
    \A p \in Primaries : \A i \in DOMAIN log[p] : log[p][i].index = i

(* Two log files never hold different entries under the same index.        *)
OneEntryPerIndex ==
    \A s, t \in Server : \A i \in DOMAIN disk[s], j \in DOMAIN disk[t] :
        disk[s][i].index = disk[t][j].index => disk[s][i] = disk[t][j]

(* The number of a Close that was answered "closed" stays in the primary's *)
(* file: no later commit, failed call or recovery takes it out.            *)
AckedDataKept ==
    \A r \in Request : pc[r] = "closed" => r \in content[ServedBy[r]][FileOf[r]]

(* Of the Close calls of one file that started from the same version, one  *)
(* at most succeeds.                                                       *)
FirstCommitterWins ==
    \A r, o \in Request :
        /\ pc[r] = "closed" /\ pc[o] = "closed" /\ base[r] = base[o]
        /\ FileOf[r] = FileOf[o] /\ ServedBy[r] = ServedBy[o]
        => r = o

(* While the primary runs, its commit index and lastApplied agree between  *)
(* calls and never go back.                                                *)
CommitForward ==
    \A p \in Primaries : status'[p] = "up" /\ status[p] = "up" =>
        /\ commitIndex'[p] >= commitIndex[p]
        /\ lastApplied'[p] = commitIndex'[p]

CommitMonotone == [][CommitForward]_vars

(* A Close that reached the server ends: the call returns, or the server   *)
(* it was sent to has died.                                                *)
CloseReturns ==
    \A r \in Request : pc[r] = "closing" ~> pc[r] \in Answered \cup Dead

(* One primary that does not crash is what VersionedFiles promises.        *)
Outcome(r) == CASE pc[r] = "idle" -> "none"
                [] pc[r] = "open" -> "open"
                [] pc[r] = "closed" -> "accepted"
                [] pc[r] \in {"conflict", "failed"} \cup Dead -> "refused"
                [] OTHER -> "sent"

FileVersion(f) ==
    LET v == {version[p][f] : p \in Primaries}
    IN  IF v = {Absent} THEN 1 ELSE CHOOSE n \in v : TRUE

Versions == [f \in File |-> FileVersion(f)]
Seen     == [r \in Request |-> IF base[r] = Absent THEN 0 ELSE base[r]]
Outcomes == [r \in Request |-> Outcome(r)]
Stored   == [f \in File |-> UNION {content[p][f] : p \in Primaries}]

Promise == INSTANCE VersionedFiles WITH
    ver <- Versions, seen <- Seen, outcome <- Outcomes, stored <- Stored

(* The commit path keeps that promise, with any followers crashing, disks  *)
(* failing, backups recovering and requests lost, late or out of order.    *)
KeepsPromise == Promise!Spec

-----------------------------------------------------------------------------
(* The goroutine of a Close call keeps running; nothing is promised of the *)
(* network, of the clients or of the operator who restarts servers.        *)
Fairness == \A r \in Request : WF_vars(Handler(r))

FairSpec == Spec /\ Fairness
=============================================================================
