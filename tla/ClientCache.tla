----------------------------- MODULE ClientCache -----------------------------
(***************************************************************************)
(* The client library: whole-file caching with a version check at Open.    *)
(*   client_basics.go   cache, lru, Create, Open, Read, WriteFile,         *)
(*                      AppendFile, Commit, Close, Delete, redirection     *)
(*   connection.go      DialClient                                         *)
(*   server_basics.go   TestAuth, and what the handlers of the calls make  *)
(*                      of the server's state                              *)
(*                                                                         *)
(* Clients are single-threaded programs; here a handler of the server is   *)
(* one step (Sessions, FileLock and Replication have its interior), and so *)
(* is a call, but for Open, which makes two.  A call that never reaches    *)
(* the server, or fails there without effect, is lost.                     *)
(***************************************************************************)
EXTENDS Integers, FiniteSets, SequencesExt

CONSTANTS
    Client,
    File,               \* names of input and output files
    Input,              \* the input files
    Existing,           \* the files that were there before
    Listing,            \* the numbers in them
    Number,             \* the numbers in the files, and those the clients write
    HomeOf,             \* the output file each number is written to
    maxCacheEntries,    \* capacity of c.cache
    MaxOpenFiles,       \* capacity of the server's s.files
    MaxPrimaries,       \* bound: servers that are primary one after another
    MaxCalls,           \* bound: calls that open, create or delete, and faults
    MaxFaults,          \* bound: of these, faults
    Careful,            \* do programs keep to the rules of CarefulUse?
    None

ASSUME CacheAssumption ==
    /\ HomeOf \in [Number -> File]
    /\ Input \subseteq Existing /\ Existing \subseteq File
    /\ Listing \in [File -> SUBSET Number]
    /\ \A f \in File \ Existing : Listing[f] = {}
    /\ maxCacheEntries \in Nat \ {0}
    /\ MaxOpenFiles \in Nat /\ MaxPrimaries \in Nat \ {0}
    /\ MaxCalls \in Nat /\ MaxFaults \in Nat
    /\ Careful \in BOOLEAN

VARIABLES
    primary,    \* which server is primary: counts the changes
    exists,     \* the files under the primary's rootDir
    content,    \* their numbers
    primes,     \* filesPrimes
    version,    \* table[f].version; Absent when f is not in the table
    fds,        \* s.files by descriptor, which are handed out from 0
    frozen,     \* a handler waits for s.mu while it holds it
    conn,       \* the server the client is connected to
    cache,      \* c.cache, each entry with its local copy; None: not cached
    lru,        \* c.lru
    opening,    \* the file of an Open between its TestAuth and its Open call
    unsaved,    \* history: numbers a client wrote, no Close acknowledged yet
    shown,      \* history: numbers each of the server's files has held
    calls,      \* Create, Open and Delete calls executed so far
    faults      \* answers of Close lost, leases expired, primaries changed

serverVars  == <<primary, exists, content, primes, version, fds, frozen>>
clientVars  == <<conn, cache, lru, opening>>
historyVars == <<unsaved, shown>>
boundVars   == <<calls, faults>>
vars == <<serverVars, clientVars, historyVars, boundVars>>

Absent  == -1
READ    == 0
WRITE   == 1
Mode    == {READ, WRITE}
Version == Nat \cup {Absent}

CacheEntry == [version : Nat, dirty : BOOLEAN, fd : Nat, closed : BOOLEAN,
               mode : Mode, valid : BOOLEAN, data : SUBSET Number]

(* A descriptor has one client.  It goes on reading the bytes it was       *)
(* opened on when the file is deleted.                                     *)
FileMeta == [file : File, client : Client, mode : Mode, open : BOOLEAN,
             removed : {None} \cup SUBSET Number]

ASSUME NoneAssumption == None \notin File /\ None \notin CacheEntry

Numbers(f)   == {n \in Number : HomeOf[n] = f}
InCache(c)   == {f \in File : cache[c][f] # None}
Idle(c)      == opening[c] = None
Connected(c) == conn[c] = primary

(* Every client has been connected to the leader by DialClient.            *)
Init ==
    /\ primary = 1
    /\ exists  = Existing
    /\ content = Listing
    /\ primes  = [f \in File |-> {}]
    /\ version = [f \in File |-> Absent]
    /\ fds     = <<>>
    /\ frozen  = FALSE
    /\ conn    = [c \in Client |-> 1]
    /\ cache   = [c \in Client |-> [f \in File |-> None]]
    /\ lru     = [c \in Client |-> <<>>]
    /\ opening = [c \in Client |-> None]
    /\ unsaved = [c \in Client |-> {}]
    /\ shown   = Listing
    /\ calls   = 0
    /\ faults  = 0

-----------------------------------------------------------------------------
(* The server: getFileEntry, the descriptors, and the handlers' effects.   *)
NotMade(f)     == version                     \* mutant: no entry is made
EntryMade(f)   == [version EXCEPT ![f] = IF @ = Absent THEN 1 ELSE @]
HasSpace       == Len(fds) < MaxOpenFiles

(* Open's: an input file is only read.                                     *)
Opens(f, mode) == f \in exists /\ HasSpace /\ (f \in Input => mode = READ)

Registered(fd, c) == \E d \in {fd + 1} \cap DOMAIN fds :
                        fds[d].client = c /\ fds[d].open

Register(c, f, mode) ==
    fds' = Append(fds, [file |-> f, client |-> c, mode |-> mode,
                        open |-> TRUE, removed |-> None])

Unregister(fd) == fds' = [fds EXCEPT ![fd + 1].open = FALSE]

(* openMap: the newest descriptor of a client and a file, -1 if none.      *)
NewestFd(c, f) ==
    LET own == {d \in DOMAIN fds : fds[d].client = c /\ fds[d].file = f}
    IN  IF own = {} THEN -1 ELSE Max(own) - 1

Bytes(fd) == IF fds[fd + 1].removed = None THEN content[fds[fd + 1].file]
             ELSE fds[fd + 1].removed

(* The write path of Close and Write, for the entry the client sends: the  *)
(* file is the descriptor's.  Close stores the merge with the prime set,   *)
(* Write what was sent.                                                    *)
TargetOf(e) == fds[e.fd + 1].file
Accepts(e)  == /\ fds[e.fd + 1].mode = WRITE
               /\ e.version = EntryMade(TargetOf(e))[TargetOf(e)]

JustSent(g, e) == e.data                               \* mutant: no merge
Merged(g, e)   == primes[g] \cup e.data

Store(e, merge) ==
    LET g == TargetOf(e)
        numbers == IF merge THEN Merged(g, e) ELSE e.data
    IN  /\ exists'  = exists \cup {g}
        /\ content' = [content EXCEPT ![g] = numbers]
        /\ primes'  = [primes EXCEPT ![g] = @ \cup e.data]
        /\ version' = [EntryMade(g) EXCEPT ![g] = @ + 1]
        /\ shown'   = [shown EXCEPT ![g] = @ \cup numbers]

-----------------------------------------------------------------------------
(* The cache: touchLRU and evictFromCache.                                 *)
Touched(q, f)   == Append(RemoveFirst(q, f), f)

IsOverfull(c)   == Cardinality(InCache(c)) > maxCacheEntries   \* mutant
IsFull(c)       == Cardinality(InCache(c)) >= maxCacheEntries

Evictable(e)    == e.closed /\ ~e.dirty /\ e.fd = 0
Victims(c)      == {i \in DOMAIN lru[c] : lru[c][i] \in InCache(c)
                                          /\ Evictable(cache[c][lru[c][i]])}
HasRoom(c)      == IsFull(c) => Victims(c) # {}
RoomyCache(c)   == IF IsFull(c)
                   THEN [cache[c] EXCEPT ![lru[c][Min(Victims(c))]] = None]
                   ELSE cache[c]
RoomyLRU(c)     == IF IsFull(c) THEN RemoveAt(lru[c], Min(Victims(c)))
                   ELSE lru[c]

Count == calls + faults < MaxCalls /\ calls' = calls + 1
Fault == calls + faults < MaxCalls /\ faults < MaxFaults
         /\ faults' = faults + 1

SetCache(c, entries) == cache' = [cache EXCEPT ![c] = entries]
SetEntry(c, f, e)    == cache' = [cache EXCEPT ![c][f] = e]
SetLRU(c, q)         == lru' = [lru EXCEPT ![c] = q]
Touch(c, f)          == SetLRU(c, Touched(lru[c], f))

(* "not leader": Create, Open, Commit, Close and Delete connect to the     *)
(* server they are pointed to and send the call there.                     *)
Redirected(c) == conn' = [conn EXCEPT ![c] = primary]
MaybeRedirected(c) == Redirected(c) \/ UNCHANGED conn

(* What a program must not do to keep its data: write to a file or close   *)
(* it while it is not open, fetch or create it over unsaved changes.       *)
CarefulUse(c, f, op) ==
    LET e == cache[c][f]
    IN  CASE op \in {"write", "close"} -> ~e.closed
          [] op = "read"               -> ~e.dirty
          [] op = "create"             -> e = None

Uses(c, f, op) == Idle(c) /\ (Careful => CarefulUse(c, f, op))

-----------------------------------------------------------------------------
(* Create makes room, tries, and caches an empty entry that is closed and  *)
(* in READ mode, with the descriptor it was given.                         *)
Created(fd) == [version |-> 0, dirty |-> FALSE, fd |-> fd, closed |-> TRUE,
                mode |-> READ, valid |-> FALSE, data |-> {}]

Create(c, f, heard) ==
    /\ Uses(c, f, "create") /\ HasRoom(c)
    /\ ~frozen /\ f \notin exists /\ HasSpace /\ Count
    /\ f \notin Input
    /\ Redirected(c)
    /\ exists' = exists \cup {f}
    /\ content' = [content EXCEPT ![f] = {}]
    /\ version' = [version EXCEPT ![f] = 0]
    /\ Register(c, f, READ)
    /\ IF heard
       THEN /\ SetCache(c, [RoomyCache(c) EXCEPT ![f] = Created(Len(fds))])
            /\ SetLRU(c, Touched(RoomyLRU(c), f))
       ELSE SetCache(c, RoomyCache(c)) /\ SetLRU(c, RoomyLRU(c))
    /\ UNCHANGED <<primary, primes, frozen, opening, historyVars, faults>>

CreateFails(c, f) ==
    /\ Uses(c, f, "create") /\ HasRoom(c)
    /\ SetCache(c, RoomyCache(c)) /\ SetLRU(c, RoomyLRU(c))
    /\ \/ MaybeRedirected(c) /\ UNCHANGED version
       \/ /\ ~frozen /\ f \in exists \ Input
          /\ Redirected(c) /\ version' = EntryMade(f)
    /\ UNCHANGED <<primary, exists, content, primes, fds, frozen, opening,
                   historyVars, boundVars>>

(* Open of a file that is not in the cache makes room and asks the server. *)
(* Open of a cached one returns it as it is when it is dirty; for any      *)
(* other the server is asked for the version.  Unless that is the copy's,  *)
(* the file is fetched as if it were not cached: with no data.             *)
NeedsAuth(c, f)  == f \in InCache(c) /\ ~cache[c][f].dirty

Outdated(c, f)   == /\ NeedsAuth(c, f) /\ Connected(c)
                    /\ version[f] \notin {Absent, cache[c][f].version}

FetchedNoFd(f, mode) ==                            \* mutant: fd not stored
    [version |-> EntryMade(f)[f], dirty |-> FALSE, fd |-> 0, closed |-> FALSE,
     mode |-> mode, valid |-> FALSE, data |-> {}]
Fetched(f, mode) == [version |-> EntryMade(f)[f], dirty |-> FALSE,
                     fd |-> Len(fds), closed |-> FALSE, mode |-> mode,
                     valid |-> FALSE, data |-> {}]

Open(c, f, mode, heard) ==
    LET evicts == f \notin InCache(c)
        files  == IF evicts THEN RoomyCache(c) ELSE cache[c]
        names  == IF evicts THEN RoomyLRU(c) ELSE lru[c]
    IN  /\ Idle(c) /\ IF evicts THEN HasRoom(c) ELSE Outdated(c, f)
        /\ ~frozen /\ Opens(f, mode) /\ Count
        /\ Redirected(c)
        /\ version' = EntryMade(f)
        /\ Register(c, f, mode)
        /\ IF heard THEN /\ SetCache(c, [files EXCEPT ![f] = Fetched(f, mode)])
                         /\ SetLRU(c, Touched(names, f))
           ELSE SetCache(c, files) /\ SetLRU(c, names)
        /\ UNCHANGED <<primary, exists, content, primes, frozen, opening,
                       historyVars, faults>>

(* Lost, or answered with an error: no such file, too many open, an input  *)
(* file to write.                                                          *)
OpenFails(c, f, mode) ==
    /\ Idle(c)
    /\ \/ /\ f \notin InCache(c) /\ HasRoom(c)
          /\ SetCache(c, RoomyCache(c)) /\ SetLRU(c, RoomyLRU(c))
       \/ Outdated(c, f) /\ UNCHANGED <<cache, lru>>
    /\ \/ MaybeRedirected(c) /\ UNCHANGED version
       \/ /\ ~frozen /\ ~Opens(f, mode)
          /\ Redirected(c) /\ version' = EntryMade(f)
    /\ UNCHANGED <<primary, exists, content, primes, fds, frozen, opening,
                   historyVars, boundVars>>

(* The server has the version of the copy: it is valid, and an Open call,  *)
(* not repeated and not redirected, is still to give it a descriptor.      *)
ModeConflict(e, mode) == ~e.closed /\ e.mode # mode /\ e.mode = READ

(* TestAuth lost, or the copy open to be read and asked for to be written. *)
AuthFails(c, f) ==
    /\ Idle(c) /\ NeedsAuth(c, f)
    /\ UNCHANGED vars

TestAuth(c, f, mode) ==
    LET e == cache[c][f]
    IN  /\ Idle(c) /\ NeedsAuth(c, f) /\ Connected(c)
        /\ e.version = version[f] /\ ~ModeConflict(e, mode)
        /\ SetEntry(c, f, [e EXCEPT !.valid = TRUE, !.mode = mode])
        /\ Touch(c, f)
        /\ opening' = [opening EXCEPT ![c] = f]
        /\ UNCHANGED <<serverVars, conn, historyVars, boundVars>>

Kept(e)       == [e EXCEPT !.closed = FALSE]      \* mutant: fd not stored
Reopened(e)   == [e EXCEPT !.fd = Len(fds), !.closed = FALSE]

OpenValid(c, f, heard) ==
    /\ opening[c] = f /\ Connected(c)
    /\ ~frozen /\ Opens(f, cache[c][f].mode) /\ Count
    /\ version' = EntryMade(f)
    /\ Register(c, f, cache[c][f].mode)
    /\ opening' = [opening EXCEPT ![c] = None]
    /\ IF heard THEN SetEntry(c, f, Reopened(cache[c][f])) ELSE UNCHANGED cache
    /\ UNCHANGED <<primary, exists, content, primes, frozen, conn, lru,
                   historyVars, faults>>

OpenValidFails(c, f) ==
    /\ opening[c] = f
    /\ \/ UNCHANGED version
       \/ /\ Connected(c) /\ ~frozen /\ ~Opens(f, cache[c][f].mode)
          /\ version' = EntryMade(f)
    /\ opening' = [opening EXCEPT ![c] = None]
    /\ UNCHANGED <<primary, exists, content, primes, fds, frozen, conn, cache,
                   lru, historyVars, boundVars>>

-----------------------------------------------------------------------------
(* Read of a valid copy is local.  Any other is replaced by what the       *)
(* server streams from the client's newest descriptor.                     *)
ReadFile(c, f) ==
    /\ Idle(c) /\ f \in InCache(c) /\ cache[c][f].valid
    /\ Touch(c, f)
    /\ UNCHANGED <<serverVars, conn, cache, opening, historyVars, boundVars>>

Read(c, f) ==
    LET fd == NewestFd(c, f)
    IN  /\ f \in InCache(c) /\ Uses(c, f, "read") /\ ~cache[c][f].valid
        /\ Connected(c) /\ ~frozen /\ Registered(fd, c)
        /\ SetEntry(c, f, [cache[c][f] EXCEPT !.data = Bytes(fd)])
        /\ Touch(c, f)
        /\ UNCHANGED <<serverVars, conn, opening, historyVars, boundVars>>

(* Ten seconds after the last use Read ends the registration instead.      *)
LeaseExpires(c, f) ==
    LET fd == NewestFd(c, f)
    IN  /\ f \in InCache(c) /\ Uses(c, f, "read") /\ ~cache[c][f].valid
        /\ Connected(c) /\ ~frozen /\ Registered(fd, c)
        /\ Unregister(fd)
        /\ Fault
        /\ UNCHANGED <<primary, exists, content, primes, version, frozen,
                       clientVars, historyVars, calls>>

(* WriteFile replaces the local copy, AppendFile adds to it.               *)
StillValid(e, numbers) == [e EXCEPT !.data = numbers, !.dirty = TRUE]  \* mutant
Written(e, numbers)    == [e EXCEPT !.data = numbers, !.dirty = TRUE,
                                    !.valid = FALSE]

Change(c, f, numbers, keep) ==
    LET e == cache[c][f]
    IN  /\ f \in InCache(c) /\ Uses(c, f, "write") /\ e.mode = WRITE
        /\ SetEntry(c, f, Written(e, (IF keep THEN e.data ELSE {}) \cup numbers))
        /\ Touch(c, f)
        /\ unsaved' = [unsaved EXCEPT ![c] =
                         (IF keep THEN @ ELSE @ \ Numbers(f)) \cup numbers]
        /\ UNCHANGED <<serverVars, conn, opening, shown, boundVars>>

WriteFile(c, f, numbers)  == Change(c, f, numbers, FALSE)
AppendFile(c, f, numbers) == Change(c, f, numbers, TRUE)

-----------------------------------------------------------------------------
(* Commit of an open dirty file, Close of any cached one.  The call goes   *)
(* out with the entry's descriptor; the answer to a redirected call is     *)
(* thrown away.                                                            *)
Commits(c, f) == /\ f \in InCache(c) /\ Idle(c)
                 /\ cache[c][f].dirty /\ ~cache[c][f].closed
Closes(c, f)  == f \in InCache(c) /\ Uses(c, f, "close")

Saved(e, v)   == [e EXCEPT !.version = v, !.dirty = FALSE]
ClosedAt(e, v) == [e EXCEPT !.version = v, !.dirty = FALSE, !.closed = TRUE,
                            !.fd = 0]

Commit(c, f, heard) ==
    LET e == cache[c][f]
    IN  /\ Commits(c, f) /\ ~frozen /\ (heard => Connected(c))
        /\ Registered(e.fd, c) /\ Accepts(e)
        /\ Redirected(c)
        /\ Store(e, FALSE)
        /\ IF heard THEN /\ SetEntry(c, f, Saved(e, version'[TargetOf(e)]))
                         /\ unsaved' = [unsaved EXCEPT ![c] = @ \ Numbers(f)]
           ELSE UNCHANGED <<cache, unsaved>>
        /\ UNCHANGED <<primary, fds, frozen, lru, opening, boundVars>>

(* Close releases the descriptor; a clean one stores nothing and returns   *)
(* the version all the same.                                               *)
Close(c, f, heard) ==
    LET e == cache[c][f]
        g == TargetOf(e)
    IN  /\ Closes(c, f) /\ ~frozen /\ (heard => Connected(c))
        /\ Registered(e.fd, c) /\ (e.dirty => Accepts(e))
        /\ Redirected(c)
        /\ IF e.dirty THEN Store(e, TRUE)
           ELSE /\ version' = EntryMade(g)
                /\ UNCHANGED <<exists, content, primes, shown>>
        /\ Unregister(e.fd)
        /\ IF heard THEN /\ SetEntry(c, f, ClosedAt(e, version'[g]))
                         /\ Touch(c, f)
                         /\ unsaved' = [unsaved EXCEPT ![c] = @ \ Numbers(f)]
           ELSE UNCHANGED <<cache, lru, unsaved>>
        /\ IF heard THEN UNCHANGED faults ELSE Fault
        /\ UNCHANGED <<primary, frozen, opening, calls>>

(* "conflict", or opened in another mode.                                  *)
Refused(c, f) ==
    LET e == cache[c][f]
    IN  /\ Commits(c, f) \/ (Closes(c, f) /\ cache[c][f].dirty)
        /\ ~frozen /\ Registered(e.fd, c) /\ ~Accepts(e)
        /\ Redirected(c)
        /\ version' = EntryMade(TargetOf(e))
        /\ UNCHANGED <<primary, exists, content, primes, fds, frozen, cache,
                       lru, opening, historyVars, boundVars>>

(* The descriptor exists and the client is not registered in it.           *)
Freezes(c, f) ==
    LET e == cache[c][f]
    IN  /\ Commits(c, f) \/ Closes(c, f)
        /\ ~frozen /\ e.fd + 1 \in DOMAIN fds /\ ~Registered(e.fd, c)
        /\ Redirected(c)
        /\ frozen' = TRUE
        /\ UNCHANGED <<primary, exists, content, primes, version, fds, cache,
                       lru, opening, historyVars, boundVars>>

(* Delete forgets the cached file, then asks the server, which calls a     *)
(* file deleted that it does not have or has no entry for.                 *)
DeletesDirty(c, f) == Idle(c)                        \* mutant: no check
Deletes(c, f) == Idle(c) /\ (f \in InCache(c) => ~cache[c][f].dirty)

Delete(c, f, heard) ==
    /\ Deletes(c, f) /\ ~frozen /\ (heard => Connected(c)) /\ Count
    /\ f \notin Input
    /\ Redirected(c)
    /\ SetEntry(c, f, None)
    /\ SetLRU(c, IF heard THEN RemoveFirst(lru[c], f) ELSE lru[c])
    /\ IF f \in exists /\ version[f] # Absent
       THEN /\ exists' = exists \ {f}
            /\ content' = [content EXCEPT ![f] = {}]
            /\ version' = [version EXCEPT ![f] = Absent]
            /\ fds' = [d \in DOMAIN fds |->
                         IF fds[d].file = f /\ fds[d].removed = None
                         THEN [fds[d] EXCEPT !.removed = content[f]]
                         ELSE fds[d]]
       ELSE UNCHANGED <<exists, content, version, fds>>
    /\ UNCHANGED <<primary, primes, frozen, opening, historyVars, faults>>

DeleteFails(c, f) ==
    /\ Deletes(c, f)
    /\ SetEntry(c, f, None)
    /\ MaybeRedirected(c)
    /\ UNCHANGED <<serverVars, lru, opening, historyVars, boundVars>>

(* Another server becomes primary: it has the files, and neither the       *)
(* table, nor the descriptors, nor the prime sets.                         *)
Failover ==
    /\ primary < MaxPrimaries
    /\ primary' = primary + 1
    /\ primes'  = [f \in File |-> {}]
    /\ version' = [f \in File |-> Absent]
    /\ fds'     = <<>>
    /\ frozen'  = FALSE
    /\ Fault
    /\ UNCHANGED <<exists, content, clientVars, historyVars, calls>>

-----------------------------------------------------------------------------
(* Here a program writes one number at a time, and each number once.       *)
Unwritten(f) ==
    {n \in Numbers(f) : /\ \A g \in File : n \notin shown[g]
                        /\ \A c \in Client : n \notin unsaved[c]
                        /\ \A c \in Client, g \in File :
                              g \in InCache(c) => n \notin cache[c][g].data}

Call(c, f) ==
    \/ \E heard \in BOOLEAN : \/ Create(c, f, heard) \/ Commit(c, f, heard)
                              \/ Close(c, f, heard) \/ Delete(c, f, heard)
    \/ \E mode \in Mode, heard \in BOOLEAN : Open(c, f, mode, heard)
    \/ \E mode \in Mode : TestAuth(c, f, mode) \/ OpenFails(c, f, mode)
    \/ \E heard \in BOOLEAN : OpenValid(c, f, heard)
    \/ OpenValidFails(c, f) \/ AuthFails(c, f)
    \/ \E n \in Unwritten(f) : WriteFile(c, f, {n}) \/ AppendFile(c, f, {n})
    \/ ReadFile(c, f) \/ Read(c, f) \/ LeaseExpires(c, f)
    \/ CreateFails(c, f) \/ DeleteFails(c, f)
    \/ Refused(c, f) \/ Freezes(c, f)

Next == \/ \E c \in Client, f \in File : Call(c, f)
        \/ Failover

Spec == Init /\ [][Next]_vars

(***************************************************************************)
(* Properties                                                              *)
(***************************************************************************)
(* The variables have their types, and descriptors are within the limit.   *)
TypeOK ==
    /\ primary \in 1..MaxPrimaries
    /\ exists \subseteq File
    /\ content \in [File -> SUBSET Number]
    /\ primes \in [File -> SUBSET Number]
    /\ version \in [File -> Version]
    /\ fds \in Seq(FileMeta) /\ Len(fds) <= MaxOpenFiles
    /\ frozen \in BOOLEAN
    /\ conn \in [Client -> 1..primary]
    /\ cache \in [Client -> [File -> CacheEntry \cup {None}]]
    /\ lru \in [Client -> Seq(File)]
    /\ opening \in [Client -> File \cup {None}]
    /\ unsaved \in [Client -> SUBSET Number]
    /\ shown \in [File -> SUBSET Number]
    /\ calls \in 0..MaxCalls /\ faults \in 0..MaxFaults

(* The cache stays within its limit, and eviction can find every file in   *)
(* it: each is in the lru list, nothing is there twice, whatever fails.    *)
CacheListed ==
    \A c \in Client :
        /\ Cardinality(InCache(c)) <= maxCacheEntries
        /\ \A i, j \in DOMAIN lru[c] : lru[c][i] = lru[c][j] => i = j
        /\ \A f \in InCache(c) : \E i \in DOMAIN lru[c] : lru[c][i] = f

(* A careful program loses nothing: what it wrote stays in its local copy, *)
(* in a file that counts as dirty, until a Commit or Close is acknowledged.*)
UnsavedKept ==
    \A c \in Client : \A n \in unsaved[c] :
        /\ HomeOf[n] \in InCache(c)
        /\ n \in cache[c][HomeOf[n]].data /\ cache[c][HomeOf[n]].dirty

(* As long as the primary stays, a copy that is read without asking the    *)
(* server holds only numbers the file on the server has held: nobody's     *)
(* refused or unsaved changes.                                             *)
NoDirtyRead ==
    primary = 1 => \A c \in Client : \A f \in InCache(c) :
        cache[c][f].valid => cache[c][f].data \subseteq shown[f]

(* As long as the primary stays, numbers go only to the file they were     *)
(* written to, although Close and Commit name a descriptor and no file.    *)
NumbersStayHome ==
    primary = 1 => \A f \in File : content[f] \subseteq Numbers(f) \cup Listing[f]

(* Unless an answer to a Close is lost, a lease expires or the primary     *)
(* changes, a careful program's open files are open on the server, under   *)
(* the descriptor it has and in a mode it can save them in, and the server *)
(* does not freeze.                                                        *)
OpenIsRegistered ==
    faults = 0 =>
            /\ ~frozen
            /\ \A c \in Client : \A f \in InCache(c) :
                 LET e == cache[c][f]
                 IN  (Connected(c) /\ ~e.closed) =>
                       /\ Registered(e.fd, c) /\ TargetOf(e) = f
                       /\ e.dirty => fds[e.fd + 1].mode = WRITE

(* What the field Valid says: "true if cache and server version match".    *)
(* The version it matches would be worth nothing if the numbers differed.  *)
CopyIsCurrent ==
    \A c \in Client : \A f \in InCache(c) :
        LET e == cache[c][f]
        IN  (e.valid /\ ~e.closed /\ Connected(c) /\ e.version = version[f])
               => e.data = content[f]
=============================================================================
