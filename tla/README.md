# Ikkat in TLA+

Ikkat (Go) is a small distributed file system in the AFS style with whole-file
caching on the clients, three replica servers of which one is primary, and an
application that stores prime numbers in its output files. This directory holds
TLA+ modules of its protocols, the instances TLC checks, and proofs checked by
TLAPS. Paths are relative to the repository's root; line numbers are those of
the commit beside this directory.

    tlc -workers 2 -config commit_safety.cfg MCReplication     # one run
    tlapm ClusterProofs.tla                                    # one module's proofs

## 1. The system

### Components

| component | state | operations | talks to |
|---|---|---|---|
| **Commit path** (`server_basics.go` `Close`, `server_replication.go`) | per server: `log`, the log file, `commitIndex`, `lastApplied`, files under `rootDir`, `filesPrimes`, `table[f].version` | dirty `Close`, `AppendEntries`, `applyCommitted`, `apply`, `appendToDisk`; dirty `Write`, the server's side of a client's `Commit` | followers by RPC (800 ms), its own goroutines over `ackCh`, one-second timeout |
| **Crash recovery** (`server_replication.go`, `connection.go`) | the log file and the files survive, everything else is lost | `recoverFromLog`, `RecoverFromLeader`, `RequestRecovery`, `ApplyUpdate` | the leader, by RPC |
| **Heartbeat and election** (`server_replication.go`, `connection.go`) | `role`, `primaryID`, `lastHeartbeat`, `servers[..].Alive` | `StartServer`, `StartHeartbeat`, `sendHeartbeat`, `SendHeartbeat`, `MonitorPrimary`, `electPrimary` | two loops and the handlers of one process share the four fields; heartbeats by RPC (2 s) |
| **FileEntry lock** (`server_basics.go`) | `activeReaders`, `activeWriter`, `waitingWriters`, the condition variable; `table` maps a name to the entry | `Acquire*`, `Release*`, `getFileEntry`, `Delete`'s own way in and out | every file operation |
| **Sessions and request cache** (`server_basics.go`) | `files`, `openMap`, `nextFD`, `requests`, `s.mu` | `Create`, `Open`, `Read`, `Delete`, clean `Close`, `TestAuth` | client, lock, commit path |
| **Client cache** (`client_basics.go`) | `cache`, `lru`, local copies, `Version`, `Dirty`, `Closed`, `Valid` | `Create`, `Open`, `Read`, `WriteFile`, `AppendFile`, `Commit`, `Close`, `Delete`, eviction | the primary by RPC, with retries |
| **Dialling and redirection** (`connection.go`, `client_basics.go`) | the current connection | `DialClient`, `GetLeader`, `extractLeaderAddr`, `reconnectToLeader` | any server |
| **Prime test and parsing** (`common.go`) | none | `modExp`, `mulMod`, `check`, `IsPrime`, `parseNumbers` | the workers |
| **Never started** | | `cleanupRequests`, `cleanupLeases`, `cleanupTempFiles`, `rebuildVersionTable`, `OnHeartbeat`, `Start`, `Init`, `HandleWrite`, `retryWrite` | no caller |
| **Programs** (`test_client_*`, `test_throughput/client`) | a position in a fixed list of calls, the primes found | dial, read an input file, test, create, open, write or append, close, check | the client library |

Generated protobuf code, the server programs (which fill in a cluster map and
call `StartServer`) and `server_snapshots.go` (a package clause) hold no protocol
of their own.

### What is hard about it

*Interleaving.* `Close` goes through a dozen critical sections of `s.mu` and
reads `len(s.log)`, `s.commitIndex` and `s.role` between them; the per-file lock
is what serialises it, and calls on different files are not serialised. The
heartbeat loop, the monitor and the heartbeats of others change
`role` and `primaryID` independently.

*Failure.* Requests are lost, late and reordered, and a server may crash
between any two steps. The log and the files survive, the commit index, the
versions and the prime sets do not. `appendToDisk` can fail, on either side.

*Time.* A commit races its one-second timeout; an acknowledgement may arrive
after the call has failed; a heartbeat may come from a leader already dead.

### What makes each part correct

* Commit path: an acknowledged `Close` is on a majority of the disks; the log is
  indexed by position, which calls on two files break (`two_files`), and no index
  means two entries; of two closes that started
  from the same version one at most succeeds; what a client was told is stored
  stays in the file; every call returns.
* Recovery: a recovered server carries on without harm to what was acknowledged.
* Election: nobody follows a higher id, the lowest id serves while it runs, the
  running servers come to agree on a leader, and only the leader acts as primary.
* File lock: a reader-writer lock, without lost wake-ups, one writer per *name*.
* Sessions: a retried request is executed once; a client that has a file open can
  read it; descriptors stay within the limit; no handler waits for ever for a
  lock, its own `s.mu` included.
* Client cache: unsaved data stays in a local copy that counts as dirty; eviction
  finds what it may drop and drops nothing else; a copy read without asking the
  server holds nothing the server never had; what a client has open is open on
  the server, under the same descriptor.
* Prime test: nothing but primes passes `IsPrime`, although products are longer
  than a word.
* Programs: the output file holds primes only, and no program takes out what
  another has saved.
* The servers together: one server at a time serves, and what it committed
  outlives it. The second follows from the first (`SoleTermIsDurable`); the first is
  not so from the start (`two_leaders`).

## 2. The modules

| module | what it is | models |
|---|---|---|
| `Replication` | the commit path with crash, restart and full sync | `Close` and `Write` (dirty), `Open` (output), `AppendEntries`, `applyCommitted`, `apply`, `appendToDisk`, `recoverFromLog`, `RequestRecovery`, `ApplyUpdate` |
| `VersionedFiles` | what the commit path promises clients: a version and a set of numbers per file | abstract |
| `FileLock` | the `FileEntry` lock, `getFileEntry`, `Delete` | `server_basics.go:162-220, 306-319, 501-553` |
| `RWLock` | a reader-writer lock | abstract |
| `Election` | start-up, heartbeats, monitor, crash | `StartServer`, `server_replication.go:79-211` |
| `Cluster` | `Replication` on servers whose role `Election` decides | the processes as a whole |
| `Sessions` | the calls of clients, with the descriptors, the request cache, retries and `s.mu` | `Create`, `Open`, `Read`, `Close`, `Delete` of `server_basics.go`, and the client's side of them |
| `ClientCache` | the client library: cache, eviction, versions, redirection | `client_basics.go`, `TestAuth`, and the effects of the handlers |
| `Primes` | the prime test on words of any width | `common.go:69-145` |
| `Workers` | the programs, as scripts of `ClientCache` calls | `test_client_1..3`, `test_throughput/client`, `DialClient`, `GetLeader` |
| `MCReplication`, `MCCluster`, `MCFileLock`, `MCElection`, `MCSessions`, `MCClientCache`, `MCWorkers` | constants of the instances | |
| `ReplicationProofs`, `PromiseProofs`, `ClusterProofs`, `FileLockProofs`, `ElectionProofs`, `SessionsProofs`, `ClientCacheProofs`, `WorkersProofs` | theorems | |

`Cluster` EXTENDS `Replication` and instantiates `Election`; `Workers` EXTENDS
`ClientCache` and `Primes`; `Replication` instantiates `VersionedFiles`, and
`FileLock` `RWLock`, as what they implement.

The definitions marked *mutant* in these modules
(`IsBeyond`, `WakeNone`, ...) are not used by the specifications. Each is
a plausible slip in one definition; put in its place, it makes TLC report the
property it is paired with in `PROJECT.json`. They document that every property
depends on the code it is about.

### Replication: state and steps

The variables carry the names of the server's fields; a call's local variables
are `pc`, `base` (`req.Version`), `ent` (`logEntry`), `acks` (`ackCount`, as the
set of peers). One `Request` is one dirty `Close` or, if it is in `Write`, one
dirty `Write`. It uploads one number nobody
else uploads, named by the call, so that the content of a file or a log entry is
the set of calls whose numbers it holds: this is all the properties can tell
apart. Filtering duplicates is then set union; primality is not tested on the
server and has no place here.

A dirty `Close` is the sequence

    CloseArrives -> BeginClose -> AppendLog -> SendAppends -> Commit -> Finish
                    Conflict      (failed)     Timeout

cut where the code releases `s.mu` and another handler may matter.
`BeginClose` is the write lock, the version check, the merge and the *unlocked*
read of `len(s.log)` (`server_basics.go:832-875`); `AppendLog` the critical
section that appends (876-880); `SendAppends` the unlocked read of
`s.commitIndex` and the calls (883-899); `Commit` 924-927; `Finish` the
notification, the prime set, the version and the release (930-975). The write
lock is the condition that no other call on the file is between version check
and return; `FileLock` justifies it. `AppendEntries` is the whole handler, under
`s.mu`, with the answer's way back: `heard` says whether the caller received it.
A message stays in `msgs` until handled and need not ever be, so loss, delay and
reordering are included; duplicates are harmless to a handler that skips what it
has and are covered by the second round of requests, which carries the entry
again.

`Crash` loses the memory. `Restart` is `recoverFromLog`: every line of the log
file is loaded and applied, and both indexes start at zero. `FullSync` tells whether the
restarted server then runs `RecoverFromLeader`: `StartServer` does when its
role is still `Backup` two seconds on, which is the case for a cluster map that
flags a lower peer alive, and not for the maps of the shipped servers, with
which every server elects itself first.

A `Write` goes the same way with four differences, each in the definition it
concerns: it logs what was uploaded and not the merged set (`Uploaded`), counts
its majority among the servers flagged alive (`Needed`), asks its peers in turn
instead of from goroutines, and in `Finish` adds what is new to the set to the
file and assigns `commitIndex` once more. The two loops over the peers are one
step, `SendAppends`: nothing that is handled or counted tells them apart, because
answers are counted one by one and late in both. The file after a `Write` is what
`apply` left, the upload alone, and the append on top of it; the numbers of
earlier calls come back with the next `Close`.

### FileLock

One name. `FileEntry` objects come from a pool because `Delete` drops an entry
that handlers may be waiting on and the next lookup makes a new one. What a
handler does under `entry.mu`, up to `Unlock` or `Wait`, is one step; being
woken and re-testing the condition is a step of its own. An initial state has
either no entry or the one `getOrCreateFileMeta` makes in a full sync, without
a condition variable; `Delete` dereferences it (`server_basics.go:532`) and
`dead` records the panic. `AcquireRead`, which also waits for waiting writers,
has no caller today and is kept as the "polite" handler.

### Election

Ids are numbers in the order of the code's strings. `role` and `primaryID` are separate as in
the code: the first decides whether clients are served, the second whether a
server sends heartbeats or watches for them. `round` and `calling` are the
position of `StartHeartbeat` in its loop over the peers. Of time only what
timeouts see is kept. With `Timely` a follower finds its last heartbeat too old
only if its leader has stopped leading, and a call to a running server is
answered; without it, both may happen at any moment. `Flagged` is the set of
`Alive` flags servers may be started with: `{{}}` for the shipped maps.

### Sessions: state and steps

`files`, `openMap`, `table` and `requests` are the server's maps, `files` as a
sequence because descriptors are handed out in order and never taken back.
A `FileMeta` has one client, the one that opened it; `open` tells whether it is
still in `meta.clients`. What a handler does between two operations on `s.mu`,
or on the lock of a `FileEntry`, is one step:

    Create  NotCached -> GetFileEntry -> CreateFile -> Register
    Open    NotCached -> GetFileEntry -> OpenFile -> Register
    Close   FindOpen -> GetFileEntry -> LockForClose -> Unregister -> Closed
                                                     -> Refuse
    Delete  NotCached -> StatFile -> LookUp -> TryLock -> RemoveFile -> DropEntry
                                  -> AlreadyDeleted
    Read    FindRead -> ServeRead or ExpireLease

each but the last with `FromCache` as the other way out of its first step.
`s.mu` needs no owner: a critical section is part of one step, except the one in
which `Close` locks `s.mu` twice, after which `stuck` holds and `Free` never
again. The write lock of an entry follows from the position of its holder
(`Holds`); `FileLock` justifies it. What a dirty `Close` writes, and why it is
refused, is `Replication`'s; here it is refused or succeeds.

A client has one call under way. `Deliver` is an attempt that reaches the
server, `Return` the end of a handler with `heard` for whether the client was
still there, `GiveUp` the end of the client's patience. An attempt may therefore
run long after its client has gone on, and two attempts of one request may run
together, which the history variable `overlapped` records. `live` is what a
client may rely on: the files it opened and has neither closed nor been refused.
`Careful` restricts the clients to closing what they opened, once; without it a
client also repeats a `Close`, whose descriptor is then 0, as the library allows.

`ExpireLease` is the server's alone: a lease may run out at any read, whatever
the client has or is about to do. It takes the client out of the descriptor that the
`Read` found and deletes the client's `openMap` entry of the file, which may by then be
that of a newer descriptor (`server_basics.go:1129`). The history variable `expired`
records the descriptors. `LiveCanRead` excepts the files of a client that lost the
entry in this way (`Lapsed`), and `SomeoneMoves` the server that is frozen by the
`Close` of an expired descriptor (`Frozen`): the case `frozen` shows, which a careful
client meets when its lease runs out before its `Close`.

### Cluster: state and steps

The two halves of a server share the process and nothing else: `status` is both
`Replication`'s and, through the substitution `up <- ...`, `Election`'s; `Dies`
is the end of both, by a crash or a panic (`Ends`). A call asks for the role once, as it arrives (`Serves`), and
never again, so a deposed leader finishes what it began. `AppendEntries` asks for
no role and no term. `ClusterInit` is `StartServer` on all of them: each
has its own cluster map, with any of the flags in `Flagged`, sets its own flag and
elects. With the shipped maps (`test_server_1/simple_server.go:10-14` and its like),
which flag nobody, every server elects itself. A heartbeat of a lower server makes it
follow that server, but does not take the role back (`server_replication.go:103`):
only an answer that rejects its own heartbeat does, and it sends no more of them. A server that starts
as a backup has a zero `lastHeartbeat`. Its monitor looks for the first time after
three seconds and its leader, if it leads, beats after two (`HeartBeatTime`): with
`Timely` it is in time; a leader that does not lead, or a network without
`Timely`, leaves the monitor free to find it too old, at once as at any later time.
Nobody restarts a server that has died; all of them may die, of a panic in
`AppendEntries` too. `Alive`, the flags by which a `Write` counts its majority, is a
constant of `Replication`, which the flags of the election do not change; the
instance has `Close` calls only.

### ClientCache: state and steps

One entry per file, `cache[c][f]`, with the fields of `CacheEntry`; `data` is the
local copy, as the set of numbers in it. A handler of the server is one step and
so is a call of the library, with the call's answer heard or not; `Open` of a
cached file is two, `TestAuth` and `OpenValid`, because another client's `Close`
may come between. What a call does before it asks the server (eviction, forgetting
the entry in `Delete`) happens also when it fails (`CreateFails`, `OpenFails`,
`DeleteFails`). An answer that is lost leaves the server changed and the client as
it was; a call that is redirected by "not leader" executes on the new primary, and
for `Commit`, `Close` and `Delete` its answer is thrown away, which is the case
`heard = FALSE` with the client's new connection.

The server here is what the handlers leave behind: files, prime sets, versions,
descriptors. `Failover` replaces it by one that has the files and nothing else.
`frozen` is the handler of `Sessions`' `frozen` run that waits for itself: a `Commit` or
`Close` with a descriptor that exists and in which the client is not registered.

`unsaved` and `shown` are history variables for the properties. `Careful` restricts
programs to what the library needs to keep their data: no write or close of a
closed file, no `Read` or `Create` over unsaved changes (`Read` of a file that is not
valid replaces the local copy whether dirty or not, `client_basics.go:349-385`).
The instance of `Workers` has `Careful = FALSE`: its scripts keep to these rules by
themselves, which `WorkersProofs` proves.

### Primes and Workers

`IsPrime` is translated for words of `WordBits` bits, with the two-word product of
`bits.Mul64` and the panic of `bits.Div64` when a quotient overflows, as recursive
functions. `Workers` gives each client a script, the calls its program makes in
order: a call that fails ends the program (`log.Fatalf`) or is only logged
(`Tolerated`). `client_3` makes the calls of the throughput worker. Numbers are
taken to be separated by white space, as the input files have them.

## 3. The runs

Twelve runs: seven in which every property holds, five in which the code does
something other than what one of its comments or programs says.

| run | bounds | shows |
|---|---|---|
| `commit_safety` | 3 servers, a `Close` and a `Write` on one file, up to 3 crashes and any restarts | `TypeOK`, `AckedDurable`, `OneEntryPerIndex` |
| `commit_promise` | 3 servers, 2 `Close` calls, one crash of a follower which then resyncs, failing disks on primary and a follower | `AckedDataKept`, `FirstCommitterWins`, `CommitMonotone`; `KeepsPromise` (refines `VersionedFiles`); `CloseReturns` |
| `sessions` | 2 careful clients, 1 file, 3 calls, 2 attempts, 2 calls at a time on the server, 2 descriptors | `TypeOK`, `ExecutedOnce`, `LiveCanRead`, `SomeoneMoves` |
| `lock` | 2 writers, reader, polite reader, deleter; 2 entries | `TypeOK`, `NoLostWakeup`, `IsRWLock` (refines `RWLock`), `LockMoves` |
| `election` | 3 servers, maps flagging nobody or everybody, 1 crash, no heartbeat whose sender has stopped waiting | `TypeOK`, `FollowsLower`, `LowestServes`; `Agreement` |
| `client_cache` | 2 careful clients, 2 files, cache of 1, 2 descriptors, 3 calls that open, create, delete or fault, 1 of them a fault | `TypeOK`, `CacheListed`, `UnsavedKept`, `NoDirtyRead`, `NumbersStayHome`, `OpenIsRegistered` |
| `workers` | `client_1` and `client_2`, cache of 2 for 3 files, words of 11 bits, 2 faults | `WorkersTypeOK`, `NoDirtyRead`, `OpenIsRegistered`, `OnlyPrimesStored`, `SavedTogether` |
| `worker_copy` | as `workers`, without a fault | violates `CopyIsCurrent` |
| `two_files` | 3 servers, a `Close` on each of two files, nothing fails | violates `PrimaryIndexIsPosition` |
| `two_leaders` | 3 servers started from the shipped maps, a `Close` to each of two, nothing fails, a timely network | violates `AckedDurable` |
| `delete_race` | 2 writers, a deleter | violates `OneWriterPerName` |
| `frozen` | as `sessions`, clients that may close twice | violates `SomeoneMoves` |

*Why the bounds suffice.* Three servers are the cluster the project ships and
the smallest in which a majority is neither one nor all. Two calls let one
fail with its entry left in the log and the other meet it; three crashes let the
primary and a follower die, come back from their logs and die again. The heartbeats of `election`
are lost when their sender dies or gives up (`MaxLate = 0`): one that
arrives later more than doubles the states, and what is proved of elections holds
for any number of them. Two lock
entries are one that is deleted and its successor. Three calls of two clients
let one client open a file, lose the answer, open it again and close it, or meet
the other at the limit of two descriptors; two handlers are two attempts of one request, or a
late attempt and a later call. A cache of one makes every second file an eviction;
three calls open a file, lose it to the other client or to an eviction, and
open it again; two descriptors are one for each client, or one too few. The programs of
`workers` run to their ends; eleven bits are the least that give words above the
squares of the bases and composites that pass for some of them (2047 for 2), whose
products take two words. The session runs use symmetry among clients and
among handlers. The safety runs of
`Replication` use symmetry among the followers and among the
calls, and `client_cache` among clients and, with their numbers, among files: the
instances do not tell them apart. No liveness run uses symmetry. The proofs
below remove the bounds for the safety part. `CHECK_DEADLOCK` is off where
each call is made once, where the pool of entries runs out, and in the session
and client runs, whose calls are bounded; `SomeoneMoves` is what says there that no handler
is left waiting. It is on for `Election`, whose loops never stop.

*Fairness.* `Replication`: weak fairness of each `Close` handler, a goroutine
the Go scheduler runs. Nothing is assumed of the network: the timeout ends a
call, and that is what `CloseReturns` is about. `FileLock`: weak fairness of a
handler that has started; no handler needs to start. `LockMoves` says the lock
keeps being taken, not that each waiter gets it: `sync.Cond` makes no such
promise and readers without priority may starve a writer. `Election`: weak
fairness of each heartbeat loop, each monitor and each pair's delivery to a running
server, with `Timely`. An asynchronous network could depose leaders for
ever, so `Agreement` is claimed only in a timely one; nobody has to restart a
server.

### What the violation runs show

1. `worker_copy`. A `Close` is answered with the version of the file the server
   merged, and the client gives it to the local copy, which has not been merged.
   The next `Open` finds the versions equal, marks the copy valid
   (`client_basics.go:228-233`), and `Read` returns it. `simple_client.go` compares
   this copy with what it wrote and prints that the content is consistent across
   the system (line 124); it is what any merge changes.
2. `two_files`. `Close` computes `len(s.log)+1` before it takes `s.mu`
   (`server_basics.go:870`; `Write` does at 1267). Only calls on the same file are kept
   apart by its lock, so two calls on different files take the same index, and the
   second entry sits one position after it, against "Position in log"
   (`server_replication.go:50`). A commit of that index then applies the first entry, perhaps of a
   call that failed, and a follower takes the second for a duplicate. The
   durability results are for one file.
3. `two_leaders`. Started from the shipped maps every server is its own primary.
   Servers 1 and 2 take a `Close` each and give their first entries index 1; server
   2 counts the entry of server 1 as a duplicate of its own (`server_replication.go:421`),
   answers success, and the call commits with its entry on one disk. No entry carries
   a term and nothing compares contents. Maps that flag the servers alive do not
   help for long: a leader that dies when its entry has reached one follower
   leaves its successor, whose log is empty, in the same position.
4. `delete_race`. `Delete` removes the table entry when a `Close` has looked it up and
   has yet to take its lock (or sleeps on it); that `Close` then holds the orphan while
   another writer holds the new entry.
5. `frozen`. `Close` of a client that is no longer registered means to answer
   "already closed" (`server_basics.go:816`), but calls `getFileEntry`, which
   locks `s.mu`, while it holds `s.mu`. The handler, and every call that needs
   `s.mu` after it, waits for ever. `Write` has the same lines (1224-1242).

### Departures with no run

The models contain these behaviours; they contradict no sentence of
the repository sharply enough for a run of their own, and the properties above
are stated so as to be true of them.

* `filesPrimes` is empty after a restart, and nothing calls `RebuildPrimeSet` on a
  primary; the next `Close` logs only its own numbers and `apply` overwrites the
  file with them (`server_basics.go:851`). `AckedDataKept` is claimed for a primary
  that does not crash. A new leader starts the same way, hence `primary = 1` in
  `NumbersStayHome` and `SavedTogether`.
* A `Write` logs and applies what it was sent alone (`server_basics.go:1266-1309`),
  so on every server the file loses the earlier numbers until the next `Close`
  stores the merged set; followers do not get the append of lines 1369-1375. `AckedDataKept`
  and the refinement are therefore about `Close` calls. On the primary the append
  may repeat a number that `apply` has just written, which a set does not show.
* A `Write` counts its majority among the servers flagged alive
  (`server_basics.go:1296-1303`). The shipped maps flag only the server itself: one
  disk is then a majority. `commit_safety` flags all of them, and the durability
  theorem assumes that (or no `Write`).
* A `Write` assigns `commitIndex` a second time after giving up `s.mu`
  (`server_basics.go:1425`); a commit of another file in between is undone, and a
  `Write` that is not dirty, which the client library never sends, would set it to
  zero.
* After a failover the descriptors of the old primary mean nothing to the new one,
  or mean another client's file: a `Commit` or `Close` with one is refused, freezes
  the server, or finds the sender registered for another file (`ClientCache`).
  Versions restart as well, so an old version may match a new file. If the
  descriptor names another file of the same client, the call succeeds for that file
  and the copy counts as clean, with numbers the server's file never had; hence
  `primary = 1` in `NoDirtyRead` too. It takes a cache of two and four calls to get
  there.
* A refused `Close` ("conflict") leaves the file dirty with the old version, and
  every later one is refused too, because `Open` of a dirty file does not ask the
  server.
* `Create` leaves a cache entry with a descriptor and closed, which eviction can
  never take (`client_basics.go:82`).
* The bases 2 to 17 decide every number below 341550071728321, which they accept
  and which is composite and fits in 64 bits (`common.go:111`). This contradicts
  the comment "Deterministic Miller-Rabin for 64-bit integers" (`common.go:104`) and
  would be a run if TLC's integers had more than 32 bits; the instance of `Workers`
  has words of 11 bits, for which the bases suffice.
* The lease of an old descriptor that expires when its client has opened the file
  again takes the entry of the new descriptor out of `openMap`
  (`server_basics.go:1129`): the client is told that it has no descriptor.
* A follower that misses a request appends the next one at the wrong position
  (`server_replication.go:421`): logs may have gaps. `OneEntryPerIndex` and the
  durability theorem hold nevertheless.
* Recovery applies uncommitted entries (`server_replication.go:246`).
* A failed `Close` leaves its numbers in the shared prime set
  (`server_basics.go:853`); they show up with the next commit. `VersionedFiles`
  promises nothing about refused calls for that reason.
* A follower acknowledges an entry its disk refused (`:429`), which is why
  `AckedDurable` is claimed for working disks.
* `Delete` of an entry made by a full sync panics (`server_basics.go:532`).
* `ApplyUpdate` empties `s.log` and zeroes the indexes; the next `AppendEntries`
  brings one entry and a commit index of several, and `applyCommitted` indexes
  past the end (`server_replication.go:452`). The same happens to a follower that
  has missed two committed entries and gets the third; one that has missed one
  applies the next in its place before it is committed. The step is
  `AppendEntriesPanics`.
* A leader that was rejected becomes a backup and keeps `primaryID`, so its
  monitor skips the election; if the better leader has died meanwhile, it leads
  without serving clients (`server_replication.go:126`).
* The request cache is asked in one critical section and filled in a later one,
  so an attempt that arrives while an earlier one runs is executed too
  (`server_basics.go:579`). `ExecutedOnce` excepts those requests by `overlapped`.
* At the limit of open files `Create` unlocks `s.mu` twice, which ends the process
  (`server_basics.go:382-388`); `SomeoneMoves` excepts a process that has ended.
* Descriptors are never taken out of `s.files`: the limit is one on the opens of the
  server's life.
* `Delete` of a file that nobody has opened since the server started answers
  "File is already deleted" and leaves it on disk (`server_basics.go:500`).
  Deletions are not logged, so `recoverFromLog` brings files back.

## 4. The proofs

All are safety results, for every value of the constants that meets the
`ASSUME`s: any finite set of servers, any number of calls, crashes and threads, any
clients, files, numbers and capacities. Every safety property of a passing run is
proved, except `SomeoneMoves`, which speaks of `ENABLED`.

**`ReplicationProofs`**: `TypeCorrect`, `Spec => []TypeOK`, with no restriction
on primaries, files or failures. `TypeOK` alone is not inductive: `TypeInv` adds
what ties a position in a log to the entries applied from it.

`CommitsAreDurable` and `IndexNamesOneEntry` are for `Setting(p)`: one primary `p`, one file, disks that do
not fail, no full sync, and no `Write` unless all servers are flagged alive. The
departures above show that each of these is needed, `two_leaders` that one primary
and `two_files` that one file is. Of these `Ground(p)` is about files, disks and flags, and one primary and no
full sync are needed only so that all calls are `p`'s (`Alone(p)`) and for the steps of a
restart: for the others (`Running`) the induction is a lemma of its own,
`CommitRunning`, with `Alone(p)` a fact about the present state. The invariant
`CommitInv(p)` rests on one observation. A follower's log may be
out of order, have gaps and, after a restart, repeat an entry, and an
acknowledgement only says "my log is at least that long". `NotPadded` says that
a follower never has more lines than the highest index among them, and
`FromPrimary` that whatever it has is the primary's. So a log long enough to
skip the *last* entry of the primary holds that entry, and since the lock holder's
entry is the last (`LockHolder`), each acknowledgement counted while it waits is
genuine (`GenuineAcks`). A majority of them is `AckedDurable`, and disks only
grow (`DisksGrow`).

**`PromiseProofs`**: what clients are promised, by primaries that do not crash.
`OneCommitPerVersion` needs only that, with any number of primaries and files:
`VersionInv` says that a call that has passed its check has the file's version
until it raises it, since the write lock keeps the others out, and that an answered
call's is below it. The other three are for one primary and one file, all calls
`Close` calls (`OneStore(p)`), with followers that crash, miss requests or resync,
and any disk that fails. `LogEnd` says that the primary's log is indexed by position and
the holder's entry is its last, so that a commit applies just that entry;
`KeptInv` that the file, the prime set and the entry in progress lie between the
answered calls and the started ones (`Between`). From these follow
`AnsweredDataStays`, `CommitIndexGrows`, and `PromiseIsKept`, `Spec => KeepsPromise`:
`Open`, `CloseArrives`, `Commit` and `Finish` of a call are `Open`, `Send`,
`Rewrite` and `Accept` of `VersionedFiles`, a conflict, a failure or a timeout is
`Refuse`, and whatever the followers do is a stutter (`Unseen`).

**`ClusterProofs`**: the servers together. `ClusterImplementsReplication`,
`ClusterSpec => Spec`, and `ElectionOfTheCluster` say that the composition adds
nothing to either half, timely network or not, so that what is proved of the
halves holds of the whole; the second needs that a panic in `AppendEntries` is a
crash to `Election`, and cites the lemmas of `ElectionProofs` through an instance
(`EP`). `FirstCommitterWinsInCluster` is `OneCommitPerVersion` without the
assumption that no primary crashes: only a restart needs it.

`ElectionOfTheCluster` is for any `Flagged` (`ClusterConstants`). `SoleTermIsDurable`
says how far durability reaches where `two_leaders` shows that it ends: for a server
`p` with `Ground(p)`, if no other server has been called while `p` runs (`SoleServer`),
what `p` has committed stays durable (`DurableFor`), whoever dies. While `p` runs
(`InTerm`) `CommitInv(p)` is kept by `CommitRunning`. After it has died `CommitInv` need
not hold any more, since two leaders number their entries independently; what remains
is that the committed entries of `p` are on a majority of the
disks, and from then on disks only grow, whatever later leaders send. The proviso is
not one the code provides: the shipped maps break it.

**`FileLockProofs`**: `LockTypeCorrect`, and `LockExcludes`, `Spec => IsRWLock`:
every step of the three counters and of `Delete` is a step of `RWLock` or
stutters. `LockInv` ties the counters to who holds and who waits
(`Counted`: `activeReaders` is the number of readers, `waitingWriters` the number
of writers asleep or woken; `Excluded`: `activeWriter` is set exactly when there is one
holder, alone). `WakeupsAreKept`, `Spec => []NoLostWakeup`, needs `Awake` besides: where
nobody holds an entry only polite readers sleep, each because of a woken writer.

**`ElectionProofs`**: `ElectionTypeCorrect`, `NobodyFollowsHigher`,
`LowestAlwaysServes`, timely network or not, whatever the maps flag. The
strengthening `RejectedIsHigher` says that the lowest server never has a
rejection pending: one is given only for a lower leader, and nobody follows
a server below the lowest.

**`SessionsProofs`**: `SessionTypesCorrect`, with descriptors within the limit
and `openMap` pointing at descriptors that exist, `RetriesAreHarmless`,
`Spec => []ExecutedOnce`, and `OpenFilesStayReadable`, `Spec => []LiveCanRead`. Types need
`Serving` and `Asking`: a `Close` past its
first step has a descriptor of `s.files`, and no client sends one that is not a
number it was given. `ExecutedOnce` needs three facts (`Once`): handlers of the same
request mean it is overlapped (`Alone`), a request with a descriptor has an answer
in the cache (`Remembered`), and one whose handler has got past the cache
has none there unless it is overlapped (`Unanswered`). All steps but
four leave these alone and are dealt with at once (`CalmKeeps`).

`LiveCanRead` is about what happens behind a client's back: attempts it has given up
may register a descriptor, or close one, long after. `LiveInv` says why none of them
touches what the client has open, but the expiry of a lease, which `Standing` excepts
as `Lapsed` and which only a new registration ends (`LapsedKept`). An id belongs to one call, and a `Close` is sent
once (`Identified`); whatever answers a call, from the cache or from a handler, was
made for it (`Fitting`), and the handlers are where their operations get to
(`Located`); so the descriptors a careful client has, closes, or has had closed are
its own and of that file (`Entrusted`). `Undisturbed` is the heart: the newest descriptor of
an open file is registered, and no `Close` under way has it; and where the client
is still to learn the answer, of an `Open` that has one or of a `Close` that may yet be refused,
the same holds of the descriptor it would go on with.

**`ClientCacheProofs`**: the client library, with any numbers written at once.
`CacheTypesCorrect` and `CacheStaysListed` hold of all programs, whatever fails.
`TypeInv` adds to the types that the copy an `Open` waits to have confirmed is
cached and clean (`Underway`). `ListInv` (`Tidy`, of each cache with its list) says
that the list has no file twice and every cached one once, which eviction needs to
find a victim; the list may hold more, as a failed `Delete` leaves its name behind.

The other four assume `Careful`. `NothingUnsavedIsLost`: `UnsavedKept` is inductive with
`TypeInv`, because eviction, `Open` and `Delete` only drop what is clean. For
`ValidCopiesAreClean` and `NumbersGoHome`, `DataInv` says of each copy (`Sound`) that it is
not both valid and dirty, that its numbers are at home in its file, that they were
in the server's file if it is clean, and that the descriptor of an open one was made
for this client and this file. The last is what the other three rest on, as `Close`
and `Commit` name a descriptor only; it needs that a `Close` gives the
descriptor up, and that no program closes twice. `RemovedInv` says the same of the
bytes a descriptor keeps of a deleted file. `OpenFilesAreRegistered`: `AttachedInv` adds
that such a descriptor is still open and in a mode that lets the copy be saved;
a `Close` closes no other's because a descriptor has one owner, and nothing freezes
because only a lost registration does.
The steps are stated for `CarefulCall`, the calls with the conditions `Careful` puts
on them written out, so that they can be used for other programs.

**`WorkersProofs`**: the programs, any number of them with any inputs, and nothing assumed
of `Careful`. `Place` says, for each call of the scripts, what the program has in the
cache and what it has found when it comes to that call: nothing at the
beginning, the primes of its input before `Create`, an open copy before the write, a dirty
open one that holds its primes before `Close`. Therefore every call of a script is a
`CarefulCall`, and `NoDirtyRead` and `OpenIsRegistered` follow from the lemmas of
`ClientCacheProofs` (`ProgramsReadCleanCopies`, `ProgramsStayRegistered`).
`InputsInv`: nothing is deleted and no input file is written, nor opened to be.
`NoCloseTakesOut`, `WorkersSpec => []SavedTogether`, needs
more than its statement (`SavedInv`): what was saved is also in the prime
set, because a `Close` stores the prime set and its own numbers and not what the
file has. `OnlyPrimesAreStored` needs that the prime set and all copies of the
output file, too, hold nothing but what programs found (`FoundInv`).
It has as hypotheses that the prime
test accepts nothing but primes among the numbers of the files, and that the output
file starts empty. The first is what TLC evaluates in `workers` for its numbers; the
strong pseudoprime of section 3 is one that does not meet it.
`ProductsAreExact`: `mulMod` is multiplication modulo `mod` on words of any width, since
the high word of a product of reduced numbers is below the modulus, so that
`bits.Div64` does not panic. It takes from outside only that `2^WordBits` is a positive number.

**Model-checked only.** Liveness (`CloseReturns`, `LockMoves`, `Agreement`) and
what needs `ENABLED` (`SomeoneMoves`) are out of the prover's reach, and so is induction over
data, with it what `modExp` and `check` compute for every word.

## 5. What is not modelled

* `Sessions` is a server that stays primary and has output files only; its calls
  carry no open mode. `TestAuth`, input files, modes, redirection and the
  change of primary are in `ClientCache`, where a handler is one step. `Write` is
  in `Replication` for what it replicates and in `ClientCache` for what it tells
  its client; its part in the request cache is that of `Close`. The expiry of cached
  answers is in neither.
* The concurrent accesses to `meta.clients` of `Read`, which holds `meta.mu`, and
  `Close`, which holds `s.mu`: the lease of a client expires in one step. `TestAuth`
  reads `s.table` without `s.mu` (`server_basics.go:1466`), and `Read` streams a
  file while `apply` may rewrite it (`server_replication.go:336`): both are one step
  here. Request ids are taken to be unique, although they are a time.
* `ClientCache` retries and the failing replication of a `Close`, whose traces in the
  log and the prime set are `Replication`'s: here such a call is lost. Errors of the
  client's disk, and two programs that share the directory `./cache`
  (`client_basics.go:37`); each client has its own.
* A file is a set of numbers: order, repetition, and a last number without a line
  end, onto which `AppendFile` would glue the next, are not in it.
* `HandleWrite`, a third writer of the log, has no caller.
* `Cluster` starts all servers at once, restarts none and leaves out start-up recovery;
  the flags by which a `Write` counts its majority do not follow the election's.
* Torn lines of the log file (`recoverFromLog` skips what it cannot parse), the
  incremental branch of `ApplyUpdate` (`RequestRecovery` sends full files only).
* `ApplyUpdate` releases `s.mu` between two files; the full-sync instances have
  one file, so it is one step.
* The notification loop of `Finish` reads `s.commitIndex` once per peer in the
  code, once in the model; a `Write`'s append to the file and its last assignment of
  `commitIndex` are one step, with `Finish`.
* Files exist before the first `Open` of `Replication`, whose table entry then starts
  at version 1; a file made by `Create` in the same process starts at 0
  (`ClientCache` has both), which changes no comparison there.
* Functions nobody calls (last row of the component table), I/O errors other
  than those of `appendToDisk`, logging, paths, generated code, the server programs
  and the script that looks for duplicates in output files.

## 6. Plan

In the order of importance it was made in; all of these are done.

1. `Replication`, `VersionedFiles`; `ReplicationProofs`.
2. `FileLock`, `RWLock`; `FileLockProofs`.
3. `Election`; `ElectionProofs`.
4. `Sessions`; `SessionsProofs`.
5. `ClientCache`, then `Primes` and `Workers`, the programs over it.
6. The `Write` path in `Replication`.
7. `Cluster`, composing `Election` and `Replication`.
8. `PromiseProofs`: first committer, acknowledged data, the refinement.
9. `SessionsProofs` for `LiveCanRead`; `ClientCacheProofs`; `WorkersProofs`.
10. `ClusterProofs`: the two halves in the whole, from any cluster maps, and
    durability for as long as one server is called.

Next would be a `Cluster` with restarts, and several files in the full sync.
