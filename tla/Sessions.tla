------------------------------ MODULE Sessions ------------------------------
(***************************************************************************)
(* The calls clients make of the primary (server_basics.go): Create, Open, *)
(* Read, Close and Delete, with the table of open files, the request cache *)
(* that makes retries harmless, and s.mu, the mutex over all of them.      *)
(*                                                                         *)
(* What a handler does between two operations on s.mu or on the lock of a  *)
(* FileEntry is one step; a step that takes s.mu needs it free.  Files are *)
(* output files; their contents and versions are left to Replication, so a *)
(* dirty Close that has the lock is refused or succeeds.                   *)
(***************************************************************************)
EXTENDS Integers, Sequences, FiniteSets

CONSTANTS
    Client,         \* single-threaded clients
    File,           \* names of output files
    Handler,        \* bound: calls in progress on the server
    MaxOpenFiles,   \* the limit on s.files
    MaxCalls,       \* bound: calls of all clients
    maxTries,       \* attempts of a Create or an Open
    Careful,        \* do clients close what they opened, once, and not
                    \* after a Read of it was denied?
    None            \* no request, no response

Answers == {"opened", "served", "closed", "deleted", "exists", "not found",
            "exhausted", "denied", "refused", "in use"}

ASSUME SessionAssumption == /\ MaxOpenFiles \in Nat /\ MaxCalls \in Nat
                            /\ maxTries \in Nat \ {0}
                            /\ Careful \in BOOLEAN
ASSUME NoneAssumption == None \notin [what : Answers, fd : Int]

VARIABLES
    exists,         \* the files on disk
    table,          \* s.table[f]: which of the entries made for f; 0, none
    made,           \* how many FileEntry objects were made for f
    files,          \* s.files: files[fd + 1]; s.nextFD is its length
    openMap,        \* s.openMap
    requests,       \* s.requests
    stuck,          \* a handler that holds s.mu waits for it
    dead,           \* a fatal error has ended the process
    pc, call,       \* the handlers: where each is, the request it serves,
    entry, reply,   \* the entry (Read: the Fd) it looked up, its response
    want,           \* the clients: the request each waits for an answer to,
    tries, sent,    \* its attempts; how many requests were made,
    fdOf,           \* CacheEntry.Fd; -1 when the file is not in the cache
    live,           \* the files opened, not closed nor denied since
    overlapped,     \* history: the requests with two attempts in progress
    expired         \* history: the descriptors whose lease has expired

memVars     == <<table, made, files, openMap, requests>>
serverVars  == <<exists, memVars, stuck, dead>>
handlerVars == <<pc, call, entry, reply>>
historyVars == <<overlapped, expired>>
clientVars  == <<want, tries, sent, fdOf, live, historyVars>>
vars        == <<serverVars, handlerVars, clientVars>>

Id   == 1..MaxCalls                     \* RequestId
Op   == {"create", "open", "read", "close", "delete"}
Call == [id : Id, client : Client, op : Op, file : File, fd : Int,
         dirty : BOOLEAN]

Response(what, fd) == [what |-> what, fd |-> fd]

ClientOf(h) == call[h].client

Init ==
    /\ exists   \in SUBSET File
    /\ table    = [f \in File |-> 0]
    /\ made     = [f \in File |-> 0]
    /\ files    = <<>>
    /\ openMap  = [k \in Client \X File |-> -1]
    /\ requests = [i \in Id |-> None]
    /\ stuck    = FALSE
    /\ dead     = FALSE
    /\ pc       = [h \in Handler |-> "idle"]
    /\ call     = [h \in Handler |-> None]
    /\ entry    = [h \in Handler |-> 0]
    /\ reply    = [h \in Handler |-> None]
    /\ want     = [c \in Client |-> None]
    /\ tries    = [c \in Client |-> 0]
    /\ sent     = 0
    /\ fdOf     = [c \in Client |-> [f \in File |-> -1]]
    /\ live     = [c \in Client |-> {}]
    /\ overlapped = {}
    /\ expired    = {}

-----------------------------------------------------------------------------
(* The client library.  Close and Read are about a file in the client's    *)
(* cache, and Close sends the Fd kept there, 0 after an earlier Close.     *)
(* Delete forgets the file first.                                          *)
Request(c) ==
    /\ want[c] = None /\ sent < MaxCalls /\ ~dead
    /\ sent' = sent + 1
    /\ tries' = [tries EXCEPT ![c] = 0]
    /\ \E op \in Op, f \in File, dirty \in BOOLEAN :
          /\ op \in {"read", "close"} => fdOf[c][f] # -1
          /\ op = "close" /\ Careful => f \in live[c]
          /\ dirty => op = "close"
          /\ want' = [want EXCEPT ![c] =
                        [id |-> sent + 1, client |-> c, op |-> op, file |-> f,
                         fd |-> fdOf[c][f], dirty |-> dirty]]
          /\ fdOf' = [fdOf EXCEPT ![c][f] = IF op = "delete" THEN -1 ELSE @]
          /\ live' = [live EXCEPT ![c] =
                        IF op \in {"close", "delete"} THEN @ \ {f} ELSE @]
    /\ UNCHANGED <<serverVars, handlerVars, historyVars>>

InProgress(i) == \E h \in Handler : pc[h] # "idle" /\ call[h].id = i

(* Create is tried maxTries times, and so is Open of a file that is not in *)
(* the cache (or is there in an old version); the others once.             *)
MaxTries(k) == IF k.op \in {"create", "open"} THEN maxTries ELSE 1
MinTries(k) == IF k.op = "create" \/ (k.op = "open" /\ k.fd = -1)
               THEN maxTries ELSE 1

(* An attempt reaches the server: the first, or another one with the same  *)
(* RequestId, after three seconds or an error.                             *)
Deliver(c, h) ==
    /\ want[c] # None /\ pc[h] = "idle" /\ ~dead
    /\ tries[c] < MaxTries(want[c])
    /\ pc' = [pc EXCEPT ![h] = "arrived"]
    /\ call' = [call EXCEPT ![h] = want[c]]
    /\ tries' = [tries EXCEPT ![c] = @ + 1]
    /\ overlapped' = overlapped \cup
                        {i \in {want[c].id} : InProgress(i)}
    /\ UNCHANGED <<serverVars, entry, reply, want, sent, fdOf, live, expired>>

(* What the client makes of the last response: a Close that was refused    *)
(* leaves the file open, a Read that was denied tells that it is not.      *)
Hear(c, k, r) ==
    /\ want' = [want EXCEPT ![c] = None]
    /\ fdOf' = [fdOf EXCEPT ![c][k.file] =
                  CASE r.what = "opened" -> r.fd
                    [] r.what = "closed" -> 0
                    [] OTHER -> @]
    /\ live' = [live EXCEPT ![c] =
                  CASE r.what \in {"opened", "refused"} -> @ \cup {k.file}
                    [] r.what = "denied" -> @ \ {k.file}
                    [] OTHER -> @]

(* The handler returns, and the client may hear it.  An Open or a Create   *)
(* that fails is tried again while there are tries left.                   *)
Return(h, heard) ==
    LET c == ClientOf(h)
    IN  /\ pc[h] = "answered" /\ ~dead
        /\ IF /\ heard /\ want[c] = call[h]
              /\ reply[h].what = "opened" \/ tries[c] = MaxTries(call[h])
           THEN Hear(c, call[h], reply[h])
           ELSE UNCHANGED <<want, fdOf, live>>
        /\ pc' = [pc EXCEPT ![h] = "idle"]
        /\ call' = [call EXCEPT ![h] = None]
        /\ entry' = [entry EXCEPT ![h] = 0]
        /\ reply' = [reply EXCEPT ![h] = None]
        /\ UNCHANGED <<serverVars, tries, sent, historyVars>>

(* The client stops waiting.                                               *)
GiveUp(c) ==
    /\ want[c] # None /\ tries[c] >= MinTries(want[c])
    /\ want' = [want EXCEPT ![c] = None]
    /\ UNCHANGED <<serverVars, handlerVars, tries, sent, fdOf, live,
                   historyVars>>

-----------------------------------------------------------------------------
(* The steps of a handler.  s.mu is free when no handler sits on it.       *)
Free == ~stuck /\ ~dead

Goto(h, place) == pc' = [pc EXCEPT ![h] = place]

Respond(h, r) == /\ Goto(h, "answered")
                 /\ reply' = [reply EXCEPT ![h] = r]

Remember(h, r) == requests' = [requests EXCEPT ![call[h].id] = r]

Forgotten(h) == FALSE                      \* mutant: the cache is not asked
Cached(h)    == requests[call[h].id] # None

(* The file a call is about: for a Close, that of the descriptor.          *)
FileOf(h) == IF call[h].op = "close" THEN files[call[h].fd + 1].file
             ELSE call[h].file

(* The write lock of a FileEntry is held until the handler returns.        *)
Holds(h) == \/ call[h].op = "create" /\ pc[h] = "register"
            \/ call[h].op = "close"  /\ pc[h] \in {"writing", "unregistered"}
                                     /\ call[h].dirty
            \/ call[h].op = "delete" /\ pc[h] \in {"deleting", "removed"}

InUse(h) == \E o \in Handler : /\ pc[o] # "idle" /\ Holds(o)
                               /\ FileOf(o) = FileOf(h)
                               /\ entry[o] = entry[h]

(* The request cache, asked first by all but Read.                         *)
FromCache(h) ==
    /\ pc[h] = "arrived" /\ call[h].op # "read" /\ Free /\ Cached(h)
    /\ Respond(h, requests[call[h].id])
    /\ UNCHANGED <<serverVars, call, entry, clientVars>>

NotCached(h) ==
    /\ pc[h] = "arrived" /\ call[h].op \in {"create", "open", "delete"}
    /\ Free /\ ~Cached(h)
    /\ Goto(h, "missed")
    /\ UNCHANGED <<serverVars, call, entry, reply, clientVars>>

OneBefore(fd, c) == \E d \in {fd} \cap DOMAIN files :
                       files[d].client = c /\ files[d].open     \* mutant

(* Is client c registered in the descriptor?  (meta.clients)               *)
Registered(fd, c) == \E d \in {fd + 1} \cap DOMAIN files :
                        files[d].client = c /\ files[d].open

(* Close, still under the s.mu of the cache lookup, finds the descriptor.  *)
(* For a client that is not registered it calls getFileEntry, which locks  *)
(* s.mu.                                                                   *)
FindOpen(h) ==
    LET fd == call[h].fd
    IN  /\ pc[h] = "arrived" /\ call[h].op = "close" /\ Free /\ ~Cached(h)
        /\ IF fd >= Len(files)
           THEN Respond(h, Response("not found", 0)) /\ UNCHANGED stuck
           ELSE IF Registered(fd, ClientOf(h))
           THEN Goto(h, "missed") /\ UNCHANGED <<stuck, reply>>
           ELSE Goto(h, "stuck") /\ stuck' = TRUE /\ UNCHANGED reply
        /\ UNCHANGED <<exists, memVars, dead, call, entry, clientVars>>

(* getFileEntry                                                            *)
GetFileEntry(h) ==
    LET f == FileOf(h)
        e == IF table[f] = 0 THEN made[f] + 1 ELSE table[f]
    IN  /\ pc[h] = "missed" /\ call[h].op \in {"create", "open", "close"}
        /\ Free
        /\ table' = [table EXCEPT ![f] = e]
        /\ made' = [made EXCEPT ![f] = IF @ < e THEN e ELSE @]
        /\ entry' = [entry EXCEPT ![h] = e]
        /\ Goto(h, "found")
        /\ UNCHANGED <<exists, files, openMap, requests, stuck, dead, call,
                       reply, clientVars>>

(* Create takes the write lock and makes the file; O_EXCL.                 *)
CreateFile(h) ==
    /\ pc[h] = "found" /\ call[h].op = "create" /\ ~dead /\ ~InUse(h)
    /\ IF FileOf(h) \in exists
       THEN Respond(h, Response("exists", 0)) /\ UNCHANGED exists
       ELSE /\ Goto(h, "register")
            /\ exists' = exists \cup {FileOf(h)}
            /\ UNCHANGED reply
    /\ UNCHANGED <<memVars, stuck, dead, call, entry, clientVars>>

(* Open of an output file takes no lock.                                   *)
OpenFile(h) ==
    /\ pc[h] = "found" /\ call[h].op = "open" /\ ~dead
    /\ IF FileOf(h) \in exists
       THEN Goto(h, "register") /\ UNCHANGED reply
       ELSE Respond(h, Response("not found", 0))
    /\ UNCHANGED <<serverVars, call, entry, clientVars>>

FirstKept(h)  == [openMap EXCEPT ![<<ClientOf(h), FileOf(h)>>] =
                    IF @ = -1 THEN Len(files) ELSE @]   \* mutant
NewestKept(h) == [openMap EXCEPT ![<<ClientOf(h), FileOf(h)>>] = Len(files)]

RoomForOneMore == Len(files) <= MaxOpenFiles            \* mutant
HasRoom        == Len(files) < MaxOpenFiles

(* The end of Create and Open: the descriptor, its client and the answer.  *)
(* At the limit Create takes its file back and unlocks s.mu twice.         *)
Register(h) ==
    /\ pc[h] = "register" /\ Free
    /\ IF HasRoom
       THEN /\ files' = Append(files, [file |-> FileOf(h), id |-> call[h].id,
                                       client |-> ClientOf(h), open |-> TRUE])
            /\ openMap' = NewestKept(h)
            /\ Remember(h, Response("opened", Len(files)))
            /\ Respond(h, Response("opened", Len(files)))
            /\ UNCHANGED <<exists, dead>>
       ELSE /\ UNCHANGED <<files, openMap, requests>>
            /\ IF call[h].op = "open"
               THEN /\ Respond(h, Response("exhausted", 0))
                    /\ UNCHANGED <<exists, dead>>
               ELSE /\ exists' = exists \ {FileOf(h)}
                    /\ dead' = TRUE
                    /\ UNCHANGED <<pc, reply>>
    /\ UNCHANGED <<table, made, stuck, call, entry, clientVars>>

(* A dirty Close takes the write lock; what it then writes, or why it is   *)
(* refused, is Replication's.                                              *)
LockForClose(h) ==
    /\ pc[h] = "found" /\ call[h].op = "close" /\ ~dead
    /\ call[h].dirty => ~InUse(h)
    /\ Goto(h, "writing")
    /\ UNCHANGED <<serverVars, call, entry, reply, clientVars>>

Refuse(h) ==
    /\ pc[h] = "writing" /\ call[h].dirty /\ ~dead
    /\ Respond(h, Response("refused", 0))
    /\ UNCHANGED <<serverVars, call, entry, clientVars>>

Unregister(h) ==
    /\ pc[h] = "writing" /\ Free
    /\ files' = [files EXCEPT ![call[h].fd + 1].open = FALSE]
    /\ Goto(h, "unregistered")
    /\ UNCHANGED <<exists, table, made, openMap, requests, stuck, dead, call,
                   entry, reply, clientVars>>

(* The answers of Close and Delete that go to the request cache.           *)
Report(h, place, what) ==
    /\ pc[h] = place /\ Free
    /\ Remember(h, Response(what, 0))
    /\ Respond(h, Response(what, 0))
    /\ UNCHANGED <<exists, made, files, openMap, stuck, dead, call, entry,
                   clientVars>>

Closed(h) == Report(h, "unregistered", "closed") /\ UNCHANGED table

(* Delete: is the file on disk, and does it have an entry?  If either is   *)
(* missing it is "already deleted".                                        *)
StatFile(h) ==
    /\ pc[h] = "missed" /\ call[h].op = "delete" /\ ~dead
    /\ Goto(h, IF FileOf(h) \in exists THEN "on disk" ELSE "gone")
    /\ UNCHANGED <<serverVars, call, entry, reply, clientVars>>

LookUp(h) ==
    /\ pc[h] = "on disk" /\ Free
    /\ entry' = [entry EXCEPT ![h] = table[FileOf(h)]]
    /\ Goto(h, IF table[FileOf(h)] = 0 THEN "gone" ELSE "found")
    /\ UNCHANGED <<serverVars, call, reply, clientVars>>

AlreadyDeleted(h) == Report(h, "gone", "deleted") /\ UNCHANGED table

(* Delete does not wait for the lock.                                      *)
TryLock(h) ==
    /\ pc[h] = "found" /\ call[h].op = "delete" /\ ~dead
    /\ IF InUse(h) THEN Respond(h, Response("in use", 0))
       ELSE Goto(h, "deleting") /\ UNCHANGED reply
    /\ UNCHANGED <<serverVars, call, entry, clientVars>>

RemoveFile(h) ==
    /\ pc[h] = "deleting" /\ ~dead
    /\ exists' = exists \ {FileOf(h)}
    /\ Goto(h, "removed")
    /\ UNCHANGED <<memVars, stuck, dead, call, entry, reply, clientVars>>

DropEntry(h) == /\ Report(h, "removed", "deleted")
                /\ table' = [table EXCEPT ![FileOf(h)] = 0]

(* Read, of the newest descriptor of the client.                           *)
FindRead(h) ==
    LET fd == openMap[<<ClientOf(h), FileOf(h)>>]
    IN  /\ pc[h] = "arrived" /\ call[h].op = "read" /\ Free
        /\ IF fd = -1
           THEN Respond(h, Response("denied", 0)) /\ UNCHANGED entry
           ELSE /\ Goto(h, "reading")
                /\ entry' = [entry EXCEPT ![h] = fd]
                /\ UNCHANGED reply
        /\ UNCHANGED <<serverVars, call, clientVars>>

ServeRead(h) ==
    /\ pc[h] = "reading" /\ ~dead
    /\ Respond(h, Response(IF Registered(entry[h], ClientOf(h)) THEN "served"
                           ELSE "denied", 0))
    /\ UNCHANGED <<serverVars, call, entry, clientVars>>

(* The lease of the descriptor looked up has expired: its client is taken  *)
(* out of it, and out of openMap whatever descriptor is there by now.      *)
ExpireLease(h) ==
    LET c == ClientOf(h)
    IN  /\ pc[h] = "reading" /\ Free /\ Registered(entry[h], c)
        /\ openMap' = [openMap EXCEPT ![<<c, FileOf(h)>>] = -1]
        /\ files' = [files EXCEPT ![entry[h] + 1].open = FALSE]
        /\ expired' = expired \cup {entry[h]}
        /\ Respond(h, Response("denied", 0))
        /\ UNCHANGED <<exists, table, made, requests, stuck, dead, call, entry,
                       want, tries, sent, fdOf, live, overlapped>>

-----------------------------------------------------------------------------
Step(h) ==
    \/ FromCache(h) \/ NotCached(h) \/ FindOpen(h) \/ GetFileEntry(h)
    \/ CreateFile(h) \/ OpenFile(h) \/ Register(h)
    \/ LockForClose(h) \/ Refuse(h) \/ Unregister(h) \/ Closed(h)
    \/ StatFile(h) \/ LookUp(h) \/ AlreadyDeleted(h)
    \/ TryLock(h) \/ RemoveFile(h) \/ DropEntry(h)
    \/ FindRead(h) \/ ServeRead(h) \/ ExpireLease(h)

Next ==
    \/ \E c \in Client : Request(c) \/ GiveUp(c)
    \/ \E c \in Client, h \in Handler : Deliver(c, h)
    \/ \E h \in Handler, heard \in BOOLEAN : Return(h, heard)
    \/ \E h \in Handler : Step(h)

Spec == Init /\ [][Next]_vars

-----------------------------------------------------------------------------
Places == {"idle", "arrived", "missed", "stuck", "found", "register",
           "writing", "unregistered", "on disk", "gone", "deleting",
           "removed", "reading", "answered"}
Descriptor == [file : File, id : Id, client : Client, open : BOOLEAN]
Responses  == [what : Answers, fd : 0..MaxOpenFiles] \cup {None}

(* Types; descriptors stay within the limit of s.files.                    *)
TypeOK ==
    /\ exists \subseteq File
    /\ made \in [File -> Nat]
    /\ table \in [File -> Nat] /\ \A f \in File : table[f] <= made[f]
    /\ files \in Seq(Descriptor)
    /\ Len(files) <= MaxOpenFiles
    /\ openMap \in [Client \X File -> -1..(Len(files) - 1)]
    /\ requests \in [Id -> Responses]
    /\ stuck \in BOOLEAN /\ dead \in BOOLEAN
    /\ pc \in [Handler -> Places]
    /\ call \in [Handler -> Call \cup {None}]
    /\ entry \in [Handler -> Nat]
    /\ reply \in [Handler -> Responses]
    /\ want \in [Client -> Call \cup {None}]
    /\ tries \in [Client -> 0..maxTries]
    /\ sent \in 0..MaxCalls
    /\ fdOf \in [Client -> [File -> -1..MaxOpenFiles]]
    /\ live \in [Client -> SUBSET File]
    /\ overlapped \subseteq Id
    /\ expired \subseteq 0..(Len(files) - 1)

(* A request is executed once however often it is tried, provided no try   *)
(* arrives while another one is in progress: the request cache is asked in *)
(* one critical section and filled in a later one.                         *)
ExecutedOnce ==
    \A d, e \in 1..Len(files) :
        files[d].id = files[e].id /\ files[d].id \notin overlapped => d = e

(* The lease of c on f has expired, and c has not opened f again since.    *)
Lapsed(c, f) == /\ openMap[<<c, f>>] = -1
                /\ \E fd \in expired : /\ files[fd + 1].client = c
                                       /\ files[fd + 1].file = f

(* A client that has opened a file and has not closed it since can read    *)
(* it, unless its lease has expired, whatever late attempts and late       *)
(* Closes of its earlier calls still do: Read goes by openMap, which keeps *)
(* one descriptor for each client and file, and Close by the Fd it heard.  *)
LiveCanRead ==
    Careful => \A c \in Client : \A f \in live[c] :
        Lapsed(c, f) \/ Registered(openMap[<<c, f>>], c)

(* A Close of a descriptor whose lease has expired stops the server.       *)
Frozen == \E h \in Handler : pc[h] = "stuck" /\ call[h].fd \in expired

(* As long as calls are in progress one of them can go on, unless the      *)
(* process has ended, or a Close came too late for its lease: no handler   *)
(* waits for a lock that is never released, its own s.mu included.         *)
SomeoneMoves ==
    \/ dead \/ Frozen
    \/ \A h \in Handler : pc[h] \in {"idle", "answered"}
    \/ \E h \in Handler : ENABLED Step(h)
=============================================================================
