--------------------------- MODULE WorkersProofs ---------------------------
(***************************************************************************)
(* The programs of the repository, for any clients, input files and        *)
(* numbers: types, that they are careful users of the library by           *)
(* themselves, that no Close takes out what another saved, and that they   *)
(* store nothing but primes as far as the prime test accepts no others.    *)
(***************************************************************************)
EXTENDS Workers, ClientCacheProofs

-----------------------------------------------------------------------------
(* A program has its types.                                                *)
WorkTypes == /\ step \in [Client -> Nat]
             /\ \A c \in Client : step[c] \in 0 .. Len(Script(c)) + 1
             /\ found \in [Client -> SUBSET Number]

(* What a program has in the cache, and what it has found, at each call.   *)
Early == {"dial", "createInput", "openToWrite", "openInput"}

Place(c) ==
    LET input  == cache[c][InputOf[c]]
        output == cache[c][Output]
    IN  /\ \A call \in Early : At(c, call) => input = None /\ found[c] = {}
        /\ At(c, "read") => /\ found[c] = {}
                            /\ (input # None => ~input.valid /\ ~input.dirty)
        /\ At(c, "create") => found[c] = PrimesIn(Listing[InputOf[c]])
        /\ \A call \in Early \cup {"read", "create"} : At(c, call) => output = None
        /\ \A call \in {"write", "append"} : At(c, call) =>
                output # None /\ ~output.closed
        /\ At(c, "close") => /\ output # None /\ ~output.closed /\ output.dirty
                             /\ found[c] \subseteq output.data
        /\ \A call \in {"reopen", "check"} : At(c, call) =>
                (output # None => ~output.dirty)

PlaceInv == \A c \in Client : Place(c)

(* Nothing is deleted, and only the output file is written.                *)
InputsInv ==
    /\ \A d \in DOMAIN fds : /\ fds[d].removed = None
                             /\ fds[d].mode = WRITE => fds[d].file = Output
    /\ \A f \in Input : content[f] = Listing[f]

(* All there is in the output file and its copies was found by programs.   *)
Found == UNION {found[c] : c \in Client}

FoundInv ==
    /\ \A c \in Client : \A n \in found[c] : Parses(n) /\ IsPrime(n)
    /\ Listing[Output] = {} =>
          /\ content[Output] \cup primes[Output] \subseteq Found
          /\ \A c \in Client : cache[c][Output] # None =>
                cache[c][Output].data \subseteq Found

(* What was saved is in the output file and in the prime set, which every  *)
(* later Close merges in.                                                  *)
SavedInv ==
    primary = 1 =>
        \A c \in Client : Closed(c) =>
            Output \in exists /\ found[c] \subseteq content[Output] \cap primes[Output]

-----------------------------------------------------------------------------
(* The calls of the scripts, and which may follow which.                   *)
Follows == { <<"dial", "createInput">>, <<"createInput", "openToWrite">>,
             <<"dial", "openInput">>, <<"openToWrite", "openInput">>,
             <<"openInput", "read">>, <<"read", "create">>, <<"create", "open">>,
             <<"open", "write">>, <<"open", "append">>, <<"write", "close">>,
             <<"append", "close">>, <<"close", "reopen">>, <<"reopen", "check">> }

LEMMA ScriptOrder ==
    ASSUME NEW c \in Client
    PROVE  /\ Len(Script(c)) \in Nat /\ DOMAIN Script(c) = 1..Len(Script(c))
           /\ Len(Script(c)) > 0 /\ Script(c)[1] = "dial"
           /\ \A i \in 2..Len(Script(c)) : <<Script(c)[i - 1], Script(c)[i]>> \in Follows
           /\ Script(c)[Len(Script(c))] \in {"close", "check"}
<1>1. CASE ProgramOf[c] = "client_1"
  <2> DEFINE s == <<"dial", "createInput", "openToWrite", "openInput", "read",
                    "create", "open", "write", "close", "reopen", "check">>
  <2>1. Script(c) = s
      BY <1>1 DEF Script
  <2>2. /\ Len(s) = 11 /\ DOMAIN s = 1..11
        /\ s[1] = "dial" /\ s[2] = "createInput" /\ s[3] = "openToWrite"
        /\ s[4] = "openInput" /\ s[5] = "read" /\ s[6] = "create"
        /\ s[7] = "open" /\ s[8] = "write" /\ s[9] = "close"
        /\ s[10] = "reopen" /\ s[11] = "check"
      OBVIOUS
  <2> HIDE DEF s
  <2>3. \A i \in 2..11 : i = 2 \/ i = 3 \/ i = 4 \/ i = 5 \/ i = 6 \/ i = 7
                         \/ i = 8 \/ i = 9 \/ i = 10 \/ i = 11
      OBVIOUS
  <2>4. \A i \in 2..11 : <<s[i - 1], s[i]>> \in Follows
      BY <2>2, <2>3 DEF Follows
  <2> QED
      BY <2>1, <2>2, <2>4
<1>2. CASE ProgramOf[c] = "client_2"
  <2> DEFINE a == <<"dial", "openInput", "read", "create", "open", "append", "close">>
             b == <<"reopen", "check">>
             s == a \o b
             names == {"dial", "openInput", "read", "create", "open", "append",
                       "close", "reopen", "check"}
  <2>1. Script(c) = s
      BY <1>2 DEF Script, Appends
  <2>2. /\ a \in Seq(names) /\ Len(a) = 7
        /\ a[1] = "dial" /\ a[2] = "openInput" /\ a[3] = "read"
        /\ a[4] = "create" /\ a[5] = "open" /\ a[6] = "append" /\ a[7] = "close"
      OBVIOUS
  <2>3. b \in Seq(names) /\ Len(b) = 2 /\ b[1] = "reopen" /\ b[2] = "check"
      OBVIOUS
  <2> HIDE DEF a, b, names
  <2>4. /\ s \in Seq(names) /\ Len(s) = 9
        /\ \A i \in 1..9 : s[i] = IF i <= 7 THEN a[i] ELSE b[i - 7]
    <3>1. /\ s \in Seq(names) /\ Len(s) = Len(a) + Len(b)
          /\ \A i \in 1..(Len(a) + Len(b)) :
                s[i] = IF i <= Len(a) THEN a[i] ELSE b[i - Len(a)]
        BY ONLY <2>2, <2>3, ConcatProperties
    <3> HIDE DEF s
    <3> QED
        BY <2>2, <2>3, <3>1
  <2>5. /\ DOMAIN s = 1..9
        /\ s[1] = "dial" /\ s[2] = "openInput" /\ s[3] = "read"
        /\ s[4] = "create" /\ s[5] = "open" /\ s[6] = "append"
        /\ s[7] = "close" /\ s[8] = "reopen" /\ s[9] = "check"
      BY <2>2, <2>3, <2>4
  <2> HIDE DEF s
  <2>6. \A i \in 2..9 : i = 2 \/ i = 3 \/ i = 4 \/ i = 5 \/ i = 6 \/ i = 7
                        \/ i = 8 \/ i = 9
      OBVIOUS
  <2>7. \A i \in 2..9 : <<s[i - 1], s[i]>> \in Follows
      BY <2>5, <2>6 DEF Follows
  <2> QED
      BY <2>1, <2>4, <2>5, <2>7
<1>3. CASE ProgramOf[c] = "worker"
  <2> DEFINE s == <<"dial", "openInput", "read", "create", "open", "append",
                    "close">>
  <2>1. Script(c) = s
      BY <1>3 DEF Script, Appends
  <2>2. /\ Len(s) = 7 /\ DOMAIN s = 1..7
        /\ s[1] = "dial" /\ s[2] = "openInput" /\ s[3] = "read"
        /\ s[4] = "create" /\ s[5] = "open" /\ s[6] = "append" /\ s[7] = "close"
      OBVIOUS
  <2> HIDE DEF s
  <2>3. \A i \in 2..7 : i = 2 \/ i = 3 \/ i = 4 \/ i = 5 \/ i = 6 \/ i = 7
      OBVIOUS
  <2>4. \A i \in 2..7 : <<s[i - 1], s[i]>> \in Follows
      BY <2>2, <2>3 DEF Follows
  <2> QED
      BY <2>1, <2>2, <2>4
<1> QED
    BY <1>1, <1>2, <1>3, WorkerAssumption

(* At most one call is next; after it, one that may follow, or none.       *)
OnlyMoves(c) == \A d \in Client \ {c} : step'[d] = step[d]

LEMMA OneCall ==
    ASSUME NEW c, NEW x, NEW y, At(c, x), At(c, y)
    PROVE  x = y
BY DEF At

LEMMA ProceedTo ==
    ASSUME WorkTypes, NEW c \in Client, NEW x, At(c, x), Proceed(c)
    PROVE  /\ step' \in [Client -> Nat] /\ step'[c] \in 0 .. Len(Script(c)) + 1
           /\ OnlyMoves(c)
           /\ \A y : At(c, y)' => <<x, y>> \in Follows
           /\ Done(c)' => x \in {"close", "check"}
<1> DEFINE s == Script(c)
           n == Len(Script(c))
<1>1. /\ n \in Nat /\ DOMAIN s = 1..n
      /\ \A i \in 2..n : <<s[i - 1], s[i]>> \in Follows
      /\ s[n] \in {"close", "check"}
    BY ScriptOrder
<1>2. step[c] \in 1..n /\ s[step[c]] = x /\ step \in [Client -> Nat]
    BY <1>1 DEF At, WorkTypes
<1>3. /\ step' \in [Client -> Nat] /\ step'[c] = step[c] + 1 /\ OnlyMoves(c)
    BY <1>2 DEF Proceed, OnlyMoves
<1> HIDE DEF s, n
<1>4. step'[c] \in 0 .. n + 1
    BY <1>1, <1>2, <1>3
<1>5. ASSUME NEW y, step'[c] \in DOMAIN s, s[step'[c]] = y
      PROVE  <<x, y>> \in Follows
  <2>1. step[c] + 1 \in 2..n /\ (step[c] + 1) - 1 = step[c]
      BY <1>1, <1>2, <1>3, <1>5
  <2> QED
      BY <1>1, <1>2, <1>3, <1>5, <2>1
<1>6. step'[c] > n => x \in {"close", "check"}
  <2>1. step'[c] > n => step[c] = n
      BY <1>1, <1>2, <1>3
  <2> QED
      BY <1>1, <1>2, <2>1
<1> QED
    BY <1>3, <1>4, <1>5, <1>6 DEF At, Done, s, n

LEMMA StopAt ==
    ASSUME WorkTypes, NEW c \in Client, Stop(c)
    PROVE  /\ step' \in [Client -> Nat] /\ step'[c] \in 0 .. Len(Script(c)) + 1
           /\ OnlyMoves(c)
           /\ \A y : ~At(c, y)'
           /\ ~Done(c)'
<1>1. Len(Script(c)) \in Nat /\ DOMAIN Script(c) = 1..Len(Script(c))
    BY ScriptOrder
<1>2. step' \in [Client -> Nat] /\ step'[c] = 0 /\ OnlyMoves(c)
    BY DEF Stop, Failed, WorkTypes, OnlyMoves
<1>3. step'[c] \notin DOMAIN Script(c) /\ ~(step'[c] > Len(Script(c)))
      /\ step'[c] \in 0 .. Len(Script(c)) + 1
    BY <1>1, <1>2
<1> QED
    BY <1>2, <1>3 DEF At, Done

LEMMA FailAt ==
    ASSUME NEW c \in Client, NEW x, At(c, x), Fail(c)
    PROVE  \/ x \in Tolerated /\ Proceed(c)
           \/ x \notin Tolerated /\ Stop(c)
BY DEF At, Fail

-----------------------------------------------------------------------------
(* What the calls of programs do in the library and on the server: nothing *)
(* but the output file is written, with the copy merged into the prime set *)
(* (or it is created), and the copy of it gets what is there, or was found.*)
LibraryStep(c) == \/ \E f \in File : CarefulCall(c, f)
                  \/ Dials(c) \/ UNCHANGED vars

ServerWork(c) ==
    /\ \A f \in Input : content'[f] = content[f]
    /\ \A d \in DOMAIN fds' : /\ fds'[d].removed = None
                              /\ fds'[d].mode = WRITE => fds'[d].file = Output
    /\ exists \subseteq exists'
    /\ \/ content'[Output] = content[Output] /\ primes'[Output] = primes[Output]
       \/ /\ Output \notin exists
          /\ content'[Output] = {} /\ primes'[Output] = primes[Output]
       \/ /\ cache[c][Output] # None /\ Output \in exists'
          /\ content'[Output] = primes[Output] \cup cache[c][Output].data
          /\ primes'[Output] = content'[Output]

OutputData(c) ==
    cache'[c][Output] # None =>
        \A n \in cache'[c][Output].data :
            \/ cache[c][Output] # None /\ n \in cache[c][Output].data
            \/ n \in content[Output] \/ n \in found[c]

LibWork(c) == LibraryStep(c) /\ ServerWork(c) /\ OutputData(c)

LEMMA Names ==
    /\ Output \in File /\ Output \notin Input /\ Input \subseteq File
    /\ \A c \in Client : InputOf[c] \in Input /\ InputOf[c] \in File /\ InputOf[c] # Output
    /\ \A n \in Number : HomeOf[n] = Output
    /\ Numbers(Output) = Number
BY WorkerAssumption, CacheAssumption DEF Numbers

LEMMA OutputKept ==
    ASSUME NEW c \in Client, NEW f \in File, Regular(c, f),
           f # Output \/ Same(c, f) \/ cache'[c][f] = None
    PROVE  OutputData(c)
BY Names DEF Regular, Same, OutputData

LEMMA WorkSame ==
    ASSUME InputsInv, NEW c, UNCHANGED <<exists, content, primes, fds>>
    PROVE  ServerWork(c)
BY DEF InputsInv, ServerWork

LEMMA WorkRegister ==
    ASSUME TypeInv, InputsInv, NEW c \in Client, NEW f \in File, NEW mode \in Mode,
           HasSpace, Register(c, f, mode), mode = WRITE => f = Output
    PROVE  \A d \in DOMAIN fds' : /\ fds'[d].removed = None
                                  /\ fds'[d].mode = WRITE => fds'[d].file = Output
<1> DEFINE new == [file |-> f, client |-> c, mode |-> mode, open |-> TRUE,
                   removed |-> None]
<1>1. /\ Len(fds) \in Nat
      /\ DOMAIN fds = 1..Len(fds) /\ DOMAIN fds' = 1..(Len(fds) + 1)
      /\ \A d \in DOMAIN fds : fds'[d] = fds[d]
      /\ fds'[Len(fds) + 1] = new
    BY RegisterTypes
<1>2. new.file = f /\ new.mode = mode /\ new.removed = None
    OBVIOUS
<1> HIDE DEF new
<1> SUFFICES ASSUME NEW d \in DOMAIN fds'
             PROVE  /\ fds'[d].removed = None
                    /\ fds'[d].mode = WRITE => fds'[d].file = Output
    OBVIOUS
<1>3. CASE d = Len(fds) + 1
    BY <1>1, <1>2, <1>3
<1>4. CASE d # Len(fds) + 1
  <2>1. d \in DOMAIN fds
      BY <1>1, <1>4
  <2> QED
      BY <1>1, <2>1 DEF InputsInv
<1> QED
    BY <1>3, <1>4

LEMMA WorkUnregister ==
    ASSUME TypeInv, InputsInv, NEW fd, fd + 1 \in DOMAIN fds, Unregister(fd)
    PROVE  \A d \in DOMAIN fds' : /\ fds'[d].removed = None
                                  /\ fds'[d].mode = WRITE => fds'[d].file = Output
BY UnregisterTypes DEF InputsInv

LEMMA CreateWork ==
    ASSUME TypeInv, InputsInv, NEW c \in Client, NEW heard \in BOOLEAN,
           Create(c, Output, heard), cache[c][Output] = None
    PROVE  LibWork(c)
<1>1. LibraryStep(c)
    BY Names DEF LibraryStep, CarefulCall
<1>2. ServerWork(c)
  <2>1. \A d \in DOMAIN fds' : /\ fds'[d].removed = None
                               /\ fds'[d].mode = WRITE => fds'[d].file = Output
      BY Names, WorkRegister DEF Create, Mode
  <2>2. /\ content' = [content EXCEPT ![Output] = {}] /\ primes' = primes
        /\ exists' = exists \cup {Output} /\ Output \notin exists
      BY DEF Create
  <2>3. content'[Output] = {} /\ \A f \in Input : content'[f] = content[f]
      BY <2>2, Names DEF TypeInv, TypeOK
  <2> QED
      BY <2>1, <2>2, <2>3 DEF ServerWork
<1>3. OutputData(c)
  <2>1. Created(Len(fds)).data = {}
      BY DEF Created
  <2> QED
      BY <2>1, Names, CreateRegular, OutputKept DEF OutputData, Dropped
<1> QED
    BY <1>1, <1>2, <1>3 DEF LibWork

LEMMA CreateFailsWork ==
    ASSUME TypeInv, InputsInv, NEW c \in Client, NEW f \in File, CreateFails(c, f)
    PROVE  LibWork(c)
<1>1. LibraryStep(c)
    BY DEF LibraryStep, CarefulCall
<1>2. ServerWork(c)
    BY WorkSame DEF CreateFails
<1>3. OutputData(c)
    BY CreateFailsRegular, OutputKept DEF Dropped
<1> QED
    BY <1>1, <1>2, <1>3 DEF LibWork

LEMMA OpenWork ==
    ASSUME TypeInv, InputsInv, NEW c \in Client, NEW f \in {InputOf[c], Output},
           NEW mode \in Mode, NEW heard \in BOOLEAN, Open(c, f, mode, heard)
    PROVE  LibWork(c)
<1>1. f \in File
    BY Names
<1>2. LibraryStep(c)
    BY <1>1 DEF LibraryStep, CarefulCall
<1>3. ServerWork(c)
  <2>1. mode = WRITE => f = Output
      BY Names DEF Open, Opens, READ, WRITE
  <2>2. \A d \in DOMAIN fds' : /\ fds'[d].removed = None
                               /\ fds'[d].mode = WRITE => fds'[d].file = Output
      BY <1>1, <2>1, WorkRegister DEF Open, Opens
  <2> QED
      BY <2>2 DEF ServerWork, Open
<1>4. OutputData(c)
  <2>1. Fetched(f, mode).data = {}
      BY DEF Fetched
  <2>2. CASE f = Output
      BY <1>1, <2>1, <2>2, OpenRegular, OutputKept DEF OutputData, Dropped
  <2>3. CASE f # Output
      BY <1>1, <2>3, OpenRegular, OutputKept
  <2> QED
      BY <2>2, <2>3
<1> QED
    BY <1>2, <1>3, <1>4 DEF LibWork

LEMMA OpenFailsWork ==
    ASSUME TypeInv, InputsInv, NEW c \in Client, NEW f \in File,
           (\E mode \in Mode : OpenFails(c, f, mode)) \/ OpenValidFails(c, f)
             \/ AuthFails(c, f)
    PROVE  LibWork(c)
<1>1. ASSUME NEW mode \in Mode, OpenFails(c, f, mode) PROVE LibWork(c)
  <2>1. LibraryStep(c)
      BY <1>1 DEF LibraryStep, CarefulCall
  <2>2. ServerWork(c)
      BY <1>1, WorkSame DEF OpenFails
  <2>3. OutputData(c)
      BY <1>1, OpenFailsRegular, OutputKept DEF Dropped
  <2> QED
      BY <2>1, <2>2, <2>3 DEF LibWork
<1>2. CASE OpenValidFails(c, f)
  <2>1. LibraryStep(c)
      BY <1>2 DEF LibraryStep, CarefulCall
  <2>2. ServerWork(c)
      BY <1>2, WorkSame DEF OpenValidFails
  <2>3. OutputData(c)
      BY <1>2, OpenValidFailsRegular, OutputKept
  <2> QED
      BY <2>1, <2>2, <2>3 DEF LibWork
<1>3. CASE UNCHANGED vars
  <2>1. LibraryStep(c)
      BY <1>3 DEF LibraryStep
  <2>2. ServerWork(c)
      BY <1>3, WorkSame DEF vars, serverVars
  <2>3. OutputData(c)
      BY <1>3 DEF vars, clientVars, OutputData
  <2> QED
      BY <2>1, <2>2, <2>3 DEF LibWork
<1> QED
    BY <1>1, <1>2, <1>3 DEF AuthFails

LEMMA TestAuthWork ==
    ASSUME TypeInv, InputsInv, NEW c \in Client, NEW f \in File, NEW mode \in Mode,
           TestAuth(c, f, mode)
    PROVE  LibWork(c)
<1> DEFINE e == cache[c][f]
           new == [e EXCEPT !.valid = TRUE, !.mode = mode]
<1>1. LibraryStep(c)
    BY DEF LibraryStep, CarefulCall
<1>2. ServerWork(c)
    BY WorkSame DEF TestAuth, serverVars
<1>3. e \in CacheEntry /\ cache'[c][f] = new /\ Regular(c, f)
    BY TestAuthRegular
<1>4. new.data = e.data /\ e # None
    BY <1>3, NoneAssumption DEF CacheEntry
<1> HIDE DEF e, new
<1>5. OutputData(c)
  <2>1. CASE f = Output
      BY <1>3, <1>4, <2>1 DEF OutputData, e
  <2>2. CASE f # Output
      BY <1>3, <2>2, OutputKept
  <2> QED
      BY <2>1, <2>2
<1> QED
    BY <1>1, <1>2, <1>5 DEF LibWork

LEMMA OpenValidWork ==
    ASSUME TypeInv, InputsInv, NEW c \in Client, NEW f \in {InputOf[c], Output},
           NEW heard \in BOOLEAN, OpenValid(c, f, heard)
    PROVE  LibWork(c)
<1> DEFINE e == cache[c][f]
<1>1. f \in File
    BY Names
<1>2. LibraryStep(c)
    BY <1>1 DEF LibraryStep, CarefulCall
<1>3. /\ e \in CacheEntry /\ Regular(c, f)
      /\ cache'[c][f] = IF heard THEN Reopened(e) ELSE e
    BY <1>1, OpenValidRegular
<1>4. e.mode \in Mode /\ Reopened(e).data = e.data /\ e # None
    BY <1>3, NoneAssumption DEF CacheEntry, Reopened
<1>5. ServerWork(c)
  <2>1. e.mode = WRITE => f = Output
      BY Names DEF OpenValid, Opens, READ, WRITE
  <2>2. \A d \in DOMAIN fds' : /\ fds'[d].removed = None
                               /\ fds'[d].mode = WRITE => fds'[d].file = Output
      BY <1>1, <1>4, <2>1, WorkRegister DEF OpenValid, Opens
  <2> QED
      BY <2>2 DEF ServerWork, OpenValid
<1> HIDE DEF e
<1>6. OutputData(c)
  <2>1. CASE f = Output
    <3>1. cache'[c][f].data = e.data
        BY <1>3, <1>4
    <3> QED
        BY <1>4, <2>1, <3>1 DEF OutputData, e
  <2>2. CASE f # Output
      BY <1>1, <1>3, <2>2, OutputKept
  <2> QED
      BY <2>1, <2>2
<1> QED
    BY <1>2, <1>5, <1>6 DEF LibWork

(* Read gets what the file has: nothing was deleted.                       *)
LEMMA ReadWork ==
    ASSUME TypeInv, InputsInv, NEW c \in Client, NEW f \in File,
           Read(c, f), ~cache[c][f].dirty
    PROVE  /\ LibWork(c) /\ Regular(c, f)
           /\ cache'[c][f].data = content[f] /\ cache'[c][f].dirty = cache[c][f].dirty
<1> DEFINE e == cache[c][f]
           new == [e EXCEPT !.data = Bytes(NewestFd(c, f))]
<1>1. LibraryStep(c)
    BY DEF LibraryStep, CarefulCall
<1>2. ServerWork(c)
    BY WorkSame DEF Read, serverVars
<1>3. e \in CacheEntry /\ cache'[c][f] = new /\ Regular(c, f)
    BY ReadRegular
<1>4. Bytes(NewestFd(c, f)) = content[f]
  <2>1. Owned(fds, NewestFd(c, f), c, f)
      BY NewestOwned DEF Read
  <2> QED
      BY <2>1 DEF Owned, Bytes, InputsInv
<1>5. new.data = content[f] /\ new.dirty = e.dirty
    BY <1>3, <1>4 DEF CacheEntry
<1> HIDE DEF e, new
<1>6. OutputData(c)
  <2>1. CASE f = Output
      BY <1>3, <1>5, <2>1 DEF OutputData
  <2>2. CASE f # Output
      BY <1>3, <2>2, OutputKept
  <2> QED
      BY <2>1, <2>2
<1> QED
    BY <1>1, <1>2, <1>3, <1>5, <1>6 DEF LibWork, e

LEMMA ReadFileWork ==
    ASSUME TypeInv, InputsInv, NEW c \in Client, NEW f \in File,
           ReadFile(c, f) \/ ReadFails(c, f) \/ LeaseExpires(c, f)
    PROVE  LibWork(c)
<1>1. CASE ReadFile(c, f)
  <2>1. LibraryStep(c)
      BY <1>1 DEF LibraryStep, CarefulCall
  <2>2. ServerWork(c)
      BY <1>1, WorkSame DEF ReadFile, serverVars
  <2>3. OutputData(c)
      BY <1>1, ReadFileRegular, OutputKept
  <2> QED
      BY <2>1, <2>2, <2>3 DEF LibWork
<1>2. CASE UNCHANGED vars
  <2>1. LibraryStep(c)
      BY <1>2 DEF LibraryStep
  <2>2. ServerWork(c)
      BY <1>2, WorkSame DEF vars, serverVars
  <2>3. OutputData(c)
      BY <1>2 DEF vars, clientVars, OutputData
  <2> QED
      BY <2>1, <2>2, <2>3 DEF LibWork
<1>3. CASE LeaseExpires(c, f)
  <2>1. LibraryStep(c)
      BY <1>3 DEF LibraryStep, CarefulCall
  <2>2. /\ NewestFd(c, f) + 1 \in DOMAIN fds /\ Unregister(NewestFd(c, f))
        /\ UNCHANGED <<exists, content, primes>>
      BY <1>3, RegisteredTypes DEF LeaseExpires
  <2>3. ServerWork(c)
      BY <2>2, WorkUnregister DEF ServerWork
  <2>4. OutputData(c)
      BY <1>3, LeaseExpiresRegular, OutputKept
  <2> QED
      BY <2>1, <2>3, <2>4 DEF LibWork
<1> QED
    BY <1>1, <1>2, <1>3 DEF ReadFails

LEMMA ChangeWork ==
    ASSUME TypeInv, WorkTypes, InputsInv, NEW c \in Client, NEW keep \in BOOLEAN,
           Change(c, Output, found[c], keep)
    PROVE  /\ LibWork(c) /\ Regular(c, Output)
           /\ cache'[c][Output] \in CacheEntry
           /\ found[c] \subseteq cache'[c][Output].data /\ cache'[c][Output].dirty
           /\ cache'[c][Output].closed = cache[c][Output].closed
<1> DEFINE e == cache[c][Output]
           data == (IF keep THEN e.data ELSE {}) \cup found[c]
<1>1. found[c] \in SUBSET Numbers(Output) /\ found[c] \subseteq Number /\ Output \in File
    BY Names DEF WorkTypes
<1>2. /\ e \in CacheEntry /\ cache'[c][Output] = Written(e, data)
      /\ Regular(c, Output)
    BY ONLY <1>1, ChangeRegular, TypeInv, Change(c, Output, found[c], keep),
            c \in Client, keep \in BOOLEAN
<1>3. LibraryStep(c)
    BY <1>1 DEF LibraryStep, CarefulCall
<1>4. ServerWork(c)
    BY WorkSame DEF Change, serverVars
<1> DEFINE new == Written(e, data)
<1>5. /\ new \in CacheEntry /\ new.data = data /\ new.dirty /\ new.closed = e.closed
    BY <1>1, <1>2 DEF CacheEntry, Written
<1>6. e # None
    BY <1>2, NoneAssumption
<1>7. found[c] \subseteq data /\ \A n \in data : n \in e.data \/ n \in found[c]
    OBVIOUS
<1> HIDE DEF e, data, new
<1>8. cache'[c][Output] = new
    BY <1>2 DEF new
<1>9. OutputData(c)
    BY <1>5, <1>6, <1>7, <1>8 DEF OutputData, e
<1> QED
    BY <1>2, <1>3, <1>4, <1>5, <1>7, <1>8, <1>9 DEF LibWork, e

(* Close of a dirty copy stores it merged with the prime set.              *)
LEMMA CloseWork ==
    ASSUME TypeInv, InputsInv, NEW c \in Client, NEW heard \in BOOLEAN,
           Close(c, Output, heard), ~cache[c][Output].closed, cache[c][Output].dirty
    PROVE  /\ LibWork(c) /\ Regular(c, Output)
           /\ Output \in exists' /\ primes'[Output] = content'[Output]
           /\ content'[Output] = primes[Output] \cup cache[c][Output].data
           /\ heard => ~cache'[c][Output].dirty
<1> DEFINE e == cache[c][Output]
           new == ClosedAt(e, version'[TargetOf(e)])
<1>1. LibraryStep(c)
    BY Names DEF LibraryStep, CarefulCall
<1>2. /\ e \in CacheEntry /\ Regular(c, Output)
      /\ cache'[c][Output] = IF heard THEN new ELSE e
    BY Names, CloseRegular
<1>3. /\ Registered(e.fd, c) /\ Unregister(e.fd) /\ Accepts(e) /\ Store(e, TRUE)
      /\ e # None
    BY DEF Close, Closes, InCache
<1>4. new.data = e.data /\ ~new.dirty
    BY <1>2 DEF CacheEntry, ClosedAt
<1> HIDE DEF e, new
<1>5. e.fd + 1 \in DOMAIN fds /\ TargetOf(e) = Output
    BY <1>3, RegisteredTypes DEF Accepts, TargetOf, InputsInv
<1>6. /\ exists' = exists \cup {Output}
      /\ content' = [content EXCEPT ![Output] = primes[Output] \cup e.data]
      /\ primes' = [primes EXCEPT ![Output] = @ \cup e.data]
    BY <1>3, <1>5 DEF Store, Merged
<1>7. /\ content'[Output] = primes[Output] \cup e.data
      /\ primes'[Output] = primes[Output] \cup e.data
      /\ \A f \in Input : content'[f] = content[f]
    BY <1>6, Names DEF TypeInv, TypeOK
<1>8. ServerWork(c)
  <2>1. \A d \in DOMAIN fds' : /\ fds'[d].removed = None
                               /\ fds'[d].mode = WRITE => fds'[d].file = Output
      BY <1>3, <1>5, WorkUnregister
  <2> QED
      BY <1>3, <1>6, <1>7, <2>1 DEF ServerWork, e
<1>9. OutputData(c)
  <2>1. cache'[c][Output].data = e.data
      BY <1>2, <1>4
  <2> QED
      BY <1>3, <2>1 DEF OutputData, e
<1> QED
    BY <1>1, <1>2, <1>4, <1>6, <1>7, <1>8, <1>9 DEF LibWork, e

LEMMA CloseFailsWork ==
    ASSUME TypeInv, InputsInv, NEW c \in Client,
           \/ Refused(c, Output)
           \/ Freezes(c, Output) /\ ~cache[c][Output].closed
           \/ CloseLost(c)
    PROVE  LibWork(c)
<1>1. CASE Refused(c, Output)
  <2>1. LibraryStep(c)
      BY <1>1, Names DEF LibraryStep, CarefulCall
  <2>2. ServerWork(c) /\ OutputData(c)
      BY <1>1, WorkSame DEF Refused, OutputData
  <2> QED
      BY <2>1, <2>2 DEF LibWork
<1>2. CASE Freezes(c, Output) /\ ~cache[c][Output].closed
  <2>1. LibraryStep(c)
      BY <1>2, Names DEF LibraryStep, CarefulCall
  <2>2. ServerWork(c) /\ OutputData(c)
      BY <1>2, WorkSame DEF Freezes, OutputData
  <2> QED
      BY <2>1, <2>2 DEF LibWork
<1>3. CASE CloseLost(c)
  <2>1. LibraryStep(c)
    <3>1. primary \in 1..primary
        BY CacheAssumption DEF TypeInv, TypeOK
    <3>2. Dials(c) \/ UNCHANGED vars
        BY <1>3, <3>1
        DEF CloseLost, MaybeRedirected, Redirected, Dials, vars, clientVars
    <3> QED
        BY <3>2 DEF LibraryStep
  <2>2. ServerWork(c) /\ OutputData(c)
      BY <1>3, WorkSame DEF CloseLost, serverVars, OutputData
  <2> QED
      BY <2>1, <2>2 DEF LibWork
<1> QED
    BY <1>1, <1>2, <1>3

-----------------------------------------------------------------------------
(* The steps of programs.                                                  *)
StepTypes(c) == /\ step' \in [Client -> Nat] /\ step'[c] \in 0 .. Len(Script(c)) + 1
                /\ OnlyMoves(c)

FoundStep(c) == /\ found' \in [Client -> SUBSET Number]
                /\ \A d \in Client \ {c} : found'[d] = found[d]
                /\ \/ found'[c] = found[c]
                   \/ found[c] = {} /\ \A n \in found'[c] : Parses(n) /\ IsPrime(n)

SavedStep(c) == Closed(c)' =>
                  \/ Closed(c) /\ found'[c] = found[c]
                  \/ /\ Output \in exists' /\ found'[c] \subseteq content'[Output]
                     /\ primes'[Output] = content'[Output]

Outcome(c) == /\ LibWork(c) /\ StepTypes(c) /\ FoundStep(c) /\ SavedStep(c)
              /\ Place(c)'

LEMMA FoundSame ==
    ASSUME WorkTypes, NEW c \in Client, found' = found
    PROVE  FoundStep(c)
BY DEF WorkTypes, FoundStep

LEMMA Stopped ==
    ASSUME WorkTypes, NEW c \in Client, LibWork(c), Stop(c), found' = found
    PROVE  Outcome(c)
<1>1. /\ StepTypes(c) /\ ~Done(c)'
      /\ \A y : ~At(c, y)'
    BY StopAt DEF StepTypes
<1>2. FoundStep(c)
    BY FoundSame
<1>3. ~Closed(c)'
    BY <1>1 DEF Closed
<1>4. Place(c)'
    BY <1>1 DEF Place
<1> QED
    BY <1>1, <1>2, <1>3, <1>4 DEF Outcome, SavedStep

(* Most calls do not come after Close.                                     *)
LEMMA Proceeds ==
    ASSUME WorkTypes, NEW c \in Client, NEW x, At(c, x), Proceed(c),
           x \notin {"close", "reopen", "check"}
    PROVE  /\ StepTypes(c) /\ SavedStep(c)
           /\ \A y : At(c, y)' => <<x, y>> \in Follows
<1>1. /\ StepTypes(c) /\ ~Done(c)'
      /\ \A y : At(c, y)' => <<x, y>> \in Follows
    BY ProceedTo DEF StepTypes
<1>2. ~At(c, "reopen")' /\ ~At(c, "check")'
    BY <1>1 DEF Follows
<1> QED
    BY <1>1, <1>2 DEF SavedStep, Closed

LEMMA DialOutcome ==
    ASSUME TypeInv, WorkTypes, InputsInv, NEW c \in Client, Place(c), Dial(c)
    PROVE  Outcome(c)
<1>1. /\ At(c, "dial") /\ found' = found
      /\ UNCHANGED <<serverVars, cache, lru, opening, historyVars, boundVars>>
      /\ \/ Proceed(c) /\ Dials(c)
         \/ Stop(c) /\ UNCHANGED vars
    BY DEF Dial, Dials, Leaders, vars, clientVars
<1>2. LibWork(c)
  <2>1. ServerWork(c) /\ OutputData(c)
      BY <1>1, WorkSame DEF serverVars, OutputData
  <2> QED
      BY <1>1, <2>1 DEF LibWork, LibraryStep
<1>3. CASE Proceed(c)
  <2>1. /\ StepTypes(c) /\ SavedStep(c)
        /\ \A y : At(c, y)' => <<"dial", y>> \in Follows
      BY <1>1, <1>3, Proceeds
  <2>2. \A y : At(c, y)' => y \in {"createInput", "openInput"}
      BY <2>1 DEF Follows
  <2>3. cache[c][InputOf[c]] = None /\ cache[c][Output] = None /\ found[c] = {}
      BY <1>1 DEF Place, Early
  <2>4. Place(c)'
      BY <1>1, <2>2, <2>3 DEF Place, Early
  <2> QED
      BY <1>1, <1>2, <2>1, <2>4, FoundSame DEF Outcome
<1> QED
    BY <1>1, <1>2, <1>3, Stopped

(* Create of the input file is refused.                                    *)
LEMMA CreateInputOutcome ==
    ASSUME TypeInv, WorkTypes, InputsInv, NEW c \in Client, Place(c),
           At(c, "createInput"), CreateFails(c, InputOf[c]), Fail(c), found' = found
    PROVE  Outcome(c)
<1>1. LibWork(c) /\ Regular(c, InputOf[c])
      /\ (Same(c, InputOf[c]) \/ Dropped(c, InputOf[c]))
    BY Names, CreateFailsWork, CreateFailsRegular
<1>2. Proceed(c)
    BY FailAt DEF Tolerated
<1>3. /\ StepTypes(c) /\ SavedStep(c)
      /\ \A y : At(c, y)' => <<"createInput", y>> \in Follows
    BY <1>2, Proceeds
<1>4. \A y : At(c, y)' => y = "openToWrite"
    BY <1>3 DEF Follows
<1>5. cache[c][InputOf[c]] = None /\ cache[c][Output] = None /\ found[c] = {}
    BY DEF Place, Early
<1>6. cache'[c][InputOf[c]] = None /\ cache'[c][Output] = None
    BY <1>1, <1>5, Names DEF Regular, Same, Dropped
<1>7. Place(c)'
    BY <1>4, <1>5, <1>6 DEF Place, Early
<1> QED
    BY <1>1, <1>3, <1>7, FoundSame DEF Outcome

LEMMA CreateOutcome ==
    ASSUME TypeInv, WorkTypes, InputsInv, NEW c \in Client, Place(c), CreateStep(c)
    PROVE  Outcome(c)
<1>1. CASE At(c, "createInput") /\ CreateFails(c, InputOf[c]) /\ Fail(c)
    BY <1>1, CreateInputOutcome DEF CreateStep
<1>2. CASE /\ At(c, "create")
           /\ \/ \E heard \in BOOLEAN : Create(c, Output, heard)
              \/ CreateFails(c, Output)
           /\ Proceed(c)
  <2>1. cache[c][Output] = None
      BY <1>2 DEF Place
  <2>2. LibWork(c)
      BY <1>2, <2>1, Names, CreateWork, CreateFailsWork
  <2>3. /\ StepTypes(c) /\ SavedStep(c)
        /\ \A y : At(c, y)' => <<"create", y>> \in Follows
      BY <1>2, Proceeds
  <2>4. \A y : At(c, y)' => y = "open"
      BY <2>3 DEF Follows
  <2>5. Place(c)'
      BY <2>4 DEF Place, Early
  <2> QED
      BY <2>2, <2>3, <2>5, FoundSame DEF Outcome, CreateStep
<1> QED
    BY <1>1, <1>2, FailAt DEF CreateStep, Tolerated

LEMMA OpenArgsAre ==
    ASSUME NEW c
    PROVE  /\ At(c, "openInput") => OpenArgs(c) = <<InputOf[c], READ>>
           /\ At(c, "openToWrite") => OpenArgs(c) = <<InputOf[c], WRITE>>
           /\ At(c, "open") => OpenArgs(c) = <<Output, WRITE>>
           /\ At(c, "reopen") => OpenArgs(c) = <<Output, READ>>
<1>1. \A x, y : At(c, x) /\ At(c, y) => x = y
    BY OneCall
<1> QED
    BY <1>1 DEF OpenArgs

(* Open calls the library in one of three ways.                            *)
OpenCalls(c, f, mode) ==
    \/ TestAuth(c, f, mode) /\ UNCHANGED step
    \/ /\ Open(c, f, mode, TRUE) \/ OpenValid(c, f, TRUE)
       /\ Proceed(c)
    \/ /\ \/ Open(c, f, mode, FALSE) \/ OpenValid(c, f, FALSE)
          \/ OpenFails(c, f, mode) \/ OpenValidFails(c, f)
          \/ AuthFails(c, f)
       /\ Fail(c)

LEMMA OpenStepCalls ==
    ASSUME NEW c \in Client, OpenStep(c)
    PROVE  /\ found' = found
           /\ \/ At(c, "openInput") /\ OpenCalls(c, InputOf[c], READ)
              \/ At(c, "openToWrite") /\ OpenCalls(c, InputOf[c], WRITE)
              \/ At(c, "open") /\ OpenCalls(c, Output, WRITE)
              \/ At(c, "reopen") /\ OpenCalls(c, Output, READ)
<1>1. PICK call \in {"openInput", "openToWrite", "open", "reopen"} : At(c, call)
    BY DEF OpenStep
<1>2. found' = found /\ OpenCalls(c, OpenArgs(c)[1], OpenArgs(c)[2])
    BY DEF OpenStep, OpenCalls
<1> QED
    BY <1>1, <1>2, OpenArgsAre

LEMMA OpenCallsWork ==
    ASSUME TypeInv, InputsInv, NEW c \in Client, NEW f \in {InputOf[c], Output},
           NEW mode \in Mode, OpenCalls(c, f, mode)
    PROVE  LibWork(c)
<1>1. f \in File
    BY Names
<1> QED
    BY <1>1, OpenWork, TestAuthWork, OpenValidWork, OpenFailsWork DEF OpenCalls

(* An input file is not in the cache before it is opened; to open it to be *)
(* written fails.                                                          *)
LEMMA OpenInputOutcome ==
    ASSUME TypeInv, WorkTypes, InputsInv, NEW c \in Client, Place(c), found' = found,
           \/ At(c, "openInput") /\ OpenCalls(c, InputOf[c], READ)
           \/ At(c, "openToWrite") /\ OpenCalls(c, InputOf[c], WRITE)
    PROVE  Outcome(c)
<1> DEFINE f == InputOf[c]
<1>1. f \in File /\ f \in Input /\ f # Output /\ Output \in File
      /\ READ \in Mode /\ WRITE \in Mode
    BY Names DEF Mode
<1>2. cache[c][f] = None /\ cache[c][Output] = None /\ found[c] = {}
    BY DEF Place, Early
<1>3. opening[c] # f
    BY <1>1, <1>2, NoneAssumption DEF TypeInv, Underway
<1> HIDE DEF f
<1>4. LibWork(c)
    BY <1>1, OpenCallsWork DEF f
<1>5. ASSUME NEW mode \in Mode, OpenCalls(c, f, mode)
      PROVE  \/ Open(c, f, mode, TRUE) /\ Proceed(c)
             \/ (Open(c, f, mode, FALSE) \/ OpenFails(c, f, mode)) /\ Fail(c)
    BY <1>1, <1>2, <1>3, <1>5
    DEF OpenCalls, TestAuth, AuthFails, NeedsAuth, InCache, OpenValid, OpenValidFails
<1>6. CASE At(c, "openInput") /\ OpenCalls(c, f, READ)
  <2>1. Proceed(c)
      BY <1>1, <1>5, <1>6, FailAt DEF Tolerated
  <2>2. /\ StepTypes(c) /\ SavedStep(c)
        /\ \A y : At(c, y)' => <<"openInput", y>> \in Follows
      BY <1>6, <2>1, Proceeds
  <2>3. \A y : At(c, y)' => y = "read"
      BY <2>2 DEF Follows
  <2>4. ~Fetched(f, READ).valid /\ ~Fetched(f, READ).dirty
      BY DEF Fetched
  <2>5. /\ cache'[c][f] # None => ~cache'[c][f].valid /\ ~cache'[c][f].dirty
        /\ Regular(c, f)
    <3>1. CASE Open(c, f, READ, TRUE) \/ Open(c, f, READ, FALSE)
        BY <1>1, <1>2, <2>4, <3>1, OpenRegular DEF Same, Dropped
    <3>2. CASE OpenFails(c, f, READ)
        BY <1>1, <1>2, <3>2, OpenFailsRegular DEF Same, Dropped
    <3> QED
        BY <1>1, <1>5, <1>6, <3>1, <3>2
  <2>6. cache'[c][Output] = None
      BY <1>1, <1>2, <2>5 DEF Regular
  <2>7. Place(c)'
      BY <1>2, <2>3, <2>5, <2>6 DEF Place, Early, f
  <2> QED
      BY <1>4, <2>2, <2>7, FoundSame DEF Outcome
<1>7. CASE At(c, "openToWrite") /\ OpenCalls(c, f, WRITE)
  <2>1. OpenFails(c, f, WRITE)
    <3>1. ~Opens(f, WRITE)
        BY <1>1 DEF Opens, READ, WRITE
    <3>2. \A heard \in BOOLEAN : ~Open(c, f, WRITE, heard)
        BY <3>1 DEF Open
    <3> QED
        BY <1>1, <1>5, <1>7, <3>2
  <2>2. Proceed(c)
      BY <1>1, <1>5, <1>7, FailAt DEF Tolerated
  <2>3. /\ StepTypes(c) /\ SavedStep(c)
        /\ \A y : At(c, y)' => <<"openToWrite", y>> \in Follows
      BY <1>7, <2>2, Proceeds
  <2>4. \A y : At(c, y)' => y = "openInput"
      BY <2>3 DEF Follows
  <2>5. cache'[c][f] = None /\ Regular(c, f)
      BY <1>1, <1>2, <2>1, OpenFailsRegular DEF Same, Dropped
  <2>6. cache'[c][Output] = None
      BY <1>1, <1>2, <2>5 DEF Regular
  <2>7. Place(c)'
      BY <1>2, <2>4, <2>5, <2>6 DEF Place, Early, f
  <2> QED
      BY <1>4, <2>3, <2>7, FoundSame DEF Outcome
<1> QED
    BY <1>6, <1>7 DEF f

(* An Open of the output file that succeeds leaves it open and clean.      *)
LEMMA OpenedOutput ==
    ASSUME TypeInv, NEW c \in Client, NEW mode \in Mode,
           Open(c, Output, mode, TRUE) \/ OpenValid(c, Output, TRUE)
    PROVE  /\ cache'[c][Output] # None
           /\ ~cache'[c][Output].closed /\ ~cache'[c][Output].dirty
<1>1. Output \in File
    BY Names
<1>2. CASE Open(c, Output, mode, TRUE)
  <2>1. cache'[c][Output] = Fetched(Output, mode)
      BY <1>1, <1>2, OpenRegular
  <2>2. /\ Fetched(Output, mode) \in CacheEntry
        /\ ~Fetched(Output, mode).closed /\ ~Fetched(Output, mode).dirty
      BY <1>1, NewEntries DEF Fetched
  <2> QED
      BY <2>1, <2>2, NoneAssumption
<1>3. CASE OpenValid(c, Output, TRUE)
  <2> DEFINE e == cache[c][Output]
  <2>1. /\ e \in CacheEntry /\ ~e.dirty /\ cache'[c][Output] = Reopened(e)
        /\ Regular(c, Output)
      BY <1>1, <1>3, OpenValidRegular
  <2>2. Len(fds) \in Nat
      BY DEF TypeInv, TypeOK
  <2>3. Reopened(e) \in CacheEntry /\ ~Reopened(e).closed /\ Reopened(e).dirty = e.dirty
      BY <2>1, <2>2 DEF Reopened, CacheEntry
  <2> HIDE DEF e
  <2> QED
      BY <2>1, <2>3, NoneAssumption
<1> QED
    BY <1>2, <1>3

LEMMA OpenOutputOutcome ==
    ASSUME TypeInv, WorkTypes, InputsInv, NEW c \in Client, Place(c), found' = found,
           \/ At(c, "open") /\ OpenCalls(c, Output, WRITE)
           \/ At(c, "reopen") /\ OpenCalls(c, Output, READ)
    PROVE  Outcome(c)
<1> DEFINE f == Output
<1>1. f \in File /\ READ \in Mode /\ WRITE \in Mode
    BY Names DEF Mode
<1>2. PICK mode \in Mode : OpenCalls(c, f, mode)
    BY <1>1
<1>3. LibWork(c)
    BY <1>1, <1>2, OpenCallsWork
<1>4. ~(At(c, "open") /\ At(c, "reopen"))
    BY OneCall
<1>5. CASE TestAuth(c, f, mode) /\ UNCHANGED step
  <2> DEFINE e == cache[c][f]
             new == [e EXCEPT !.valid = TRUE, !.mode = mode]
  <2>1. e \in CacheEntry /\ ~e.dirty /\ cache'[c][f] = new
      BY <1>1, <1>5, TestAuthRegular
  <2>2. new.dirty = e.dirty
      BY <2>1 DEF CacheEntry
  <2> HIDE DEF new, e
  <2>3. ~cache'[c][Output].dirty
      BY <2>1, <2>2
  <2>4. /\ StepTypes(c) /\ Closed(c)' = Closed(c)
        /\ \A y : At(c, y)' = At(c, y)
      BY <1>5 DEF WorkTypes, StepTypes, OnlyMoves, Closed, Done, At
  <2>5. SavedStep(c)
      BY <2>4 DEF SavedStep
  <2>6. \A y : At(c, y)' => y \in {"open", "reopen"}
      BY <2>4, OneCall
  <2>7. Place(c)'
      BY <2>3, <2>6 DEF Place, Early
  <2> QED
      BY <1>3, <2>4, <2>5, <2>7, FoundSame DEF Outcome
<1>6. CASE (Open(c, f, mode, TRUE) \/ OpenValid(c, f, TRUE)) /\ Proceed(c)
  <2>1. /\ cache'[c][Output] # None
        /\ ~cache'[c][Output].closed /\ ~cache'[c][Output].dirty
      BY <1>6, OpenedOutput
  <2>2. CASE At(c, "open")
    <3>1. /\ StepTypes(c) /\ SavedStep(c)
          /\ \A y : At(c, y)' => <<"open", y>> \in Follows
        BY <1>6, <2>2, Proceeds
    <3>2. \A y : At(c, y)' => y \in {"write", "append"}
        BY <3>1 DEF Follows
    <3>3. Place(c)'
        BY <2>1, <3>2 DEF Place, Early
    <3> QED
        BY <1>3, <3>1, <3>3, FoundSame DEF Outcome
  <2>3. CASE At(c, "reopen")
    <3>1. /\ StepTypes(c)
          /\ \A y : At(c, y)' => <<"reopen", y>> \in Follows
        BY <1>6, <2>3, ProceedTo DEF StepTypes
    <3>2. \A y : At(c, y)' => y = "check"
        BY <3>1 DEF Follows
    <3>3. SavedStep(c)
        BY <2>3 DEF SavedStep, Closed
    <3>4. Place(c)'
        BY <2>1, <3>2 DEF Place, Early
    <3> QED
        BY <1>3, <3>1, <3>3, <3>4, FoundSame DEF Outcome
  <2> QED
      BY <2>2, <2>3
<1>7. CASE Fail(c)
  <2>1. Stop(c)
      BY <1>7, FailAt DEF Tolerated
  <2> QED
      BY <1>3, <2>1, Stopped
<1> QED
    BY <1>2, <1>5, <1>6, <1>7 DEF OpenCalls

LEMMA OpenOutcome ==
    ASSUME TypeInv, WorkTypes, InputsInv, NEW c \in Client, Place(c), OpenStep(c)
    PROVE  Outcome(c)
BY OpenStepCalls, OpenInputOutcome, OpenOutputOutcome

-----------------------------------------------------------------------------
(* What is read is what the input file has held from the start.            *)
LEMMA ReadInputOutcome ==
    ASSUME TypeInv, WorkTypes, InputsInv, NEW c \in Client, Place(c),
           At(c, "read"), ReadStep(c)
    PROVE  Outcome(c)
<1> DEFINE f == InputOf[c]
<1>1. f \in File /\ f \in Input /\ f # Output /\ Output \in File
    BY Names
<1>2. /\ cache[c][f] # None => ~cache[c][f].valid /\ ~cache[c][f].dirty
      /\ cache[c][Output] = None /\ found[c] = {}
    BY DEF Place
<1>3. ~At(c, "check")
    BY OneCall
<1>4. ~ReadFile(c, f)
    BY <1>2 DEF ReadFile, InCache
<1> HIDE DEF f
<1>5. CASE /\ Read(c, f)
           /\ found' = [found EXCEPT ![c] = PrimesIn(cache'[c][f].data)]
           /\ Proceed(c)
  <2>1. ~cache[c][f].dirty
      BY <1>2, <1>5 DEF Read, InCache
  <2>2. LibWork(c) /\ Regular(c, f) /\ cache'[c][f].data = content[f]
      BY <1>1, <1>5, <2>1, ReadWork
  <2>3. content[f] = Listing[f] /\ Listing[f] \subseteq Number
      BY <1>1, CacheAssumption DEF InputsInv
  <2>4. found'[c] = PrimesIn(Listing[f]) /\ found' = [found EXCEPT ![c] = PrimesIn(Listing[f])]
      BY <1>5, <2>2, <2>3 DEF WorkTypes
  <2>5. PrimesIn(Listing[f]) \subseteq Listing[f]
        /\ \A n \in PrimesIn(Listing[f]) : Parses(n) /\ IsPrime(n)
      BY DEF PrimesIn
  <2>6. FoundStep(c)
      BY <1>2, <2>3, <2>4, <2>5 DEF FoundStep, WorkTypes
  <2>7. /\ StepTypes(c) /\ SavedStep(c)
        /\ \A y : At(c, y)' => <<"read", y>> \in Follows
      BY <1>5, Proceeds
  <2>8. \A y : At(c, y)' => y = "create"
      BY <2>7 DEF Follows
  <2>9. cache'[c][Output] = None
      BY <1>1, <1>2, <2>2 DEF Regular
  <2>10. Place(c)'
      BY <2>4, <2>8, <2>9 DEF Place, Early, f
  <2> QED
      BY <2>2, <2>6, <2>7, <2>10 DEF Outcome
<1>6. CASE (LeaseExpires(c, f) \/ ReadFails(c, f)) /\ Fail(c) /\ UNCHANGED found
  <2>1. Stop(c)
      BY <1>6, FailAt DEF Tolerated
  <2>2. LibWork(c)
      BY <1>1, <1>6, ReadFileWork
  <2> QED
      BY <1>6, <2>1, <2>2, Stopped
<1> QED
    BY <1>3, <1>4, <1>5, <1>6 DEF ReadStep, f

LEMMA CheckOutcome ==
    ASSUME TypeInv, WorkTypes, InputsInv, NEW c \in Client, Place(c),
           At(c, "check"), ReadStep(c)
    PROVE  Outcome(c)
<1>1. Output \in File /\ ~At(c, "read")
    BY Names, OneCall
<1>2. cache[c][Output] # None => ~cache[c][Output].dirty
    BY DEF Place
<1>3. found' = found
    BY <1>1 DEF ReadStep
<1>4. CASE (Read(c, Output) \/ ReadFile(c, Output)) /\ Proceed(c)
  <2>1. LibWork(c)
      BY <1>1, <1>2, <1>4, ReadWork, ReadFileWork DEF Read, InCache
  <2>2. /\ StepTypes(c)
        /\ \A y : At(c, y)' => <<"check", y>> \in Follows
      BY <1>4, ProceedTo DEF StepTypes
  <2>3. \A y : ~At(c, y)'
      BY <2>2 DEF Follows
  <2>4. SavedStep(c)
      BY <1>3 DEF SavedStep, Closed
  <2>5. Place(c)'
      BY <2>3 DEF Place
  <2> QED
      BY <1>3, <2>1, <2>2, <2>4, <2>5, FoundSame DEF Outcome
<1>5. CASE (LeaseExpires(c, Output) \/ ReadFails(c, Output)) /\ Fail(c)
  <2>1. Stop(c)
      BY <1>5, FailAt DEF Tolerated
  <2>2. LibWork(c)
      BY <1>1, <1>5, ReadFileWork
  <2> QED
      BY <1>3, <2>1, <2>2, Stopped
<1> QED
    BY <1>1, <1>4, <1>5 DEF ReadStep

LEMMA WriteOutcome ==
    ASSUME TypeInv, WorkTypes, InputsInv, NEW c \in Client, Place(c), WriteStep(c)
    PROVE  Outcome(c)
<1>1. PICK keep \in BOOLEAN : Change(c, Output, found[c], keep)
    BY DEF WriteStep, WriteFile, AppendFile
<1>2. PICK x \in {"write", "append"} : At(c, x)
    BY DEF WriteStep
<1>3. Proceed(c) /\ found' = found
    BY DEF WriteStep
<1>4. cache[c][Output] # None /\ ~cache[c][Output].closed
    BY <1>2 DEF Place
<1>5. /\ LibWork(c) /\ cache'[c][Output] \in CacheEntry
      /\ found[c] \subseteq cache'[c][Output].data /\ cache'[c][Output].dirty
      /\ ~cache'[c][Output].closed
    BY <1>1, <1>4, ChangeWork
<1>6. /\ StepTypes(c) /\ SavedStep(c)
      /\ \A y : At(c, y)' => <<x, y>> \in Follows
    BY <1>2, <1>3, Proceeds
<1>7. \A y : At(c, y)' => y = "close"
    BY <1>2, <1>6 DEF Follows
<1>8. Place(c)'
    BY <1>3, <1>5, <1>7, NoneAssumption DEF Place, Early
<1> QED
    BY <1>3, <1>5, <1>6, <1>8, FoundSame DEF Outcome

(* What a program saves is in the output file, with all that was in the    *)
(* prime set.                                                              *)
LEMMA CloseOutcome ==
    ASSUME TypeInv, WorkTypes, InputsInv, NEW c \in Client, Place(c), CloseStep(c)
    PROVE  Outcome(c)
<1>1. At(c, "close") /\ found' = found
    BY DEF CloseStep
<1>2. /\ ~cache[c][Output].closed /\ cache[c][Output].dirty
      /\ found[c] \subseteq cache[c][Output].data
    BY <1>1 DEF Place
<1>3. CASE Close(c, Output, TRUE) /\ Proceed(c)
  <2>1. /\ LibWork(c) /\ Output \in exists' /\ primes'[Output] = content'[Output]
        /\ content'[Output] = primes[Output] \cup cache[c][Output].data
        /\ ~cache'[c][Output].dirty
      BY <1>2, <1>3, CloseWork
  <2>2. SavedStep(c)
      BY <1>1, <1>2, <2>1 DEF SavedStep
  <2>3. /\ StepTypes(c)
        /\ \A y : At(c, y)' => <<"close", y>> \in Follows
      BY <1>1, <1>3, ProceedTo DEF StepTypes
  <2>4. \A y : At(c, y)' => y = "reopen"
      BY <2>3 DEF Follows
  <2>5. Place(c)'
      BY <2>1, <2>4 DEF Place, Early
  <2> QED
      BY <1>1, <2>1, <2>2, <2>3, <2>5, FoundSame DEF Outcome
<1>4. CASE /\ \/ Close(c, Output, FALSE) \/ Refused(c, Output)
              \/ Freezes(c, Output) \/ CloseLost(c)
           /\ Fail(c)
  <2>1. Stop(c)
      BY <1>1, <1>4, FailAt DEF Tolerated
  <2>2. LibWork(c)
      BY <1>2, <1>4, CloseWork, CloseFailsWork
  <2> QED
      BY <1>1, <2>1, <2>2, Stopped
<1> QED
    BY <1>3, <1>4 DEF CloseStep

LEMMA WorkOutcome ==
    ASSUME TypeInv, WorkTypes, InputsInv, NEW c \in Client, Place(c), Work(c)
    PROVE  Outcome(c)
<1>1. CASE ReadStep(c)
    BY <1>1, ReadInputOutcome, CheckOutcome DEF ReadStep
<1> QED
    BY <1>1, DialOutcome, CreateOutcome, OpenOutcome, WriteOutcome, CloseOutcome
    DEF Work

-----------------------------------------------------------------------------
(* The invariants, step by step.                                           *)
(* The others, their programs included, keep what they have.               *)
Aside(c) == /\ primary' = primary
            /\ \A d \in Client \ {c} : /\ cache'[d] = cache[d] /\ step'[d] = step[d]
                                       /\ found'[d] = found[d]

LEMMA WorkAside ==
    ASSUME TypeInv, NEW c \in Client, Outcome(c)
    PROVE  /\ Aside(c)
           /\ CarefulNext \/ UNCHANGED vars
<1>1. LibraryStep(c) /\ OnlyMoves(c) /\ \A d \in Client \ {c} : found'[d] = found[d]
    BY DEF Outcome, LibWork, StepTypes, FoundStep
<1>2. CarefulNext \/ UNCHANGED vars
    BY <1>1 DEF LibraryStep, CarefulNext
<1>3. primary' = primary /\ \A d \in Client \ {c} : cache'[d] = cache[d]
  <2>1. ASSUME NEW f \in File, CarefulCall(c, f)
        PROVE  primary' = primary /\ \A d \in Client \ {c} : cache'[d] = cache[d]
      BY <2>1, CarefulIsAny, CallRegular DEF Regular, ServerTypes, OthersKeep
  <2> QED
      BY <1>1, <2>1 DEF LibraryStep, Dials, vars, serverVars, clientVars
<1> QED
    BY <1>1, <1>2, <1>3 DEF Aside, OnlyMoves

LEMMA OutcomeTypes ==
    ASSUME WorkTypes, NEW c \in Client, Outcome(c)
    PROVE  WorkTypes'
BY DEF Outcome, StepTypes, FoundStep, OnlyMoves, WorkTypes

LEMMA OutcomePlace ==
    ASSUME TypeInv, PlaceInv, NEW c \in Client, Outcome(c)
    PROVE  PlaceInv'
<1> SUFFICES ASSUME NEW d \in Client, d # c PROVE Place(d)'
    BY DEF PlaceInv, Outcome
<1>1. cache'[d] = cache[d] /\ step'[d] = step[d] /\ found'[d] = found[d]
    BY WorkAside DEF Aside
<1>2. \A x : At(d, x)' <=> At(d, x)
    BY <1>1 DEF At
<1>3. Place(d)
    BY DEF PlaceInv
<1> QED
    BY <1>1, <1>2, <1>3 DEF Place

LEMMA OutcomeInputs ==
    ASSUME InputsInv, NEW c \in Client, Outcome(c)
    PROVE  InputsInv'
BY DEF Outcome, LibWork, ServerWork, InputsInv

LEMMA OutcomeFound ==
    ASSUME TypeInv, FoundInv, NEW c \in Client, Outcome(c)
    PROVE  FoundInv'
<1>1. /\ FoundStep(c) /\ ServerWork(c) /\ OutputData(c) /\ Aside(c)
    BY WorkAside DEF Outcome, LibWork
<1>2. \A d \in Client : found[d] \subseteq found'[d]
    BY <1>1 DEF FoundStep
<1>3. Found \subseteq Found' /\ found[c] \subseteq Found
    BY <1>2 DEF Found
<1>4. \A d \in Client : \A n \in found'[d] : Parses(n) /\ IsPrime(n)
    BY <1>1 DEF FoundStep, FoundInv
<1>5. ASSUME Listing[Output] = {}
      PROVE  /\ content'[Output] \cup primes'[Output] \subseteq Found'
             /\ \A d \in Client : cache'[d][Output] # None =>
                   cache'[d][Output].data \subseteq Found'
  <2>1. /\ content[Output] \cup primes[Output] \subseteq Found
        /\ \A d \in Client : cache[d][Output] # None =>
              cache[d][Output].data \subseteq Found
      BY <1>5 DEF FoundInv
  <2>2. content'[Output] \cup primes'[Output] \subseteq Found
    <3>1. \/ content'[Output] = content[Output] /\ primes'[Output] = primes[Output]
          \/ content'[Output] = {} /\ primes'[Output] = primes[Output]
          \/ /\ cache[c][Output] # None
             /\ content'[Output] = primes[Output] \cup cache[c][Output].data
             /\ primes'[Output] = content'[Output]
        BY <1>1 DEF ServerWork
    <3> QED
        BY <2>1, <3>1
  <2>3. ASSUME NEW d \in Client, cache'[d][Output] # None,
               NEW n \in cache'[d][Output].data
        PROVE  n \in Found
    <3>1. CASE d = c
        BY <1>1, <1>3, <2>1, <2>3, <3>1 DEF OutputData
    <3>2. CASE d # c
        BY <1>1, <2>1, <2>3, <3>2 DEF Aside
    <3> QED
        BY <3>1, <3>2
  <2> QED
      BY <1>3, <2>2, <2>3
<1> QED
    BY <1>4, <1>5 DEF FoundInv

(* The prime set only grows while the primary stays, and a Close stores    *)
(* all of it.                                                              *)
LEMMA OutcomeSaved ==
    ASSUME TypeInv, SavedInv, NEW c \in Client, Outcome(c)
    PROVE  SavedInv'
<1>1. /\ SavedStep(c) /\ ServerWork(c) /\ Aside(c)
    BY WorkAside DEF Outcome, LibWork
<1> SUFFICES ASSUME primary = 1, NEW d \in Client, Closed(d)'
             PROVE  /\ Output \in exists'
                    /\ found'[d] \subseteq content'[Output] \cap primes'[Output]
    BY <1>1 DEF SavedInv, Aside
<1>2. CASE Closed(d) /\ found'[d] = found[d]
  <2>1. /\ Output \in exists
        /\ found[d] \subseteq content[Output] \cap primes[Output]
      BY <1>2 DEF SavedInv
  <2>2. /\ exists \subseteq exists'
        /\ \/ content'[Output] = content[Output] /\ primes'[Output] = primes[Output]
           \/ /\ content'[Output] = primes[Output] \cup cache[c][Output].data
              /\ primes'[Output] = content'[Output]
      BY <1>1, <2>1 DEF ServerWork
  <2> QED
      BY <1>2, <2>1, <2>2
<1>3. CASE d # c
  <2>1. step'[d] = step[d] /\ found'[d] = found[d]
      BY <1>1, <1>3 DEF Aside
  <2>2. Closed(d)
      BY <2>1 DEF Closed, Done, At
  <2> QED
      BY <1>2, <2>1, <2>2
<1>4. CASE d = c
    BY <1>1, <1>2, <1>4 DEF SavedStep
<1> QED
    BY <1>3, <1>4

ProgramInv == WorkTypes /\ PlaceInv /\ InputsInv /\ FoundInv /\ SavedInv

LEMMA FailoverKeeps ==
    ASSUME TypeInv, ProgramInv, Failover, UNCHANGED workerVars
    PROVE  ProgramInv'
<1>1. /\ step' = step /\ found' = found /\ cache' = cache
      /\ content' = content /\ fds' = <<>>
      /\ primes' = [f \in File |-> {}] /\ primary' = primary + 1
    BY DEF Failover, workerVars, clientVars
<1>2. WorkTypes'
    BY <1>1 DEF ProgramInv, WorkTypes
<1>3. PlaceInv'
  <2> SUFFICES ASSUME NEW c \in Client PROVE Place(c)'
      BY DEF PlaceInv
  <2>1. Place(c) /\ \A x : At(c, x)' <=> At(c, x)
      BY <1>1 DEF ProgramInv, PlaceInv, At
  <2> QED
      BY <1>1, <2>1 DEF Place
<1>4. InputsInv'
    BY <1>1 DEF ProgramInv, InputsInv
<1>5. FoundInv'
  <2>1. Found' = Found /\ primes'[Output] = {}
      BY <1>1, Names DEF Found
  <2> QED
      BY <1>1, <2>1 DEF ProgramInv, FoundInv
<1>6. primary' # 1
    BY <1>1 DEF TypeInv, TypeOK
<1>7. SavedInv'
    BY <1>6 DEF SavedInv
<1> QED
    BY <1>2, <1>3, <1>4, <1>5, <1>7 DEF ProgramInv

LEMMA ProgramNext ==
    ASSUME TypeInv, ProgramInv, [WorkersNext]_<<vars, workerVars>>
    PROVE  /\ ProgramInv'
           /\ CarefulNext \/ UNCHANGED vars
<1>1. ASSUME NEW c \in Client, Work(c)
      PROVE  ProgramInv' /\ (CarefulNext \/ UNCHANGED vars)
  <2>1. Outcome(c)
      BY <1>1, WorkOutcome DEF ProgramInv, PlaceInv
  <2> QED
      BY <2>1, WorkAside, OutcomeTypes, OutcomePlace, OutcomeInputs, OutcomeFound,
         OutcomeSaved DEF ProgramInv
<1>2. CASE Failover /\ UNCHANGED workerVars
    BY <1>2, FailoverKeeps DEF CarefulNext
<1>3. CASE UNCHANGED <<vars, workerVars>>
  <2>1. UNCHANGED vars /\ UNCHANGED workerVars
      BY <1>3
  <2>2. /\ UNCHANGED <<primary, exists, content, primes, fds, cache>>
        /\ step' = step /\ found' = found
      BY <2>1 DEF vars, serverVars, clientVars, workerVars
  <2>3. \A c : /\ \A x : At(c, x)' <=> At(c, x)
               /\ Closed(c)' <=> Closed(c)
      BY <2>2 DEF At, Closed, Done
  <2>4. WorkTypes' /\ InputsInv' /\ Found' = Found
      BY <2>2 DEF ProgramInv, WorkTypes, InputsInv, Found
  <2>5. FoundInv'
      BY <2>2, <2>4 DEF ProgramInv, FoundInv
  <2>6. SavedInv'
      BY <2>2, <2>3 DEF ProgramInv, SavedInv
  <2>7. PlaceInv'
    <3> SUFFICES ASSUME NEW c \in Client PROVE Place(c)'
        BY DEF PlaceInv
    <3>1. Place(c)
        BY DEF ProgramInv, PlaceInv
    <3> QED
        BY <2>2, <2>3, <3>1 DEF Place
  <2> QED
      BY <2>1, <2>4, <2>5, <2>6, <2>7 DEF ProgramInv
<1> QED
    BY <1>1, <1>2, <1>3 DEF WorkersNext

LEMMA ProgramInit == WorkersInit => ProgramInv
<1> SUFFICES ASSUME WorkersInit PROVE ProgramInv
    OBVIOUS
<1>1. /\ content = Listing /\ primes = [f \in File |-> {}] /\ fds = <<>>
      /\ cache = [c \in Client |-> [f \in File |-> None]]
      /\ step = [c \in Client |-> 1] /\ found = [c \in Client |-> {}]
    BY DEF WorkersInit, Init
<1>2. \A c \in Client : step[c] = 1 /\ found[c] = {} /\ cache[c][Output] = None
                        /\ cache[c][InputOf[c]] = None
    BY <1>1, Names
<1>3. \A c \in Client : /\ Len(Script(c)) \in Nat /\ Len(Script(c)) > 0
                        /\ DOMAIN Script(c) = 1..Len(Script(c))
                        /\ Script(c)[1] = "dial"
    BY ScriptOrder
<1>4. \A c \in Client : ~Done(c) /\ \A x : At(c, x) => x = "dial"
    BY <1>2, <1>3 DEF At, Done
<1>5. WorkTypes
  <2>1. step \in [Client -> Nat] /\ found \in [Client -> SUBSET Number]
      BY <1>1
  <2>2. \A c \in Client : step[c] \in 0 .. Len(Script(c)) + 1
      BY <1>2, <1>3
  <2> QED
      BY <2>1, <2>2 DEF WorkTypes
<1>6. PlaceInv
  <2> SUFFICES ASSUME NEW c \in Client PROVE Place(c)
      BY DEF PlaceInv
  <2> QED
      BY <1>2, <1>4 DEF Place, Early
<1>7. InputsInv
    BY <1>1 DEF InputsInv
<1>8. FoundInv
    BY <1>1, <1>2, Names DEF FoundInv
<1>9. SavedInv
    BY <1>4 DEF SavedInv, Closed
<1> QED
    BY <1>5, <1>6, <1>7, <1>8, <1>9 DEF ProgramInv

WorkersInv == TypeInv /\ DataInv /\ AttachedInv /\ ProgramInv

LEMMA WorkersAlways == WorkersSpec => []WorkersInv
<1>1. WorkersInit => WorkersInv
    BY ProgramInit, TypeInit, DataInit, AttachedInit DEF WorkersInit, WorkersInv
<1>2. WorkersInv /\ [WorkersNext]_<<vars, workerVars>> => WorkersInv'
    BY ProgramNext, CarefulIsAny, TypeNext, DataNext, AttachedNext DEF WorkersInv
<1> QED
    BY <1>1, <1>2, PTL DEF WorkersSpec

-----------------------------------------------------------------------------
(* The variables of the programs have their types.                         *)
THEOREM WorkersTypesCorrect == WorkersSpec => []WorkersTypeOK
<1>1. WorkersInv => WorkersTypeOK
    BY DEF WorkersInv, TypeInv, ProgramInv, WorkTypes, WorkersTypeOK
<1> QED
    BY <1>1, WorkersAlways, PTL

(* The scripts are careful by themselves: what Careful is assumed for of   *)
(* the library's users holds of the programs, whatever Careful says.       *)
THEOREM ProgramsReadCleanCopies == WorkersSpec => []NoDirtyRead
<1>1. WorkersInv => NoDirtyRead
    BY DataCorrect DEF WorkersInv
<1> QED
    BY <1>1, WorkersAlways, PTL

(* Nor does a program freeze the server, or use a descriptor that is not   *)
(* its own, as long as nothing fails.                                      *)
THEOREM ProgramsStayRegistered == WorkersSpec => []OpenIsRegistered
<1>1. WorkersInv => OpenIsRegistered
    BY AttachedCorrect DEF WorkersInv
<1> QED
    BY <1>1, WorkersAlways, PTL

(* While the primary stays, no Close takes out of the output file what     *)
(* another program had saved there.                                        *)
THEOREM NoCloseTakesOut == WorkersSpec => []SavedTogether
<1>1. WorkersInv => SavedTogether
    BY DEF WorkersInv, ProgramInv, SavedInv, SavedTogether
<1> QED
    BY <1>1, WorkersAlways, PTL

(* Where the prime test takes no other number for a prime, and the output  *)
(* file starts empty, it holds primes of the input files and nothing else, *)
(* whichever programs ran and wherever they failed.                        *)
THEOREM OnlyPrimesAreStored ==
    ASSUME \A n \in Number : Parses(n) /\ IsPrime(n) => Prime(n),
           Listing[Output] = {}
    PROVE  WorkersSpec => []OnlyPrimesStored
<1>1. ASSUME WorkersInv, NEW n \in content[Output]
      PROVE  Prime(n) /\ \E c \in Client : n \in found[c]
  <2>1. PICK c \in Client : n \in found[c]
      BY <1>1 DEF WorkersInv, ProgramInv, FoundInv, Found
  <2>2. n \in Number /\ Parses(n) /\ IsPrime(n)
      BY <1>1, <2>1 DEF WorkersInv, ProgramInv, FoundInv, WorkTypes
  <2> QED
      BY <2>1, <2>2
<1>2. WorkersInv => OnlyPrimesStored
    BY <1>1 DEF OnlyPrimesStored
<1> QED
    BY <1>2, WorkersAlways, PTL

-----------------------------------------------------------------------------
(* The products of the prime test: of numbers below the modulus they are   *)
(* exact, although they take two words, and Div64 does not panic, whatever *)
(* the width of a word.  modExp and check multiply no others.  (That 2^w   *)
(* is a positive number takes induction, hence the hypothesis.)            *)
THEOREM ProductsAreExact ==
    ASSUME Radix \in Nat \ {0}, NEW mod \in 1 .. Radix - 1,
           NEW a \in 0 .. mod - 1, NEW b \in 0 .. mod - 1
    PROVE  /\ mulMod(a, b, mod) = (a * b) % mod
           /\ mulMod(a, b, mod) \in 0 .. mod - 1
<1> DEFINE p == a * b
           hi == p \div Radix
           lo == p % Radix
<1>1. p \in Nat
  <2>1. a \in Nat /\ b \in Nat
      OBVIOUS
  <2> QED
      BY <2>1
<1>2. p <= (mod - 1) * Radix
  <2>1. a * b <= (mod - 1) * b
      OBVIOUS
  <2>2. (mod - 1) * b <= (mod - 1) * Radix
      OBVIOUS
  <2>3. (mod - 1) * b \in Int /\ (mod - 1) * Radix \in Int
      OBVIOUS
  <2> QED
      BY <1>1, <2>1, <2>2, <2>3
<1> HIDE DEF p
<1>3. hi \in Nat /\ lo \in 0 .. Radix - 1 /\ hi * Radix + lo = p
    BY <1>1
<1> HIDE DEF hi, lo
<1>4. hi < mod
  <2> SUFFICES ASSUME mod <= hi PROVE FALSE
      BY <1>3
  <2>1. mod * Radix <= hi * Radix
      BY <1>3
  <2>2. (mod - 1) * Radix = mod * Radix - Radix
      OBVIOUS
  <2>3. mod * Radix \in Int /\ hi * Radix \in Int
      BY <1>3
  <2> QED
      BY <1>1, <1>2, <1>3, <2>1, <2>2, <2>3
<1>5. mulMod(a, b, mod) = p % mod
    BY <1>3, <1>4 DEF mulMod, Mul64, Div64, p, hi, lo
<1>6. p % mod \in 0 .. mod - 1
    BY <1>1
<1> QED
    BY <1>5, <1>6 DEF p
=============================================================================
