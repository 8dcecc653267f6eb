-------------------------- MODULE ClientCacheProofs --------------------------
(***************************************************************************)
(* The client cache, for any clients, files, numbers and limits: types,    *)
(* the cache and its list, and, for programs that are careful, that        *)
(* unsaved data is kept, that numbers stay in their file, that a valid     *)
(* copy holds nothing the server has not held, and that open files are     *)
(* open on the server.                                                     *)
(***************************************************************************)
EXTENDS ClientCache, FiniteSetTheorems, SequenceTheorems, TLAPS

-----------------------------------------------------------------------------
(* The file of an Open between its two calls is cached, and not dirty.     *)
Underway == \A c \in Client : opening[c] # None =>
                /\ cache[c][opening[c]] # None
                /\ ~cache[c][opening[c]].dirty

TypeInv == TypeOK /\ Underway

(* The list of a cache.                                                    *)
Distinct(q) == \A i, j \in DOMAIN q : q[i] = q[j] => i = j
Lists(q, f) == \E i \in DOMAIN q : q[i] = f

Named(entries) == {f \in File : entries[f] # None}
Tidy(entries, q) == /\ IsFiniteSet(Named(entries))
                    /\ Cardinality(Named(entries)) <= maxCacheEntries
                    /\ Distinct(q)
                    /\ \A f \in Named(entries) : Lists(q, f)

ListInv == \A c \in Client : Tidy(cache[c], lru[c])

(* What may be in a file, and in copies of it.                             *)
Home(f) == Numbers(f) \cup Listing[f]

(* Descriptor fd was made for client c and file f.                         *)
Owned(descriptors, fd, c, f) == /\ fd + 1 \in DOMAIN descriptors
                                /\ descriptors[fd + 1].client = c
                                /\ descriptors[fd + 1].file = f

(* What holds of the server's files, of those that were deleted, and of an *)
(* entry e for file f in the cache of client c, as long as the primary     *)
(* stays.                                                                  *)
FilesInv ==
    \A f \in File : content[f] \subseteq Home(f) \cap shown[f] /\ primes[f] \subseteq Home(f)

RemovedInv ==
    \A d \in DOMAIN fds : fds[d].removed # None =>
        fds[d].removed \subseteq Home(fds[d].file) \cap shown[fds[d].file]

Sound(descriptors, held, e, c, f) ==
    /\ e.valid => ~e.dirty
    /\ e.data \subseteq Home(f)
    /\ ~e.dirty => e.data \subseteq held
    /\ ~e.closed => Owned(descriptors, e.fd, c, f)

DataInv ==
    primary = 1 =>
        /\ FilesInv /\ RemovedInv
        /\ \A c \in Client : \A f \in InCache(c) :
                Sound(fds, shown[f], cache[c][f], c, f)

(* And as long as nothing fails.                                           *)
Attached(descriptors, e) ==
    ~e.closed => /\ descriptors[e.fd + 1].open
                 /\ e.dirty \/ e.mode = WRITE => descriptors[e.fd + 1].mode = WRITE

AttachedInv ==
    faults = 0 =>
        /\ primary = 1 /\ ~frozen
        /\ \A c \in Client : \A f \in InCache(c) : Attached(fds, cache[c][f])

-----------------------------------------------------------------------------
(* Lists.                                                                  *)
LEMMA LeastNatural ==
    ASSUME NEW S \in SUBSET Nat, S # {}
    PROVE  Min(S) \in S /\ \A n \in S : Min(S) <= n
<1> DEFINE Below == {0..n : n \in S}
<1>1. Below \subseteq FiniteSubsetsOf(Nat) /\ Below # {}
  <2>1. \A n \in S : 0..n \in SUBSET Nat /\ IsFiniteSet(0..n)
      BY FS_Interval
  <2> QED
      BY <2>1 DEF FiniteSubsetsOf
<1>2. PICK B \in Below : \A C \in Below : <<C, B>> \notin StrictSubsetOrdering(Nat)
  <2>1. IsWellFoundedOn(StrictSubsetOrdering(Nat), FiniteSubsetsOf(Nat))
      BY FS_StrictSubsetOrderingWellFounded
  <2> HIDE DEF Below
  <2> QED
      BY <1>1, <2>1, WFMin
<1>3. PICK m \in S : B = 0..m
    BY <1>2
<1>4. ASSUME NEW n \in S, n < m PROVE FALSE
  <2>1. 0..n \in Below /\ 0..n \in SUBSET Nat /\ 0..m \in SUBSET Nat
      OBVIOUS
  <2>2. 0..n \subseteq 0..m /\ 0..n # 0..m
      BY <1>4
  <2>3. <<0..n, 0..m>> \in StrictSubsetOrdering(Nat)
      BY <2>1, <2>2 DEF StrictSubsetOrdering
  <2> QED
      BY <1>2, <1>3, <2>1, <2>3
<1>5. \A n \in S : m <= n
    BY <1>4
<1> QED
    BY <1>5 DEF Min

LEMMA GreatestOfInterval ==
    ASSUME NEW n \in Nat, NEW S \in SUBSET (1..n), S # {}
    PROVE  Max(S) \in S
<1> DEFINE T == {n - s : s \in S}
<1>1. T \in SUBSET Nat /\ T # {}
  <2>1. ASSUME NEW s \in S PROVE n - s \in Nat
    <3>1. s \in 1..n
        OBVIOUS
    <3> HIDE DEF T
    <3> QED
        BY <3>1
  <2>2. PICK s \in S : TRUE
      OBVIOUS
  <2>3. n - s \in T
      OBVIOUS
  <2>4. T \subseteq Nat
      BY <2>1
  <2> QED
      BY <2>3, <2>4
<1>2. Min(T) \in T /\ \A t \in T : Min(T) <= t
    BY <1>1, LeastNatural
<1>3. PICK m \in S : Min(T) = n - m
    BY <1>2
<1>4. \A s \in S : s <= m
  <2> TAKE s \in S
  <2>1. n - m <= n - s
      BY <1>2, <1>3
  <2> QED
      BY <2>1
<1>5. \A s \in S : m >= s
    BY <1>4
<1> QED
    BY <1>5 DEF Max

LEMMA RemoveAtProperties ==
    ASSUME NEW q \in Seq(File), NEW i \in 1..Len(q)
    PROVE  /\ RemoveAt(q, i) \in Seq(File)
           /\ Len(RemoveAt(q, i)) = Len(q) - 1
           /\ \A j \in 1..(Len(q) - 1) :
                RemoveAt(q, i)[j] = IF j < i THEN q[j] ELSE q[j + 1]
<1> DEFINE a == SubSeq(q, 1, i - 1)
           b == SubSeq(q, i + 1, Len(q))
<1>1. Len(q) \in Nat /\ \A j \in 1..Len(q) : q[j] \in File
    BY ElementOfSeq
<1>2. /\ a \in Seq(File) /\ Len(a) = i - 1
      /\ \A j \in 1..(i - 1) : a[j] = q[j]
    BY <1>1
<1>3. /\ b \in Seq(File) /\ Len(b) = Len(q) - i
      /\ \A j \in 1..(Len(q) - i) : b[j] = q[i + j]
    BY <1>1
<1>4. RemoveAt(q, i) = a \o b
    BY DEF RemoveAt
<1> HIDE DEF a, b
<1>5. /\ a \o b \in Seq(File) /\ Len(a \o b) = Len(a) + Len(b)
      /\ \A j \in 1..(Len(a) + Len(b)) :
            (a \o b)[j] = IF j <= Len(a) THEN a[j] ELSE b[j - Len(a)]
    BY <1>2, <1>3, ConcatProperties
<1>6. ASSUME NEW j \in 1..(Len(q) - 1)
      PROVE  (a \o b)[j] = IF j < i THEN q[j] ELSE q[j + 1]
  <2>1. /\ j \in 1..(Len(a) + Len(b)) /\ i \in Int /\ j \in Int
        /\ j < i <=> j <= Len(a)
      BY <1>1, <1>2, <1>3
  <2>2. CASE j < i
      BY <1>2, <1>5, <2>1, <2>2
  <2>3. CASE ~(j < i)
    <3>1. j - Len(a) \in 1..(Len(q) - i) /\ i + (j - Len(a)) = j + 1
        BY <1>1, <1>2, <2>1, <2>3
    <3>2. b[j - Len(a)] = q[j + 1]
        BY <1>3, <3>1
    <3> QED
        BY <1>5, <2>1, <2>3, <3>2
  <2> QED
      BY <2>2, <2>3
<1> QED
    BY <1>1, <1>2, <1>3, <1>4, <1>5, <1>6

(* What is left after one element is taken out of a list.                  *)
LEMMA RemoveAtLists ==
    ASSUME NEW q \in Seq(File), NEW i \in DOMAIN q, Distinct(q)
    PROVE  /\ RemoveAt(q, i) \in Seq(File)
           /\ Distinct(RemoveAt(q, i)) /\ ~Lists(RemoveAt(q, i), q[i])
           /\ \A f : f # q[i] /\ Lists(q, f) => Lists(RemoveAt(q, i), f)
<1> DEFINE r == RemoveAt(q, i)
<1>1. i \in 1..Len(q) /\ DOMAIN q = 1..Len(q) /\ Len(q) \in Nat
    OBVIOUS
<1>2. /\ r \in Seq(File) /\ Len(r) = Len(q) - 1
      /\ \A j \in 1..(Len(q) - 1) : r[j] = IF j < i THEN q[j] ELSE q[j + 1]
    BY <1>1, RemoveAtProperties
<1> HIDE DEF r
<1>3. DOMAIN r = 1..(Len(q) - 1)
    BY <1>2
<1>4. Distinct(r)
  <2>1. ASSUME NEW j \in DOMAIN r, NEW k \in DOMAIN r, r[j] = r[k] PROVE j = k
    <3> DEFINE from(n) == IF n < i THEN n ELSE n + 1
    <3>1. /\ from(j) \in DOMAIN q /\ from(k) \in DOMAIN q
          /\ from(j) = from(k) => j = k
        BY <1>1, <1>3
    <3>2. r[j] = q[from(j)] /\ r[k] = q[from(k)]
        BY <1>2, <1>3
    <3> QED
        BY <2>1, <3>1, <3>2 DEF Distinct
  <2> QED
      BY <2>1 DEF Distinct
<1>5. ~Lists(r, q[i])
    BY <1>1, <1>2, <1>3 DEF Distinct, Lists
<1>6. ASSUME NEW f, f # q[i], NEW j \in DOMAIN q, q[j] = f PROVE Lists(r, f)
  <2>1. CASE j < i
      BY <1>1, <1>2, <1>3, <1>6, <2>1 DEF Lists
  <2>2. CASE j > i
    <3>1. j - 1 \in DOMAIN r /\ r[j - 1] = f
        BY <1>1, <1>2, <1>3, <1>6, <2>2
    <3> QED
        BY <3>1 DEF Lists
  <2> QED
      BY <1>1, <1>6, <2>1, <2>2
<1> QED
    BY <1>2, <1>4, <1>5, <1>6 DEF r, Lists

LEMMA RemoveFirstLists ==
    ASSUME NEW q \in Seq(File), NEW f
    PROVE  /\ RemoveFirst(q, f) \in Seq(File)
           /\ Distinct(q) =>
                /\ Distinct(RemoveFirst(q, f)) /\ ~Lists(RemoveFirst(q, f), f)
                /\ \A g : g # f /\ Lists(q, g) => Lists(RemoveFirst(q, f), g)
<1>1. DOMAIN q = 1..Len(q) /\ Len(q) \in Nat
    OBVIOUS
<1>2. CASE ~Lists(q, f)
    BY <1>1, <1>2 DEF RemoveFirst, Lists
<1>3. CASE Lists(q, f)
  <2> DEFINE I == {i \in 1..Len(q) : q[i] = f}
  <2>1. I # {} /\ I \in SUBSET Nat
      BY <1>1, <1>3 DEF Lists
  <2>2. Min(I) \in I
      BY <2>1, LeastNatural
  <2>3. RemoveFirst(q, f) = RemoveAt(q, Min(I))
      BY <2>1 DEF RemoveFirst, SelectInSeq
  <2>4. RemoveFirst(q, f) \in Seq(File)
      BY <2>2, <2>3, RemoveAtProperties
  <2>5. Min(I) \in DOMAIN q /\ q[Min(I)] = f
      BY <1>1, <2>2
  <2> QED
      BY <2>3, <2>4, <2>5, RemoveAtLists
<1> QED
    BY <1>2, <1>3

LEMMA TouchedLists ==
    ASSUME NEW q \in Seq(File), NEW f \in File
    PROVE  /\ Touched(q, f) \in Seq(File)
           /\ Distinct(q) =>
                /\ Distinct(Touched(q, f)) /\ Lists(Touched(q, f), f)
                /\ \A g : Lists(q, g) => Lists(Touched(q, f), g)
<1> DEFINE r == RemoveFirst(q, f)
<1>1. /\ r \in Seq(File)
      /\ Distinct(q) => /\ Distinct(r) /\ ~Lists(r, f)
                        /\ \A g : g # f /\ Lists(q, g) => Lists(r, g)
    BY RemoveFirstLists
<1>2. Touched(q, f) = Append(r, f)
    BY DEF Touched
<1> HIDE DEF r
<1>3. /\ Append(r, f) \in Seq(File) /\ Len(Append(r, f)) = Len(r) + 1
      /\ \A j \in 1..Len(r) : Append(r, f)[j] = r[j]
      /\ Append(r, f)[Len(r) + 1] = f
      /\ Len(r) \in Nat /\ DOMAIN r = 1..Len(r)
      /\ DOMAIN Append(r, f) = 1..(Len(r) + 1)
    BY <1>1
<1>4. ASSUME Distinct(q) PROVE Distinct(Append(r, f))
    BY <1>1, <1>3, <1>4 DEF Distinct, Lists
<1>5. Lists(Append(r, f), f)
    BY <1>3 DEF Lists
<1>6. \A g : Lists(r, g) => Lists(Append(r, f), g)
    BY <1>3 DEF Lists
<1> QED
    BY <1>1, <1>2, <1>3, <1>4, <1>5, <1>6

-----------------------------------------------------------------------------
(* The steps of clients, with any numbers written at once.  A program may  *)
(* also dial again.                                                        *)
AnyCall(c, f) ==
    \/ \E heard \in BOOLEAN : \/ Create(c, f, heard) \/ Commit(c, f, heard)
                              \/ Close(c, f, heard) \/ Delete(c, f, heard)
    \/ \E mode \in Mode, heard \in BOOLEAN : Open(c, f, mode, heard)
    \/ \E mode \in Mode : TestAuth(c, f, mode) \/ OpenFails(c, f, mode)
    \/ \E heard \in BOOLEAN : OpenValid(c, f, heard)
    \/ OpenValidFails(c, f)
    \/ \E numbers \in SUBSET Numbers(f), keep \in BOOLEAN :
            Change(c, f, numbers, keep)
    \/ ReadFile(c, f) \/ Read(c, f) \/ LeaseExpires(c, f)
    \/ CreateFails(c, f) \/ DeleteFails(c, f)
    \/ Refused(c, f) \/ Freezes(c, f)

Dials(c) == /\ \E s \in 1..primary : conn' = [conn EXCEPT ![c] = s]
            /\ UNCHANGED <<serverVars, cache, lru, opening, historyVars, boundVars>>

AnyNext == \/ \E c \in Client, f \in File : AnyCall(c, f)
           \/ \E c \in Client : Dials(c)
           \/ Failover

LEMMA NextIsAny == Next => AnyNext \/ UNCHANGED vars
<1> SUFFICES ASSUME Next PROVE AnyNext \/ UNCHANGED vars
    OBVIOUS
<1>1. CASE Failover
    BY <1>1 DEF AnyNext
<1>2. ASSUME NEW c \in Client, NEW f \in File, Call(c, f)
      PROVE  AnyNext \/ UNCHANGED vars
  <2>1. CASE AuthFails(c, f)
      BY <2>1 DEF AuthFails
  <2>2. ASSUME NEW n \in Unwritten(f), WriteFile(c, f, {n}) \/ AppendFile(c, f, {n})
        PROVE  AnyCall(c, f)
    <3>1. {n} \in SUBSET Numbers(f)
        BY <2>2 DEF Unwritten
    <3>2. Change(c, f, {n}, TRUE) \/ Change(c, f, {n}, FALSE)
        BY <2>2 DEF WriteFile, AppendFile
    <3> QED
        BY <3>1, <3>2 DEF AnyCall
  <2> QED
      BY <1>2, <2>1, <2>2 DEF Call, AnyCall, AnyNext
<1> QED
    BY <1>1, <1>2 DEF Next

(* The others keep what they have, and so does the client of most files.   *)
OthersKeep(c) == \A d \in Client \ {c} :
    /\ cache'[d] = cache[d] /\ lru'[d] = lru[d] /\ opening'[d] = opening[d]
    /\ unsaved'[d] = unsaved[d] /\ conn'[d] = conn[d]

(* The types of what a client has and of what the server has.              *)
ClientTypes ==
    /\ conn' \in [Client -> 1..primary]
    /\ cache' \in [Client -> [File -> CacheEntry \cup {None}]]
    /\ lru' \in [Client -> Seq(File)]
    /\ opening' \in [Client -> File \cup {None}]
    /\ unsaved' \in [Client -> SUBSET Number]

ServerTypes ==
    /\ primary' = primary
    /\ exists' \subseteq File
    /\ content' \in [File -> SUBSET Number]
    /\ primes' \in [File -> SUBSET Number]
    /\ version' \in [File -> Version]
    /\ fds' \in Seq(FileMeta) /\ Len(fds') <= MaxOpenFiles
    /\ frozen' \in BOOLEAN
    /\ shown' \in [File -> SUBSET Number]
    /\ calls' \in 0..MaxCalls /\ faults' \in 0..MaxFaults

LEMMA TypesTogether ==
    ASSUME TypeInv, ClientTypes, ServerTypes
    PROVE  TypeOK'
BY DEF TypeInv, TypeOK, ClientTypes, ServerTypes

LEMMA UnchangedTypes ==
    ASSUME TypeInv
    PROVE  /\ UNCHANGED <<conn, cache, lru, opening, unsaved>> => ClientTypes
           /\ UNCHANGED <<serverVars, shown, boundVars>> => ServerTypes
BY DEF TypeInv, TypeOK, ClientTypes, ServerTypes, serverVars, boundVars

LEMMA CountTypes ==
    ASSUME TypeInv
    PROVE  /\ Count /\ UNCHANGED faults => calls' \in 0..MaxCalls /\ faults' \in 0..MaxFaults
           /\ Fault /\ UNCHANGED calls => calls' \in 0..MaxCalls /\ faults' \in 0..MaxFaults
           /\ Fault => faults' # 0
BY CacheAssumption DEF TypeInv, TypeOK, Count, Fault

LEMMA RedirectedTypes ==
    ASSUME TypeInv, NEW c \in Client, MaybeRedirected(c)
    PROVE  /\ conn' \in [Client -> 1..primary]
           /\ \A d \in Client \ {c} : conn'[d] = conn[d]
<1>1. primary \in 1..primary /\ conn \in [Client -> 1..primary]
    BY CacheAssumption DEF TypeInv, TypeOK
<1> QED
    BY <1>1 DEF MaybeRedirected, Redirected

LEMMA EntryMadeTypes ==
    ASSUME TypeInv, NEW f \in File
    PROVE  /\ EntryMade(f) \in [File -> Version] /\ EntryMade(f)[f] \in Nat
           /\ version[f] # Absent => version[f] \in Nat
BY DEF TypeInv, TypeOK, EntryMade, Version, Absent

LEMMA SetCacheTypes ==
    ASSUME TypeInv, NEW c \in Client,
           NEW entries \in [File -> CacheEntry \cup {None}], SetCache(c, entries)
    PROVE  /\ cache' \in [Client -> [File -> CacheEntry \cup {None}]]
           /\ cache'[c] = entries
           /\ \A d \in Client \ {c} : cache'[d] = cache[d]
BY DEF TypeInv, TypeOK, SetCache

LEMMA SetEntryTypes ==
    ASSUME TypeInv, NEW c \in Client, NEW f \in File,
           NEW e \in CacheEntry \cup {None}, SetEntry(c, f, e)
    PROVE  /\ cache' \in [Client -> [File -> CacheEntry \cup {None}]]
           /\ cache'[c][f] = e
           /\ \A g \in File \ {f} : cache'[c][g] = cache[c][g]
           /\ \A d \in Client \ {c} : cache'[d] = cache[d]
BY DEF TypeInv, TypeOK, SetEntry

LEMMA SetLRUTypes ==
    ASSUME TypeInv, NEW c \in Client, NEW q \in Seq(File), SetLRU(c, q)
    PROVE  /\ lru' \in [Client -> Seq(File)] /\ lru'[c] = q
           /\ \A d \in Client \ {c} : lru'[d] = lru[d]
BY DEF TypeInv, TypeOK, SetLRU

LEMMA TouchTypes ==
    ASSUME TypeInv, NEW c \in Client, NEW f \in File, Touch(c, f)
    PROVE  /\ lru' \in [Client -> Seq(File)] /\ lru'[c] = Touched(lru[c], f)
           /\ \A d \in Client \ {c} : lru'[d] = lru[d]
<1>1. Touched(lru[c], f) \in Seq(File)
    BY TouchedLists DEF TypeInv, TypeOK
<1> QED
    BY <1>1, SetLRUTypes DEF Touch

(* Making room takes out one entry that may be evicted, or none.           *)
Lighter(c, entries) ==
    \A g \in File : \/ entries[g] = cache[c][g]
                    \/ /\ entries[g] = None /\ cache[c][g] # None
                       /\ Evictable(cache[c][g])

LEMMA RoomTypes ==
    ASSUME TypeInv, NEW c \in Client, HasRoom(c)
    PROVE  /\ RoomyCache(c) \in [File -> CacheEntry \cup {None}]
           /\ RoomyLRU(c) \in Seq(File)
           /\ Lighter(c, RoomyCache(c))
<1>1. /\ lru[c] \in Seq(File) /\ cache[c] \in [File -> CacheEntry \cup {None}]
    BY DEF TypeInv, TypeOK
<1>2. CASE ~IsFull(c)
    BY <1>1, <1>2 DEF RoomyCache, RoomyLRU, Lighter
<1>3. CASE IsFull(c)
  <2> DEFINE v == Min(Victims(c))
  <2>1. Victims(c) # {} /\ Victims(c) \in SUBSET Nat
      BY <1>1, <1>3 DEF HasRoom, Victims
  <2>2. v \in Victims(c)
      BY <2>1, LeastNatural
  <2> HIDE DEF v
  <2>3. /\ v \in 1..Len(lru[c]) /\ lru[c][v] \in File /\ cache[c][lru[c][v]] # None
        /\ Evictable(cache[c][lru[c][v]])
      BY <1>1, <2>2 DEF Victims, InCache
  <2>4. RemoveAt(lru[c], v) \in Seq(File)
      BY <1>1, <2>3, RemoveAtProperties
  <2> QED
      BY <1>1, <1>3, <2>3, <2>4 DEF RoomyCache, RoomyLRU, Lighter, v
<1> QED
    BY <1>2, <1>3

LEMMA RegisterTypes ==
    ASSUME TypeInv, NEW c \in Client, NEW f \in File, NEW mode \in Mode, HasSpace,
           Register(c, f, mode)
    PROVE  /\ fds' \in Seq(FileMeta) /\ Len(fds') <= MaxOpenFiles
           /\ Len(fds) \in Nat /\ Len(fds) + 1 \in DOMAIN fds'
           /\ DOMAIN fds = 1..Len(fds) /\ DOMAIN fds' = 1..(Len(fds) + 1)
           /\ \A d \in DOMAIN fds : d \in DOMAIN fds' /\ fds'[d] = fds[d]
           /\ fds'[Len(fds) + 1] = [file |-> f, client |-> c, mode |-> mode,
                                    open |-> TRUE, removed |-> None]
<1> DEFINE new == [file |-> f, client |-> c, mode |-> mode, open |-> TRUE,
                   removed |-> None]
<1>1. new \in FileMeta
    BY DEF FileMeta
<1>2. fds \in Seq(FileMeta) /\ Len(fds) \in Nat /\ MaxOpenFiles \in Nat
    BY CacheAssumption DEF TypeInv, TypeOK
<1>3. fds' = Append(fds, new)
    BY DEF Register
<1> HIDE DEF new
<1>4. /\ fds' \in Seq(FileMeta) /\ Len(fds') = Len(fds) + 1
      /\ \A d \in 1..Len(fds) : fds'[d] = fds[d]
      /\ fds'[Len(fds) + 1] = new
    BY <1>1, <1>2, <1>3
<1> QED
    BY <1>2, <1>4 DEF HasSpace, new

LEMMA UnregisterTypes ==
    ASSUME TypeInv, NEW fd, fd + 1 \in DOMAIN fds, Unregister(fd)
    PROVE  /\ fds' \in Seq(FileMeta) /\ Len(fds') <= MaxOpenFiles
           /\ DOMAIN fds' = DOMAIN fds
           /\ \A d \in DOMAIN fds :
                /\ fds'[d].file = fds[d].file /\ fds'[d].client = fds[d].client
                /\ fds'[d].mode = fds[d].mode /\ fds'[d].removed = fds[d].removed
                /\ d # fd + 1 => fds'[d].open = fds[d].open
<1>1. fds \in Seq(FileMeta) /\ Len(fds) <= MaxOpenFiles
    BY DEF TypeInv, TypeOK
<1>2. fds[fd + 1] \in FileMeta
    BY <1>1, ElementOfSeq
<1> DEFINE new == [fds[fd + 1] EXCEPT !.open = FALSE]
<1>3. /\ new \in FileMeta /\ new.file = fds[fd + 1].file
      /\ new.client = fds[fd + 1].client /\ new.mode = fds[fd + 1].mode
      /\ new.removed = fds[fd + 1].removed
    BY <1>2 DEF FileMeta
<1>4. fds' = [fds EXCEPT ![fd + 1] = new]
    BY DEF Unregister
<1> HIDE DEF new
<1>5. /\ fds' \in Seq(FileMeta) /\ Len(fds') = Len(fds)
      /\ DOMAIN fds' = DOMAIN fds /\ DOMAIN fds = 1..Len(fds)
      /\ \A d \in DOMAIN fds : fds'[d] = IF d = fd + 1 THEN new ELSE fds[d]
    BY <1>1, <1>3, <1>4
<1> QED
    BY <1>1, <1>3, <1>5

LEMMA RegisteredTypes ==
    ASSUME TypeInv, NEW fd, NEW c, Registered(fd, c)
    PROVE  /\ fd + 1 \in DOMAIN fds /\ fds[fd + 1] \in FileMeta
           /\ fds[fd + 1].client = c /\ fds[fd + 1].open
           /\ fds[fd + 1].file \in File
<1>1. fd + 1 \in DOMAIN fds /\ fds[fd + 1].client = c /\ fds[fd + 1].open
    BY DEF Registered
<1>2. fds \in Seq(FileMeta)
    BY DEF TypeInv, TypeOK
<1>3. fds[fd + 1] \in FileMeta
    BY <1>1, <1>2, ElementOfSeq
<1> QED
    BY <1>1, <1>3 DEF FileMeta

LEMMA StoreTypes ==
    ASSUME TypeInv, NEW e \in CacheEntry, NEW c, Registered(e.fd, c),
           NEW merge \in BOOLEAN, Store(e, merge)
    PROVE  /\ exists' \subseteq File
           /\ content' \in [File -> SUBSET Number]
           /\ primes' \in [File -> SUBSET Number]
           /\ shown' \in [File -> SUBSET Number]
           /\ version' \in [File -> Version]
           /\ TargetOf(e) \in File /\ version'[TargetOf(e)] \in Nat
<1>1. TargetOf(e) \in File
    BY RegisteredTypes DEF TargetOf
<1>2. /\ EntryMade(TargetOf(e)) \in [File -> Version]
      /\ EntryMade(TargetOf(e))[TargetOf(e)] \in Nat
    BY <1>1, EntryMadeTypes
<1>3. /\ exists \subseteq File /\ content \in [File -> SUBSET Number]
      /\ primes \in [File -> SUBSET Number] /\ shown \in [File -> SUBSET Number]
      /\ e.data \subseteq Number
    BY DEF TypeInv, TypeOK, CacheEntry
<1>4. (IF merge THEN Merged(TargetOf(e), e) ELSE e.data) \subseteq Number
    BY <1>1, <1>3 DEF Merged
<1>5. version' \in [File -> Version] /\ version'[TargetOf(e)] \in Nat
    BY <1>1, <1>2 DEF Store, Version
<1> QED
    BY <1>1, <1>3, <1>4, <1>5 DEF Store

-----------------------------------------------------------------------------
(* What every call of client c about file f does to the cache: entries of  *)
(* other files stay or are evicted, and an Open that is half done is of f. *)
Regular(c, f) ==
    /\ ClientTypes /\ ServerTypes /\ OthersKeep(c)
    /\ \A g \in File \ {f} :
          \/ cache'[c][g] = cache[c][g]
          \/ cache'[c][g] = None /\ cache[c][g] # None /\ Evictable(cache[c][g])
    /\ opening'[c] # None => /\ opening'[c] = f /\ cache'[c][f] # None
                             /\ ~cache'[c][f].dirty

(* The entry of f is as it was, or gone, and then it was not dirty.        *)
Same(c, f)    == cache'[c][f] = cache[c][f]
Dropped(c, f) == /\ cache'[c][f] = None
                 /\ cache[c][f] # None => ~cache[c][f].dirty

LEMMA NewEntries ==
    ASSUME TypeInv, NEW f \in File, NEW mode \in Mode
    PROVE  /\ Created(Len(fds)) \in CacheEntry
           /\ Fetched(f, mode) \in CacheEntry
           /\ Len(fds) \in Nat
<1>1. Len(fds) \in Nat /\ EntryMade(f)[f] \in Nat
    BY EntryMadeTypes DEF TypeInv, TypeOK
<1> QED
    BY <1>1 DEF Created, Fetched, CacheEntry, Mode

LEMMA LighterKeeps ==
    ASSUME TypeInv, NEW c \in Client, NEW f \in File, NEW entries,
           Lighter(c, entries), cache'[c] = entries
    PROVE  /\ \A g \in File :
                \/ cache'[c][g] = cache[c][g]
                \/ cache'[c][g] = None /\ cache[c][g] # None /\ Evictable(cache[c][g])
           /\ Same(c, f) \/ Dropped(c, f)
BY DEF Lighter, Same, Dropped, Evictable

LEMMA CreateRegular ==
    ASSUME TypeInv, NEW c \in Client, NEW f \in File, NEW heard \in BOOLEAN,
           Create(c, f, heard)
    PROVE  /\ Regular(c, f)
           /\ \/ heard /\ cache'[c][f] = Created(Len(fds))
              \/ ~heard /\ (Same(c, f) \/ Dropped(c, f))
<1>1. /\ opening[c] = None /\ opening' = opening /\ unsaved' = unsaved
      /\ HasRoom(c) /\ HasSpace /\ Register(c, f, READ) /\ Count
      /\ UNCHANGED <<primary, primes, frozen, historyVars, faults>>
    BY DEF Create, Uses, Idle, historyVars
<1>2. ServerTypes
  <2>1. /\ calls' \in 0..MaxCalls /\ faults' \in 0..MaxFaults
        /\ fds' \in Seq(FileMeta) /\ Len(fds') <= MaxOpenFiles
      BY <1>1, CountTypes, RegisterTypes DEF Mode
  <2>2. /\ exists' \subseteq File /\ content' \in [File -> SUBSET Number]
        /\ version' \in [File -> Version]
      BY DEF Create, TypeInv, TypeOK, Version
  <2> QED
      BY <1>1, <2>1, <2>2 DEF ServerTypes, TypeInv, TypeOK, historyVars
<1>3. conn' \in [Client -> 1..primary] /\ \A d \in Client \ {c} : conn'[d] = conn[d]
    BY RedirectedTypes DEF Create, MaybeRedirected
<1>4. /\ RoomyCache(c) \in [File -> CacheEntry \cup {None}]
      /\ RoomyLRU(c) \in Seq(File) /\ Lighter(c, RoomyCache(c))
    BY <1>1, RoomTypes
<1>5. CASE heard
  <2> DEFINE entries == [RoomyCache(c) EXCEPT ![f] = Created(Len(fds))]
  <2>1. /\ entries \in [File -> CacheEntry \cup {None}]
        /\ entries[f] = Created(Len(fds))
        /\ \A g \in File \ {f} : entries[g] = RoomyCache(c)[g]
      BY <1>4, NewEntries DEF Mode
  <2>2. SetCache(c, entries) /\ SetLRU(c, Touched(RoomyLRU(c), f))
      BY <1>5 DEF Create
  <2> HIDE DEF entries
  <2>3. /\ cache' \in [Client -> [File -> CacheEntry \cup {None}]]
        /\ cache'[c] = entries /\ \A d \in Client \ {c} : cache'[d] = cache[d]
      BY <2>1, <2>2, SetCacheTypes
  <2>4. Touched(RoomyLRU(c), f) \in Seq(File)
      BY <1>4, TouchedLists
  <2>5. /\ lru' \in [Client -> Seq(File)]
        /\ \A d \in Client \ {c} : lru'[d] = lru[d]
      BY <2>2, <2>4, SetLRUTypes
  <2>6. ClientTypes /\ OthersKeep(c)
      BY <1>1, <1>3, <2>3, <2>5 DEF ClientTypes, OthersKeep, TypeInv, TypeOK
  <2> QED
      BY <1>1, <1>2, <1>4, <1>5, <2>1, <2>3, <2>6 DEF Regular, Lighter
<1>6. CASE ~heard
  <2>1. SetCache(c, RoomyCache(c)) /\ SetLRU(c, RoomyLRU(c))
      BY <1>6 DEF Create
  <2>2. /\ cache' \in [Client -> [File -> CacheEntry \cup {None}]]
        /\ cache'[c] = RoomyCache(c) /\ \A d \in Client \ {c} : cache'[d] = cache[d]
      BY <1>4, <2>1, SetCacheTypes
  <2>3. /\ lru' \in [Client -> Seq(File)]
        /\ \A d \in Client \ {c} : lru'[d] = lru[d]
      BY <1>4, <2>1, SetLRUTypes
  <2>4. ClientTypes /\ OthersKeep(c)
      BY <1>1, <1>3, <2>2, <2>3 DEF ClientTypes, OthersKeep, TypeInv, TypeOK
  <2>5. /\ \A g \in File :
                \/ cache'[c][g] = cache[c][g]
                \/ cache'[c][g] = None /\ cache[c][g] # None /\ Evictable(cache[c][g])
        /\ Same(c, f) \/ Dropped(c, f)
      BY <1>4, <2>2, LighterKeeps
  <2> QED
      BY <1>1, <1>2, <1>6, <2>4, <2>5 DEF Regular
<1> QED
    BY <1>5, <1>6

(* Making room before a call that fails.                                   *)
LEMMA RoomRegular ==
    ASSUME TypeInv, NEW c \in Client, NEW f \in File, HasRoom(c),
           SetCache(c, RoomyCache(c)), SetLRU(c, RoomyLRU(c)), ServerTypes,
           MaybeRedirected(c), opening[c] = None, UNCHANGED <<opening, unsaved>>
    PROVE  Regular(c, f) /\ (Same(c, f) \/ Dropped(c, f))
<1>1. conn' \in [Client -> 1..primary] /\ \A d \in Client \ {c} : conn'[d] = conn[d]
    BY RedirectedTypes
<1>2. /\ RoomyCache(c) \in [File -> CacheEntry \cup {None}]
      /\ RoomyLRU(c) \in Seq(File) /\ Lighter(c, RoomyCache(c))
    BY RoomTypes
<1>3. /\ cache' \in [Client -> [File -> CacheEntry \cup {None}]]
      /\ cache'[c] = RoomyCache(c) /\ \A d \in Client \ {c} : cache'[d] = cache[d]
    BY <1>2, SetCacheTypes
<1>4. /\ lru' \in [Client -> Seq(File)]
      /\ \A d \in Client \ {c} : lru'[d] = lru[d]
    BY <1>2, SetLRUTypes
<1>5. ClientTypes /\ OthersKeep(c)
    BY <1>1, <1>3, <1>4 DEF ClientTypes, OthersKeep, TypeInv, TypeOK
<1>6. /\ \A g \in File :
            \/ cache'[c][g] = cache[c][g]
            \/ cache'[c][g] = None /\ cache[c][g] # None /\ Evictable(cache[c][g])
      /\ Same(c, f) \/ Dropped(c, f)
    BY <1>2, <1>3, LighterKeeps
<1> QED
    BY <1>5, <1>6 DEF Regular

(* A call that leaves the cache alone.                                     *)
LEMMA SameRegular ==
    ASSUME TypeInv, NEW c \in Client, NEW f \in File, ServerTypes,
           MaybeRedirected(c), opening'[c] = None,
           \A d \in Client \ {c} : opening'[d] = opening[d],
           opening' \in [Client -> File \cup {None}],
           UNCHANGED <<cache, lru, unsaved>>
    PROVE  Regular(c, f) /\ Same(c, f)
<1>1. conn' \in [Client -> 1..primary] /\ \A d \in Client \ {c} : conn'[d] = conn[d]
    BY RedirectedTypes
<1>2. ClientTypes /\ OthersKeep(c)
    BY <1>1 DEF ClientTypes, OthersKeep, TypeInv, TypeOK
<1> QED
    BY <1>2 DEF Regular, Same

(* A call that changes the entry of f.                                     *)
LEMMA EntryRegular ==
    ASSUME TypeInv, NEW c \in Client, NEW f \in File, ServerTypes,
           MaybeRedirected(c),
           NEW e \in CacheEntry \cup {None}, SetEntry(c, f, e),
           lru' \in [Client -> Seq(File)],
           \A d \in Client \ {c} : lru'[d] = lru[d],
           opening' \in [Client -> File \cup {None}],
           \A d \in Client \ {c} : opening'[d] = opening[d],
           opening'[c] # None => opening'[c] = f /\ e # None /\ ~e.dirty,
           unsaved' \in [Client -> SUBSET Number],
           \A d \in Client \ {c} : unsaved'[d] = unsaved[d]
    PROVE  Regular(c, f) /\ cache'[c][f] = e
<1>1. conn' \in [Client -> 1..primary] /\ \A d \in Client \ {c} : conn'[d] = conn[d]
    BY RedirectedTypes
<1>2. /\ cache' \in [Client -> [File -> CacheEntry \cup {None}]]
      /\ cache'[c][f] = e
      /\ \A g \in File \ {f} : cache'[c][g] = cache[c][g]
      /\ \A d \in Client \ {c} : cache'[d] = cache[d]
    BY SetEntryTypes
<1>3. ClientTypes /\ OthersKeep(c)
    BY <1>1, <1>2 DEF ClientTypes, OthersKeep
<1> QED
    BY <1>2, <1>3 DEF Regular

LEMMA CreateFailsRegular ==
    ASSUME TypeInv, NEW c \in Client, NEW f \in File, CreateFails(c, f)
    PROVE  Regular(c, f) /\ (Same(c, f) \/ Dropped(c, f))
<1>1. /\ HasRoom(c) /\ SetCache(c, RoomyCache(c)) /\ SetLRU(c, RoomyLRU(c))
      /\ opening[c] = None /\ UNCHANGED <<opening, unsaved>>
      /\ MaybeRedirected(c)
      /\ UNCHANGED <<primary, exists, content, primes, fds, frozen, shown, boundVars>>
      /\ version' = version \/ version' = EntryMade(f)
    BY DEF CreateFails, Uses, Idle, historyVars, MaybeRedirected
<1>2. ServerTypes
    BY <1>1, EntryMadeTypes DEF ServerTypes, TypeInv, TypeOK, boundVars
<1> QED
    BY <1>1, <1>2, RoomRegular

LEMMA OpenRegular ==
    ASSUME TypeInv, NEW c \in Client, NEW f \in File, NEW mode \in Mode,
           NEW heard \in BOOLEAN, Open(c, f, mode, heard)
    PROVE  /\ Regular(c, f)
           /\ \/ /\ heard /\ cache'[c][f] = Fetched(f, mode)
                 /\ cache[c][f] # None => ~cache[c][f].dirty
              \/ ~heard /\ (Same(c, f) \/ Dropped(c, f))
<1> DEFINE evicts == f \notin InCache(c)
           room  == IF evicts THEN RoomyCache(c) ELSE cache[c]
           names == IF evicts THEN RoomyLRU(c) ELSE lru[c]
<1>1. /\ opening[c] = None /\ opening' = opening /\ unsaved' = unsaved
      /\ evicts => HasRoom(c)
      /\ ~evicts => Outdated(c, f)
      /\ HasSpace /\ Register(c, f, mode) /\ Count
      /\ version' = EntryMade(f)
      /\ UNCHANGED <<primary, exists, content, primes, frozen, historyVars, faults>>
    BY DEF Open, Opens, Idle, historyVars
<1>2. ServerTypes
  <2>1. /\ calls' \in 0..MaxCalls /\ faults' \in 0..MaxFaults
        /\ fds' \in Seq(FileMeta) /\ Len(fds') <= MaxOpenFiles
      BY <1>1, CountTypes, RegisterTypes
  <2> QED
      BY <1>1, <2>1, EntryMadeTypes DEF ServerTypes, TypeInv, TypeOK, historyVars
<1>3. conn' \in [Client -> 1..primary] /\ \A d \in Client \ {c} : conn'[d] = conn[d]
    BY RedirectedTypes DEF Open, MaybeRedirected
<1>4. /\ room \in [File -> CacheEntry \cup {None}]
      /\ names \in Seq(File) /\ Lighter(c, room)
    BY <1>1, RoomTypes DEF TypeInv, TypeOK, Lighter
<1>5. cache[c][f] # None => ~cache[c][f].dirty
    BY <1>1 DEF Outdated, NeedsAuth, InCache
<1>6. /\ heard => /\ SetCache(c, [room EXCEPT ![f] = Fetched(f, mode)])
                  /\ SetLRU(c, Touched(names, f))
      /\ ~heard => SetCache(c, room) /\ SetLRU(c, names)
    BY DEF Open
<1> HIDE DEF evicts, room, names
<1>7. CASE heard
  <2> DEFINE entries == [room EXCEPT ![f] = Fetched(f, mode)]
  <2>1. /\ entries \in [File -> CacheEntry \cup {None}]
        /\ entries[f] = Fetched(f, mode)
        /\ \A g \in File \ {f} : entries[g] = room[g]
      BY <1>4, NewEntries
  <2>2. SetCache(c, entries) /\ SetLRU(c, Touched(names, f))
      BY <1>6, <1>7
  <2> HIDE DEF entries
  <2>3. /\ cache' \in [Client -> [File -> CacheEntry \cup {None}]]
        /\ cache'[c] = entries /\ \A d \in Client \ {c} : cache'[d] = cache[d]
      BY <2>1, <2>2, SetCacheTypes
  <2>4. Touched(names, f) \in Seq(File)
      BY <1>4, TouchedLists
  <2>5. /\ lru' \in [Client -> Seq(File)]
        /\ \A d \in Client \ {c} : lru'[d] = lru[d]
      BY <2>2, <2>4, SetLRUTypes
  <2>6. ClientTypes /\ OthersKeep(c)
      BY <1>1, <1>3, <2>3, <2>5 DEF ClientTypes, OthersKeep, TypeInv, TypeOK
  <2> QED
      BY <1>1, <1>2, <1>4, <1>5, <1>7, <2>1, <2>3, <2>6 DEF Regular, Lighter
<1>8. CASE ~heard
  <2>1. SetCache(c, room) /\ SetLRU(c, names)
      BY <1>6, <1>8
  <2>2. /\ cache' \in [Client -> [File -> CacheEntry \cup {None}]]
        /\ cache'[c] = room /\ \A d \in Client \ {c} : cache'[d] = cache[d]
      BY <1>4, <2>1, SetCacheTypes
  <2>3. /\ lru' \in [Client -> Seq(File)]
        /\ \A d \in Client \ {c} : lru'[d] = lru[d]
      BY <1>4, <2>1, SetLRUTypes
  <2>4. ClientTypes /\ OthersKeep(c)
      BY <1>1, <1>3, <2>2, <2>3 DEF ClientTypes, OthersKeep, TypeInv, TypeOK
  <2>5. /\ \A g \in File :
                \/ cache'[c][g] = cache[c][g]
                \/ cache'[c][g] = None /\ cache[c][g] # None /\ Evictable(cache[c][g])
        /\ Same(c, f) \/ Dropped(c, f)
      BY <1>4, <2>2, LighterKeeps
  <2> QED
      BY <1>1, <1>2, <1>8, <2>4, <2>5 DEF Regular
<1> QED
    BY <1>7, <1>8

LEMMA OpenFailsRegular ==
    ASSUME TypeInv, NEW c \in Client, NEW f \in File, NEW mode \in Mode,
           OpenFails(c, f, mode)
    PROVE  Regular(c, f) /\ (Same(c, f) \/ Dropped(c, f))
<1>1. /\ \/ HasRoom(c) /\ SetCache(c, RoomyCache(c)) /\ SetLRU(c, RoomyLRU(c))
         \/ UNCHANGED <<cache, lru>>
      /\ opening[c] = None /\ UNCHANGED <<opening, unsaved>>
      /\ MaybeRedirected(c)
      /\ UNCHANGED <<primary, exists, content, primes, fds, frozen, shown, boundVars>>
      /\ version' = version \/ version' = EntryMade(f)
    BY DEF OpenFails, Idle, historyVars, MaybeRedirected
<1>2. ServerTypes
    BY <1>1, EntryMadeTypes DEF ServerTypes, TypeInv, TypeOK, boundVars
<1>3. opening \in [Client -> File \cup {None}]
    BY DEF TypeInv, TypeOK
<1> QED
    BY <1>1, <1>2, <1>3, RoomRegular, SameRegular

LEMMA TestAuthRegular ==
    ASSUME TypeInv, NEW c \in Client, NEW f \in File, NEW mode \in Mode,
           TestAuth(c, f, mode)
    PROVE  /\ Regular(c, f) /\ cache[c][f] \in CacheEntry /\ ~cache[c][f].dirty
           /\ cache'[c][f] = [cache[c][f] EXCEPT !.valid = TRUE, !.mode = mode]
<1> DEFINE e == cache[c][f]
           new == [e EXCEPT !.valid = TRUE, !.mode = mode]
<1>1. /\ e \in CacheEntry /\ ~e.dirty
      /\ SetEntry(c, f, new) /\ Touch(c, f)
      /\ opening' = [opening EXCEPT ![c] = f]
      /\ UNCHANGED <<serverVars, conn, historyVars, boundVars>>
    BY DEF TestAuth, NeedsAuth, InCache, TypeInv, TypeOK
<1>2. new \in CacheEntry /\ ~new.dirty /\ new # None
    BY <1>1, NoneAssumption DEF CacheEntry
<1> HIDE DEF new
<1>3. ServerTypes /\ MaybeRedirected(c)
    BY <1>1, UnchangedTypes DEF MaybeRedirected, historyVars
<1>4. /\ lru' \in [Client -> Seq(File)]
      /\ \A d \in Client \ {c} : lru'[d] = lru[d]
    BY <1>1, TouchTypes
<1>5. /\ opening' \in [Client -> File \cup {None}] /\ opening'[c] = f
      /\ \A d \in Client \ {c} : opening'[d] = opening[d]
      /\ unsaved' = unsaved /\ unsaved \in [Client -> SUBSET Number]
    BY <1>1 DEF TypeInv, TypeOK, historyVars
<1>6. Regular(c, f) /\ cache'[c][f] = new
    BY <1>1, <1>2, <1>3, <1>4, <1>5, EntryRegular
<1> QED
    BY <1>1, <1>6 DEF new

LEMMA OpenValidRegular ==
    ASSUME TypeInv, NEW c \in Client, NEW f \in File, NEW heard \in BOOLEAN,
           OpenValid(c, f, heard)
    PROVE  /\ Regular(c, f) /\ cache[c][f] \in CacheEntry /\ ~cache[c][f].dirty
           /\ cache'[c][f] = IF heard THEN Reopened(cache[c][f]) ELSE cache[c][f]
<1> DEFINE e == cache[c][f]
<1>1. e \in CacheEntry /\ ~e.dirty
    BY NoneAssumption DEF OpenValid, TypeInv, TypeOK, Underway
<1>2. /\ Register(c, f, e.mode) /\ HasSpace /\ Count
      /\ version' = EntryMade(f) /\ opening' = [opening EXCEPT ![c] = None]
      /\ IF heard THEN SetEntry(c, f, Reopened(e)) ELSE UNCHANGED cache
      /\ UNCHANGED <<primary, exists, content, primes, frozen, conn, lru,
                     historyVars, faults>>
    BY DEF OpenValid, Opens
<1>3. e.mode \in Mode
    BY <1>1 DEF CacheEntry
<1>4. Reopened(e) \in CacheEntry
    BY <1>1, <1>3, NewEntries DEF Reopened, CacheEntry
<1> HIDE DEF e
<1>5. ServerTypes
  <2>1. /\ calls' \in 0..MaxCalls /\ faults' \in 0..MaxFaults
        /\ fds' \in Seq(FileMeta) /\ Len(fds') <= MaxOpenFiles
      BY <1>2, <1>3, CountTypes, RegisterTypes
  <2> QED
      BY <1>2, <2>1, EntryMadeTypes DEF ServerTypes, TypeInv, TypeOK, historyVars
<1>6. /\ opening' \in [Client -> File \cup {None}] /\ opening'[c] = None
      /\ \A d \in Client \ {c} : opening'[d] = opening[d]
      /\ unsaved' = unsaved /\ unsaved \in [Client -> SUBSET Number]
      /\ lru' = lru /\ lru \in [Client -> Seq(File)] /\ MaybeRedirected(c)
    BY <1>2 DEF TypeInv, TypeOK, historyVars, MaybeRedirected
<1>7. CASE heard
    BY <1>1, <1>2, <1>4, <1>5, <1>6, <1>7, EntryRegular DEF e
<1>8. CASE ~heard
    BY <1>1, <1>2, <1>5, <1>6, <1>8, SameRegular DEF e, Same
<1> QED
    BY <1>7, <1>8

LEMMA OpenValidFailsRegular ==
    ASSUME TypeInv, NEW c \in Client, NEW f \in File, OpenValidFails(c, f)
    PROVE  Regular(c, f) /\ Same(c, f)
<1>1. /\ UNCHANGED <<primary, exists, content, primes, fds, frozen, conn, cache, lru,
                     historyVars, boundVars>>
      /\ version' = version \/ version' = EntryMade(f)
      /\ opening' = [opening EXCEPT ![c] = None]
    BY DEF OpenValidFails
<1>2. ServerTypes
    BY <1>1, EntryMadeTypes DEF ServerTypes, TypeInv, TypeOK, boundVars, historyVars
<1>3. /\ opening' \in [Client -> File \cup {None}] /\ opening'[c] = None
      /\ \A d \in Client \ {c} : opening'[d] = opening[d]
      /\ UNCHANGED <<cache, lru, unsaved>> /\ MaybeRedirected(c)
    BY <1>1 DEF TypeInv, TypeOK, historyVars, MaybeRedirected
<1> QED
    BY <1>2, <1>3, SameRegular

LEMMA ReadFileRegular ==
    ASSUME TypeInv, NEW c \in Client, NEW f \in File, ReadFile(c, f)
    PROVE  Regular(c, f) /\ Same(c, f)
<1>1. /\ opening[c] = None /\ Touch(c, f)
      /\ UNCHANGED <<serverVars, conn, cache, opening, historyVars, boundVars>>
    BY DEF ReadFile, Idle
<1>2. ServerTypes
    BY <1>1, UnchangedTypes DEF historyVars
<1>3. ClientTypes /\ OthersKeep(c)
    BY <1>1, TouchTypes DEF ClientTypes, OthersKeep, TypeInv, TypeOK, historyVars
<1> QED
    BY <1>1, <1>2, <1>3 DEF Regular, Same

(* The descriptor Read goes by is one of the client and the file.          *)
LEMMA NewestOwned ==
    ASSUME TypeInv, NEW c, NEW f, Registered(NewestFd(c, f), c)
    PROVE  /\ Owned(fds, NewestFd(c, f), c, f)
           /\ Bytes(NewestFd(c, f)) \subseteq Number
<1> DEFINE own == {d \in DOMAIN fds : fds[d].client = c /\ fds[d].file = f}
           fd  == NewestFd(c, f)
<1>1. /\ fd + 1 \in DOMAIN fds /\ fds[fd + 1] \in FileMeta
      /\ fds[fd + 1].file \in File
    BY RegisteredTypes
<1>2. DOMAIN fds = 1..Len(fds) /\ Len(fds) \in Nat
    BY DEF TypeInv, TypeOK
<1>3. own # {}
    BY <1>1, <1>2 DEF NewestFd
<1>4. Max(own) \in own
  <2>1. own \in SUBSET (1..Len(fds))
      BY <1>2
  <2> QED
      BY <1>2, <1>3, <2>1, GreatestOfInterval
<1>5. fd + 1 = Max(own) /\ Max(own) \in Int
  <2>1. Max(own) \in Int
      BY <1>2, <1>4
  <2>2. fd = Max(own) - 1
      BY <1>3 DEF NewestFd
  <2> QED
      BY <2>1, <2>2
<1>6. Owned(fds, fd, c, f)
    BY <1>1, <1>4, <1>5 DEF Owned
<1>7. Bytes(fd) \subseteq Number
    BY <1>1 DEF Bytes, FileMeta, TypeInv, TypeOK
<1> QED
    BY <1>6, <1>7

LEMMA ReadRegular ==
    ASSUME TypeInv, NEW c \in Client, NEW f \in File, Read(c, f)
    PROVE  /\ Regular(c, f) /\ cache[c][f] \in CacheEntry
           /\ cache'[c][f] = [cache[c][f] EXCEPT !.data = Bytes(NewestFd(c, f))]
<1> DEFINE e == cache[c][f]
           new == [e EXCEPT !.data = Bytes(NewestFd(c, f))]
<1>1. /\ e \in CacheEntry /\ opening[c] = None /\ Registered(NewestFd(c, f), c)
      /\ SetEntry(c, f, new) /\ Touch(c, f)
      /\ UNCHANGED <<serverVars, conn, opening, historyVars, boundVars>>
    BY DEF Read, Uses, Idle, InCache, TypeInv, TypeOK
<1>2. new \in CacheEntry
    BY <1>1, NewestOwned DEF CacheEntry
<1> HIDE DEF new
<1>3. ServerTypes /\ MaybeRedirected(c)
    BY <1>1, UnchangedTypes DEF MaybeRedirected, historyVars
<1>4. /\ lru' \in [Client -> Seq(File)]
      /\ \A d \in Client \ {c} : lru'[d] = lru[d]
    BY <1>1, TouchTypes
<1>5. /\ opening' \in [Client -> File \cup {None}] /\ opening' = opening
      /\ unsaved' = unsaved /\ unsaved \in [Client -> SUBSET Number]
    BY <1>1 DEF TypeInv, TypeOK, historyVars
<1>6. Regular(c, f) /\ cache'[c][f] = new
    BY <1>1, <1>2, <1>3, <1>4, <1>5, EntryRegular
<1> QED
    BY <1>1, <1>6 DEF new

LEMMA LeaseExpiresRegular ==
    ASSUME TypeInv, NEW c \in Client, NEW f \in File, LeaseExpires(c, f)
    PROVE  Regular(c, f) /\ Same(c, f)
<1>1. /\ opening[c] = None /\ Registered(NewestFd(c, f), c)
      /\ Unregister(NewestFd(c, f)) /\ Fault
      /\ UNCHANGED <<primary, exists, content, primes, version, frozen,
                     clientVars, historyVars, calls>>
    BY DEF LeaseExpires, Uses, Idle
<1>2. ServerTypes
  <2>1. NewestFd(c, f) + 1 \in DOMAIN fds
      BY <1>1, RegisteredTypes
  <2> QED
      BY <1>1, <2>1, UnregisterTypes, CountTypes
      DEF ServerTypes, TypeInv, TypeOK, historyVars
<1>3. /\ opening' \in [Client -> File \cup {None}] /\ opening' = opening
      /\ UNCHANGED <<cache, lru, unsaved>> /\ MaybeRedirected(c)
    BY <1>1 DEF TypeInv, TypeOK, historyVars, MaybeRedirected, clientVars
<1> QED
    BY <1>1, <1>2, <1>3, SameRegular

LEMMA ChangeRegular ==
    ASSUME TypeInv, NEW c \in Client, NEW f \in File,
           NEW numbers \in SUBSET Numbers(f), NEW keep \in BOOLEAN,
           Change(c, f, numbers, keep)
    PROVE  /\ Regular(c, f) /\ cache[c][f] \in CacheEntry
           /\ cache'[c][f] =
                Written(cache[c][f],
                        (IF keep THEN cache[c][f].data ELSE {}) \cup numbers)
<1> DEFINE e == cache[c][f]
           new == Written(e, (IF keep THEN e.data ELSE {}) \cup numbers)
<1>1. /\ e \in CacheEntry /\ opening[c] = None
      /\ SetEntry(c, f, new) /\ Touch(c, f)
      /\ unsaved' = [unsaved EXCEPT ![c] =
                       (IF keep THEN @ ELSE @ \ Numbers(f)) \cup numbers]
      /\ UNCHANGED <<serverVars, conn, opening, shown, boundVars>>
    BY DEF Change, Uses, Idle, InCache, TypeInv, TypeOK
<1>2. numbers \subseteq Number
    BY DEF Numbers
<1>3. new \in CacheEntry
    BY <1>1, <1>2 DEF CacheEntry, Written
<1> HIDE DEF new
<1>4. ServerTypes /\ MaybeRedirected(c)
    BY <1>1, UnchangedTypes DEF MaybeRedirected
<1>5. /\ lru' \in [Client -> Seq(File)]
      /\ \A d \in Client \ {c} : lru'[d] = lru[d]
    BY <1>1, TouchTypes
<1>6. /\ opening' \in [Client -> File \cup {None}] /\ opening' = opening
      /\ unsaved' \in [Client -> SUBSET Number]
      /\ \A d \in Client \ {c} : unsaved'[d] = unsaved[d]
    BY <1>1, <1>2 DEF TypeInv, TypeOK
<1>7. Regular(c, f) /\ cache'[c][f] = new
    BY <1>1, <1>3, <1>4, <1>5, <1>6, EntryRegular
<1> QED
    BY <1>1, <1>7 DEF new

LEMMA CommitRegular ==
    ASSUME TypeInv, NEW c \in Client, NEW f \in File, NEW heard \in BOOLEAN,
           Commit(c, f, heard)
    PROVE  /\ Regular(c, f) /\ cache[c][f] \in CacheEntry
           /\ cache'[c][f] = IF heard
                             THEN Saved(cache[c][f], version'[TargetOf(cache[c][f])])
                             ELSE cache[c][f]
<1> DEFINE e == cache[c][f]
           new == Saved(e, version'[TargetOf(e)])
<1>1. /\ e \in CacheEntry /\ opening[c] = None /\ Registered(e.fd, c)
      /\ Redirected(c) /\ Store(e, FALSE)
      /\ IF heard THEN /\ SetEntry(c, f, new)
                       /\ unsaved' = [unsaved EXCEPT ![c] = @ \ Numbers(f)]
         ELSE UNCHANGED <<cache, unsaved>>
      /\ UNCHANGED <<primary, fds, frozen, lru, opening, boundVars>>
    BY DEF Commit, Commits, Idle, InCache, TypeInv, TypeOK
<1> HIDE DEF e
<1>2. ServerTypes /\ version'[TargetOf(e)] \in Nat
  <2>1. /\ exists' \subseteq File /\ content' \in [File -> SUBSET Number]
        /\ primes' \in [File -> SUBSET Number] /\ shown' \in [File -> SUBSET Number]
        /\ version' \in [File -> Version] /\ version'[TargetOf(e)] \in Nat
      BY <1>1, StoreTypes
  <2> QED
      BY <1>1, <2>1 DEF ServerTypes, TypeInv, TypeOK, boundVars
<1>3. new \in CacheEntry
    BY <1>1, <1>2 DEF Saved, CacheEntry
<1> HIDE DEF new
<1>4. /\ opening' \in [Client -> File \cup {None}] /\ opening' = opening
      /\ lru' = lru /\ lru \in [Client -> Seq(File)] /\ MaybeRedirected(c)
      /\ unsaved \in [Client -> SUBSET Number]
    BY <1>1 DEF TypeInv, TypeOK, MaybeRedirected
<1>5. CASE heard
  <2>1. /\ unsaved' \in [Client -> SUBSET Number]
        /\ \A d \in Client \ {c} : unsaved'[d] = unsaved[d]
      BY <1>1, <1>4, <1>5
  <2> QED
      BY <1>1, <1>2, <1>3, <1>4, <1>5, <2>1, EntryRegular DEF e, new
<1>6. CASE ~heard
    BY <1>1, <1>2, <1>4, <1>6, SameRegular DEF e, Same
<1> QED
    BY <1>5, <1>6

LEMMA CloseRegular ==
    ASSUME TypeInv, NEW c \in Client, NEW f \in File, NEW heard \in BOOLEAN,
           Close(c, f, heard)
    PROVE  /\ Regular(c, f) /\ cache[c][f] \in CacheEntry
           /\ cache'[c][f] = IF heard
                             THEN ClosedAt(cache[c][f], version'[TargetOf(cache[c][f])])
                             ELSE cache[c][f]
<1> DEFINE e == cache[c][f]
           new == ClosedAt(e, version'[TargetOf(e)])
<1>1. /\ e \in CacheEntry /\ opening[c] = None /\ Registered(e.fd, c)
      /\ Redirected(c) /\ Unregister(e.fd)
      /\ IF e.dirty THEN Store(e, TRUE)
         ELSE /\ version' = EntryMade(TargetOf(e))
              /\ UNCHANGED <<exists, content, primes, shown>>
      /\ IF heard THEN /\ SetEntry(c, f, new) /\ Touch(c, f)
                       /\ unsaved' = [unsaved EXCEPT ![c] = @ \ Numbers(f)]
         ELSE UNCHANGED <<cache, lru, unsaved>>
      /\ IF heard THEN UNCHANGED faults ELSE Fault
      /\ UNCHANGED <<primary, frozen, opening, calls>>
  <2>1. e \in CacheEntry /\ opening[c] = None
      BY DEF Close, Closes, Uses, Idle, InCache, TypeInv, TypeOK
  <2>2. /\ Registered(e.fd, c) /\ Redirected(c) /\ Unregister(e.fd)
        /\ IF e.dirty THEN Store(e, TRUE)
           ELSE /\ version' = EntryMade(TargetOf(e))
                /\ UNCHANGED <<exists, content, primes, shown>>
      BY DEF Close
  <2>3. /\ IF heard THEN /\ SetEntry(c, f, new) /\ Touch(c, f)
                         /\ unsaved' = [unsaved EXCEPT ![c] = @ \ Numbers(f)]
           ELSE UNCHANGED <<cache, lru, unsaved>>
        /\ IF heard THEN UNCHANGED faults ELSE Fault
        /\ UNCHANGED <<primary, frozen, opening, calls>>
      BY DEF Close
  <2> QED
      BY <2>1, <2>2, <2>3
<1> HIDE DEF e
<1>2. ServerTypes /\ version'[TargetOf(e)] \in Nat
  <2>1. /\ exists' \subseteq File /\ content' \in [File -> SUBSET Number]
        /\ primes' \in [File -> SUBSET Number] /\ shown' \in [File -> SUBSET Number]
        /\ version' \in [File -> Version] /\ version'[TargetOf(e)] \in Nat
    <3>1. CASE e.dirty
        BY <1>1, <3>1, StoreTypes
    <3>2. CASE ~e.dirty
      <4>1. TargetOf(e) \in File
          BY <1>1, RegisteredTypes DEF TargetOf
      <4> QED
          BY <1>1, <3>2, <4>1, EntryMadeTypes DEF TypeInv, TypeOK
    <3> QED
        BY <3>1, <3>2
  <2>2. fds' \in Seq(FileMeta) /\ Len(fds') <= MaxOpenFiles
      BY <1>1, RegisteredTypes, UnregisterTypes
  <2>3. calls' \in 0..MaxCalls /\ faults' \in 0..MaxFaults
      BY <1>1, CountTypes DEF TypeInv, TypeOK
  <2> QED
      BY <1>1, <2>1, <2>2, <2>3 DEF ServerTypes, TypeInv, TypeOK
<1>3. new \in CacheEntry
    BY <1>1, <1>2 DEF ClosedAt, CacheEntry
<1> HIDE DEF new
<1>4. /\ opening' \in [Client -> File \cup {None}] /\ opening' = opening
      /\ MaybeRedirected(c) /\ unsaved \in [Client -> SUBSET Number]
    BY <1>1 DEF TypeInv, TypeOK, MaybeRedirected
<1>5. CASE heard
  <2>1. /\ unsaved' \in [Client -> SUBSET Number]
        /\ \A d \in Client \ {c} : unsaved'[d] = unsaved[d]
      BY <1>1, <1>4, <1>5
  <2>2. /\ lru' \in [Client -> Seq(File)]
        /\ \A d \in Client \ {c} : lru'[d] = lru[d]
      BY <1>1, <1>5, TouchTypes
  <2> QED
      BY <1>1, <1>2, <1>3, <1>4, <1>5, <2>1, <2>2, EntryRegular DEF e, new
<1>6. CASE ~heard
    BY <1>1, <1>2, <1>4, <1>6, SameRegular DEF e, Same
<1> QED
    BY <1>5, <1>6

LEMMA RefusedRegular ==
    ASSUME TypeInv, NEW c \in Client, NEW f \in File, Refused(c, f) \/ Freezes(c, f)
    PROVE  Regular(c, f) /\ Same(c, f)
<1>1. /\ opening[c] = None /\ Redirected(c)
      /\ UNCHANGED <<primary, exists, content, primes, fds, cache, lru, opening,
                     historyVars, boundVars>>
      /\ frozen' \in BOOLEAN
    BY DEF Refused, Freezes, Commits, Closes, Uses, Idle, TypeInv, TypeOK
<1>2. version' \in [File -> Version]
  <2>1. CASE Refused(c, f)
    <3>1. TargetOf(cache[c][f]) \in File
        BY <2>1, RegisteredTypes DEF Refused, TargetOf
    <3> QED
        BY <2>1, <3>1, EntryMadeTypes DEF Refused
  <2>2. CASE Freezes(c, f)
      BY <2>2 DEF Freezes, TypeInv, TypeOK
  <2> QED
      BY <2>1, <2>2
<1>3. ServerTypes
    BY <1>1, <1>2 DEF ServerTypes, TypeInv, TypeOK, boundVars, historyVars
<1>4. /\ opening' \in [Client -> File \cup {None}] /\ opening' = opening
      /\ UNCHANGED <<cache, lru, unsaved>> /\ MaybeRedirected(c)
    BY <1>1 DEF TypeInv, TypeOK, historyVars, MaybeRedirected
<1> QED
    BY <1>1, <1>3, <1>4, SameRegular

LEMMA DeletedTypes ==
    ASSUME TypeInv, NEW f \in File,
           fds' = [d \in DOMAIN fds |->
                     IF fds[d].file = f /\ fds[d].removed = None
                     THEN [fds[d] EXCEPT !.removed = content[f]]
                     ELSE fds[d]]
    PROVE  /\ fds' \in Seq(FileMeta) /\ Len(fds') = Len(fds)
           /\ DOMAIN fds' = DOMAIN fds
           /\ \A d \in DOMAIN fds :
                /\ fds'[d].file = fds[d].file /\ fds'[d].client = fds[d].client
                /\ fds'[d].mode = fds[d].mode /\ fds'[d].open = fds[d].open
                /\ \/ fds'[d].removed = fds[d].removed
                   \/ fds[d].file = f /\ fds'[d].removed = content[f]
<1>1. /\ fds \in Seq(FileMeta) /\ content[f] \subseteq Number
      /\ DOMAIN fds = 1..Len(fds) /\ Len(fds) \in Nat
    BY DEF TypeInv, TypeOK
<1>2. ASSUME NEW d \in DOMAIN fds
      PROVE  /\ fds'[d] \in FileMeta
             /\ fds'[d].file = fds[d].file /\ fds'[d].client = fds[d].client
             /\ fds'[d].mode = fds[d].mode /\ fds'[d].open = fds[d].open
             /\ \/ fds'[d].removed = fds[d].removed
                \/ fds[d].file = f /\ fds'[d].removed = content[f]
  <2>1. fds[d] \in FileMeta
      BY <1>1, ElementOfSeq
  <2>2. /\ [fds[d] EXCEPT !.removed = content[f]] \in FileMeta
        /\ [fds[d] EXCEPT !.removed = content[f]].file = fds[d].file
        /\ [fds[d] EXCEPT !.removed = content[f]].client = fds[d].client
        /\ [fds[d] EXCEPT !.removed = content[f]].mode = fds[d].mode
        /\ [fds[d] EXCEPT !.removed = content[f]].open = fds[d].open
        /\ [fds[d] EXCEPT !.removed = content[f]].removed = content[f]
      BY <1>1, <2>1 DEF FileMeta
  <2>3. fds'[d] = IF fds[d].file = f /\ fds[d].removed = None
                  THEN [fds[d] EXCEPT !.removed = content[f]] ELSE fds[d]
      OBVIOUS
  <2>4. CASE fds[d].file = f /\ fds[d].removed = None
      BY <2>2, <2>3, <2>4
  <2>5. CASE ~(fds[d].file = f /\ fds[d].removed = None)
      BY <2>1, <2>3, <2>5
  <2> QED
      BY <2>4, <2>5
<1>3. DOMAIN fds' = DOMAIN fds
    OBVIOUS
<1>4. fds' \in [1..Len(fds) -> FileMeta]
  <2>1. fds' = [d \in 1..Len(fds) |-> fds'[d]]
      BY <1>1
  <2> QED
      BY <1>1, <1>2, <2>1
<1>5. fds' \in Seq(FileMeta) /\ Len(fds') = Len(fds)
    BY <1>1, <1>4
<1> QED
    BY <1>2, <1>3, <1>5

LEMMA DeleteRegular ==
    ASSUME TypeInv, NEW c \in Client, NEW f \in File, NEW heard \in BOOLEAN,
           Delete(c, f, heard)
    PROVE  Regular(c, f) /\ Dropped(c, f)
<1>1. /\ opening[c] = None
      /\ cache[c][f] # None => ~cache[c][f].dirty
      /\ Redirected(c) /\ SetEntry(c, f, None) /\ Count
      /\ SetLRU(c, IF heard THEN RemoveFirst(lru[c], f) ELSE lru[c])
      /\ UNCHANGED <<primary, primes, frozen, opening, historyVars, faults>>
      /\ None \in CacheEntry \cup {None}
    BY DEF Delete, Deletes, Idle, InCache
<1>2. /\ fds' \in Seq(FileMeta) /\ Len(fds') <= MaxOpenFiles
  <2>1. CASE f \in exists /\ version[f] # Absent
    <3>1. fds' = [d \in DOMAIN fds |->
                     IF fds[d].file = f /\ fds[d].removed = None
                     THEN [fds[d] EXCEPT !.removed = content[f]]
                     ELSE fds[d]]
        BY <2>1 DEF Delete
    <3> QED
        BY <3>1, DeletedTypes DEF TypeInv, TypeOK
  <2>2. CASE ~(f \in exists /\ version[f] # Absent)
      BY <2>2 DEF Delete, TypeInv, TypeOK
  <2> QED
      BY <2>1, <2>2
<1>3. ServerTypes
  <2>1. /\ exists' \subseteq File /\ content' \in [File -> SUBSET Number]
        /\ version' \in [File -> Version]
      BY DEF Delete, TypeInv, TypeOK, Version
  <2> QED
      BY <1>1, <1>2, <2>1, CountTypes DEF ServerTypes, TypeInv, TypeOK, historyVars
<1>4. /\ lru' \in [Client -> Seq(File)]
      /\ \A d \in Client \ {c} : lru'[d] = lru[d]
  <2>1. lru[c] \in Seq(File)
      BY DEF TypeInv, TypeOK
  <2>2. (IF heard THEN RemoveFirst(lru[c], f) ELSE lru[c]) \in Seq(File)
      BY <2>1, RemoveFirstLists
  <2> QED
      BY <1>1, <2>2, SetLRUTypes
<1>5. /\ opening' \in [Client -> File \cup {None}] /\ opening' = opening
      /\ unsaved' = unsaved /\ unsaved \in [Client -> SUBSET Number]
      /\ MaybeRedirected(c)
    BY <1>1 DEF TypeInv, TypeOK, historyVars, MaybeRedirected
<1>6. Regular(c, f) /\ cache'[c][f] = None
    BY <1>1, <1>3, <1>4, <1>5, EntryRegular
<1> QED
    BY <1>1, <1>6 DEF Dropped

LEMMA DeleteFailsRegular ==
    ASSUME TypeInv, NEW c \in Client, NEW f \in File, DeleteFails(c, f)
    PROVE  Regular(c, f) /\ Dropped(c, f)
<1>1. /\ opening[c] = None
      /\ cache[c][f] # None => ~cache[c][f].dirty
      /\ MaybeRedirected(c) /\ SetEntry(c, f, None)
      /\ UNCHANGED <<serverVars, lru, opening, historyVars, boundVars>>
      /\ None \in CacheEntry \cup {None}
    BY DEF DeleteFails, Deletes, Idle, InCache
<1>2. ServerTypes
    BY <1>1, UnchangedTypes DEF historyVars
<1>3. /\ opening' \in [Client -> File \cup {None}] /\ opening' = opening
      /\ unsaved' = unsaved /\ unsaved \in [Client -> SUBSET Number]
      /\ lru' = lru /\ lru \in [Client -> Seq(File)]
    BY <1>1 DEF TypeInv, TypeOK, historyVars
<1>4. Regular(c, f) /\ cache'[c][f] = None
    BY <1>1, <1>2, <1>3, EntryRegular
<1> QED
    BY <1>1, <1>4 DEF Dropped

-----------------------------------------------------------------------------
LEMMA CallRegular ==
    ASSUME TypeInv, NEW c \in Client, NEW f \in File, AnyCall(c, f)
    PROVE  Regular(c, f)
<1>1. ASSUME NEW heard \in BOOLEAN,
             Create(c, f, heard) \/ Commit(c, f, heard) \/ Close(c, f, heard)
               \/ Delete(c, f, heard) \/ OpenValid(c, f, heard)
      PROVE  Regular(c, f)
    BY <1>1, CreateRegular, CommitRegular, CloseRegular, DeleteRegular,
       OpenValidRegular
<1>2. ASSUME NEW mode \in Mode, NEW heard \in BOOLEAN, Open(c, f, mode, heard)
      PROVE  Regular(c, f)
    BY <1>2, OpenRegular
<1>3. ASSUME NEW mode \in Mode, TestAuth(c, f, mode) \/ OpenFails(c, f, mode)
      PROVE  Regular(c, f)
    BY <1>3, TestAuthRegular, OpenFailsRegular
<1>4. ASSUME NEW numbers \in SUBSET Numbers(f), NEW keep \in BOOLEAN,
             Change(c, f, numbers, keep)
      PROVE  Regular(c, f)
    BY <1>4, ChangeRegular
<1>5. CASE OpenValidFails(c, f) \/ ReadFile(c, f) \/ Read(c, f) \/ LeaseExpires(c, f)
    BY <1>5, OpenValidFailsRegular, ReadFileRegular, ReadRegular, LeaseExpiresRegular
<1>6. CASE CreateFails(c, f) \/ DeleteFails(c, f) \/ Refused(c, f) \/ Freezes(c, f)
    BY <1>6, CreateFailsRegular, DeleteFailsRegular, RefusedRegular
<1> QED
    BY <1>1, <1>2, <1>3, <1>4, <1>5, <1>6 DEF AnyCall

LEMMA TypeInit == Init => TypeInv
<1> SUFFICES ASSUME Init PROVE TypeInv
    OBVIOUS
<1>1. /\ primary \in 1..MaxPrimaries /\ conn \in [Client -> 1..primary]
      /\ calls \in 0..MaxCalls /\ faults \in 0..MaxFaults
    BY CacheAssumption DEF Init
<1>2. /\ exists \subseteq File /\ content \in [File -> SUBSET Number]
      /\ primes \in [File -> SUBSET Number] /\ shown \in [File -> SUBSET Number]
      /\ version \in [File -> Version] /\ frozen \in BOOLEAN
    BY CacheAssumption DEF Init, Version
<1>3. /\ fds \in Seq(FileMeta) /\ Len(fds) <= MaxOpenFiles
      /\ lru \in [Client -> Seq(File)]
    BY CacheAssumption DEF Init
<1>4. /\ cache \in [Client -> [File -> CacheEntry \cup {None}]]
      /\ opening \in [Client -> File \cup {None}]
      /\ unsaved \in [Client -> SUBSET Number]
    BY DEF Init
<1>5. Underway
    BY DEF Init, Underway
<1> QED
    BY <1>1, <1>2, <1>3, <1>4, <1>5 DEF TypeInv, TypeOK

LEMMA TypeNext ==
    ASSUME TypeInv, AnyNext \/ UNCHANGED vars
    PROVE  TypeInv'
<1>1. ASSUME NEW c \in Client, NEW f \in File, AnyCall(c, f) PROVE TypeInv'
  <2>1. Regular(c, f)
      BY <1>1, CallRegular
  <2>2. TypeOK'
      BY <2>1, TypesTogether DEF Regular
  <2>3. ASSUME NEW d \in Client, opening'[d] # None
        PROVE  cache'[d][opening'[d]] # None /\ ~cache'[d][opening'[d]].dirty
      BY <2>1, <2>3 DEF Regular, OthersKeep, TypeInv, Underway
  <2> QED
      BY <2>2, <2>3 DEF TypeInv, Underway
<1>2. ASSUME NEW c \in Client, Dials(c) PROVE TypeInv'
  <2>1. UNCHANGED <<serverVars, cache, lru, opening, historyVars, boundVars>>
      BY <1>2 DEF Dials
  <2>2. conn' \in [Client -> 1..primary]
      BY <1>2 DEF Dials, TypeInv, TypeOK
  <2>3. TypeOK'
      BY <2>1, <2>2 DEF TypeInv, TypeOK, serverVars, historyVars, boundVars
  <2>4. Underway'
      BY <2>1 DEF TypeInv, Underway
  <2> QED
      BY <2>3, <2>4 DEF TypeInv
<1>3. CASE Failover
  <2>1. UNCHANGED <<exists, content, clientVars, historyVars, calls>> /\ Fault
        /\ primary' = primary + 1 /\ primary < MaxPrimaries
      BY <1>3 DEF Failover
  <2>2. /\ primary' \in 1..MaxPrimaries /\ conn' \in [Client -> 1..primary']
      BY <2>1, CacheAssumption DEF clientVars, TypeInv, TypeOK
  <2>3. fds' \in Seq(FileMeta) /\ Len(fds') <= MaxOpenFiles
      BY <1>3, CacheAssumption DEF Failover
  <2>4. TypeOK'
      BY <1>3, <2>1, <2>2, <2>3, CountTypes
      DEF Failover, TypeInv, TypeOK, clientVars, historyVars, Version, Absent
  <2>5. Underway'
      BY <2>1 DEF TypeInv, Underway, clientVars
  <2> QED
      BY <2>4, <2>5 DEF TypeInv
<1>4. CASE UNCHANGED vars
  <2>1. TypeOK'
      BY <1>4 DEF vars, serverVars, clientVars, historyVars, boundVars, TypeInv, TypeOK
  <2>2. Underway'
      BY <1>4 DEF vars, clientVars, TypeInv, Underway
  <2> QED
      BY <2>1, <2>2 DEF TypeInv
<1> QED
    BY <1>1, <1>2, <1>3, <1>4 DEF AnyNext

(* The variables have their types; the descriptors are within the limit.   *)
THEOREM CacheTypesCorrect == Spec => []TypeOK
<1>1. TypeInv => TypeOK
    BY DEF TypeInv
<1>2. TypeInv /\ [Next]_vars => TypeInv'
    BY NextIsAny, TypeNext
<1> QED
    BY <1>1, <1>2, TypeInit, PTL DEF Spec

-----------------------------------------------------------------------------
(* The cache and its list: fewer entries need no other list, making room   *)
(* leaves room for one entry more.                                         *)
LEMMA FewerTidy ==
    ASSUME NEW a, NEW q, NEW b, NEW r, Tidy(a, q), Named(b) \subseteq Named(a),
           Distinct(r), \A g \in Named(b) : Lists(q, g) => Lists(r, g)
    PROVE  Tidy(b, r)
<1>1. IsFiniteSet(Named(b)) /\ Cardinality(Named(b)) <= Cardinality(Named(a))
    BY FS_Subset DEF Tidy
<1>2. Cardinality(Named(b)) \in Nat /\ Cardinality(Named(a)) \in Nat
    BY <1>1, FS_CardinalityType DEF Tidy
<1>3. Cardinality(Named(b)) <= maxCacheEntries
    BY <1>1, <1>2, CacheAssumption DEF Tidy
<1> QED
    BY <1>1, <1>3 DEF Tidy

LEMMA RoomTidy ==
    ASSUME TypeInv, NEW c \in Client, HasRoom(c), Tidy(cache[c], lru[c])
    PROVE  /\ Tidy(RoomyCache(c), RoomyLRU(c))
           /\ Cardinality(Named(RoomyCache(c))) < maxCacheEntries
<1> DEFINE a == cache[c]
           q == lru[c]
<1>1. /\ q \in Seq(File) /\ a \in [File -> CacheEntry \cup {None}]
      /\ InCache(c) = Named(a)
    BY DEF TypeInv, TypeOK, InCache, Named
<1>2. /\ IsFiniteSet(Named(a)) /\ Cardinality(Named(a)) \in Nat
      /\ maxCacheEntries \in Nat /\ Cardinality(Named(a)) <= maxCacheEntries
    BY FS_CardinalityType, CacheAssumption DEF Tidy
<1>3. CASE ~IsFull(c)
  <2>1. RoomyCache(c) = a /\ RoomyLRU(c) = q
      BY <1>3 DEF RoomyCache, RoomyLRU
  <2>2. Cardinality(Named(a)) < maxCacheEntries
      BY <1>1, <1>2, <1>3 DEF IsFull
  <2> QED
      BY <2>1, <2>2
<1>4. CASE IsFull(c)
  <2> DEFINE v == Min(Victims(c))
             b == [a EXCEPT ![q[v]] = None]
  <2>1. Victims(c) # {} /\ Victims(c) \in SUBSET Nat
      BY <1>1, <1>4 DEF HasRoom, Victims
  <2>2. v \in Victims(c)
      BY <2>1, LeastNatural
  <2>3. RoomyCache(c) = b /\ RoomyLRU(c) = RemoveAt(q, v)
      BY <1>4 DEF RoomyCache, RoomyLRU
  <2> HIDE DEF v, a, q
  <2>4. v \in DOMAIN q /\ q[v] \in Named(a)
      BY <1>1, <2>2 DEF Victims, q
  <2>5. Named(b) = Named(a) \ {q[v]}
      BY <1>1, <2>4 DEF Named
  <2>6. Cardinality(Named(b)) = Cardinality(Named(a)) - 1
      BY <1>2, <2>4, <2>5, FS_RemoveElement
  <2>7. /\ Distinct(RemoveAt(q, v))
        /\ \A f : f # q[v] /\ Lists(q, f) => Lists(RemoveAt(q, v), f)
      BY <1>1, <2>4, RemoveAtLists DEF Tidy, q, a
  <2>8. Tidy(b, RemoveAt(q, v))
      BY <2>5, <2>7, FewerTidy DEF q, a
  <2> QED
      BY <1>2, <2>3, <2>6, <2>8
<1> QED
    BY <1>3, <1>4

LEMMA AddedTidy ==
    ASSUME NEW a \in [File -> CacheEntry \cup {None}], NEW q \in Seq(File),
           Tidy(a, q), NEW f \in File, NEW e \in CacheEntry,
           Cardinality(Named(a)) < maxCacheEntries \/ f \in Named(a)
    PROVE  Tidy([a EXCEPT ![f] = e], Touched(q, f))
<1> DEFINE b == [a EXCEPT ![f] = e]
<1>1. Named(b) = Named(a) \cup {f}
    BY NoneAssumption DEF Named
<1>2. /\ IsFiniteSet(Named(a)) /\ Cardinality(Named(a)) \in Nat
      /\ maxCacheEntries \in Nat /\ Cardinality(Named(a)) <= maxCacheEntries
    BY FS_CardinalityType, CacheAssumption DEF Tidy
<1>3. IsFiniteSet(Named(b)) /\ Cardinality(Named(b)) <= maxCacheEntries
  <2>1. CASE f \in Named(a)
    <3>1. Named(b) = Named(a)
        BY <1>1, <2>1
    <3> QED
        BY <1>2, <3>1
  <2>2. CASE f \notin Named(a)
    <3>1. /\ IsFiniteSet(Named(a) \cup {f})
          /\ Cardinality(Named(a) \cup {f}) = Cardinality(Named(a)) + 1
        BY <1>2, <2>2, FS_AddElement
    <3>2. Cardinality(Named(a)) + 1 <= maxCacheEntries
        BY <1>2, <2>2
    <3> QED
        BY <1>1, <3>1, <3>2
  <2> QED
      BY <2>1, <2>2
<1>4. /\ Distinct(Touched(q, f)) /\ Lists(Touched(q, f), f)
      /\ \A g : Lists(q, g) => Lists(Touched(q, f), g)
    BY TouchedLists DEF Tidy
<1>5. \A g \in Named(b) : Lists(Touched(q, f), g)
    BY <1>1, <1>4 DEF Tidy
<1> QED
    BY <1>3, <1>4, <1>5 DEF Tidy

(* A call that puts no new entry in the cache, and touches its file, or    *)
(* drops it.                                                               *)
LEMMA FewerStepTidy ==
    ASSUME TypeInv, ListInv, NEW c \in Client, NEW f \in File, Regular(c, f),
           cache'[c][f] = None \/ cache[c][f] # None,
           \/ lru'[c] = lru[c] \/ lru'[c] = Touched(lru[c], f)
           \/ lru'[c] = RemoveFirst(lru[c], f) /\ cache'[c][f] = None
    PROVE  Tidy(cache'[c], lru'[c])
<1>1. Tidy(cache[c], lru[c]) /\ lru[c] \in Seq(File)
    BY DEF ListInv, TypeInv, TypeOK
<1>2. Named(cache'[c]) \subseteq Named(cache[c])
    BY DEF Regular, Named
<1>3. Distinct(lru'[c]) /\ \A g \in Named(cache'[c]) : Lists(lru[c], g) => Lists(lru'[c], g)
  <2>1. CASE lru'[c] = lru[c]
      BY <1>1, <2>1 DEF Tidy
  <2>2. CASE lru'[c] = Touched(lru[c], f)
      BY <1>1, <2>2, TouchedLists DEF Tidy
  <2>3. CASE lru'[c] = RemoveFirst(lru[c], f) /\ cache'[c][f] = None
    <3>1. f \notin Named(cache'[c])
        BY <2>3 DEF Named
    <3> QED
        BY <1>1, <2>3, <3>1, RemoveFirstLists DEF Tidy
  <2> QED
      BY <2>1, <2>2, <2>3
<1> QED
    BY <1>1, <1>2, <1>3, FewerTidy

LEMMA RoomStepTidy ==
    ASSUME TypeInv, ListInv, NEW c \in Client, HasRoom(c),
           SetCache(c, RoomyCache(c)), SetLRU(c, RoomyLRU(c))
    PROVE  Tidy(cache'[c], lru'[c])
BY RoomTidy, RoomTypes, SetCacheTypes, SetLRUTypes DEF ListInv

LEMMA AddedStepTidy ==
    ASSUME TypeInv, NEW c \in Client, NEW f \in File, NEW e \in CacheEntry,
           NEW entries \in [File -> CacheEntry \cup {None}], NEW q \in Seq(File),
           Tidy(entries, q),
           Cardinality(Named(entries)) < maxCacheEntries \/ f \in Named(entries),
           SetCache(c, [entries EXCEPT ![f] = e]), SetLRU(c, Touched(q, f))
    PROVE  Tidy(cache'[c], lru'[c])
<1>1. Tidy([entries EXCEPT ![f] = e], Touched(q, f))
    BY AddedTidy
<1>2. [entries EXCEPT ![f] = e] \in [File -> CacheEntry \cup {None}]
    OBVIOUS
<1>3. Touched(q, f) \in Seq(File)
    BY TouchedLists
<1> QED
    BY <1>1, <1>2, <1>3, SetCacheTypes, SetLRUTypes

LEMMA CreateTidy ==
    ASSUME TypeInv, ListInv, NEW c \in Client, NEW f \in File, NEW heard \in BOOLEAN,
           Create(c, f, heard)
    PROVE  Tidy(cache'[c], lru'[c])
<1>1. HasRoom(c)
    BY DEF Create
<1>2. CASE heard
  <2>1. /\ SetCache(c, [RoomyCache(c) EXCEPT ![f] = Created(Len(fds))])
        /\ SetLRU(c, Touched(RoomyLRU(c), f))
      BY <1>2 DEF Create
  <2>2. Created(Len(fds)) \in CacheEntry
      BY NewEntries DEF Mode
  <2> QED
      BY <1>1, <2>1, <2>2, RoomTidy, RoomTypes, AddedStepTidy DEF ListInv
<1>3. CASE ~heard
  <2>1. SetCache(c, RoomyCache(c)) /\ SetLRU(c, RoomyLRU(c))
      BY <1>3 DEF Create
  <2> QED
      BY <1>1, <2>1, RoomStepTidy
<1> QED
    BY <1>2, <1>3

LEMMA OpenTidy ==
    ASSUME TypeInv, ListInv, NEW c \in Client, NEW f \in File, NEW mode \in Mode,
           NEW heard \in BOOLEAN, Open(c, f, mode, heard)
    PROVE  Tidy(cache'[c], lru'[c])
<1>1. Fetched(f, mode) \in CacheEntry
    BY NewEntries
<1>2. CASE f \notin InCache(c)
  <2>1. HasRoom(c)
      BY <1>2 DEF Open
  <2>2. CASE heard
    <3>1. /\ SetCache(c, [RoomyCache(c) EXCEPT ![f] = Fetched(f, mode)])
          /\ SetLRU(c, Touched(RoomyLRU(c), f))
        BY <1>2, <2>2 DEF Open
    <3> QED
        BY <1>1, <2>1, <3>1, RoomTidy, RoomTypes, AddedStepTidy DEF ListInv
  <2>3. CASE ~heard
    <3>1. SetCache(c, RoomyCache(c)) /\ SetLRU(c, RoomyLRU(c))
        BY <1>2, <2>3 DEF Open
    <3> QED
        BY <2>1, <3>1, RoomStepTidy
  <2> QED
      BY <2>2, <2>3
<1>3. CASE f \in InCache(c)
  <2>1. /\ cache[c] \in [File -> CacheEntry \cup {None}] /\ lru[c] \in Seq(File)
        /\ f \in Named(cache[c]) /\ Tidy(cache[c], lru[c])
      BY <1>3 DEF InCache, Named, TypeInv, TypeOK, ListInv
  <2>2. CASE heard
    <3>1. /\ SetCache(c, [cache[c] EXCEPT ![f] = Fetched(f, mode)])
          /\ SetLRU(c, Touched(lru[c], f))
        BY <1>3, <2>2 DEF Open
    <3> QED
        BY <1>1, <2>1, <3>1, AddedStepTidy
  <2>3. CASE ~heard
    <3>1. SetCache(c, cache[c]) /\ SetLRU(c, lru[c])
        BY <1>3, <2>3 DEF Open
    <3> QED
        BY <2>1, <3>1, SetCacheTypes, SetLRUTypes
  <2> QED
      BY <2>2, <2>3
<1> QED
    BY <1>2, <1>3

LEMMA CallTidy ==
    ASSUME TypeInv, ListInv, NEW c \in Client, NEW f \in File, AnyCall(c, f)
    PROVE  Tidy(cache'[c], lru'[c])
<1>1. Regular(c, f) /\ lru[c] \in Seq(File)
    BY CallRegular DEF TypeInv, TypeOK
<1>2. ASSUME NEW heard \in BOOLEAN, Create(c, f, heard)
      PROVE  Tidy(cache'[c], lru'[c])
    BY <1>2, CreateTidy
<1>3. ASSUME NEW mode \in Mode, NEW heard \in BOOLEAN, Open(c, f, mode, heard)
      PROVE  Tidy(cache'[c], lru'[c])
    BY <1>3, OpenTidy
<1>4. CASE /\ cache[c][f] # None
           /\ lru' = lru \/ Touch(c, f)
  <2>1. lru'[c] = lru[c] \/ lru'[c] = Touched(lru[c], f)
      BY <1>4, TouchTypes
  <2> QED
      BY <1>1, <1>4, <2>1, FewerStepTidy
<1>5. CASE UNCHANGED <<cache, lru>>
    BY <1>5 DEF ListInv
<1>6. ASSUME NEW heard \in BOOLEAN, Commit(c, f, heard) \/ Close(c, f, heard)
      PROVE  Tidy(cache'[c], lru'[c])
    BY <1>4, <1>6 DEF Commit, Commits, Close, Closes, InCache
<1>7. ASSUME NEW heard \in BOOLEAN, Delete(c, f, heard)
      PROVE  Tidy(cache'[c], lru'[c])
  <2>1. cache'[c][f] = None
      BY <1>7, DeleteRegular DEF Dropped
  <2>2. SetLRU(c, IF heard THEN RemoveFirst(lru[c], f) ELSE lru[c])
      BY <1>7 DEF Delete
  <2>3. RemoveFirst(lru[c], f) \in Seq(File)
      BY <1>1, RemoveFirstLists
  <2>4. lru'[c] = lru[c] \/ lru'[c] = RemoveFirst(lru[c], f)
      BY <1>1, <2>2, <2>3, SetLRUTypes
  <2> QED
      BY <1>1, <2>1, <2>4, FewerStepTidy
<1>8. ASSUME DeleteFails(c, f)
      PROVE  Tidy(cache'[c], lru'[c])
  <2>1. cache'[c][f] = None /\ lru'[c] = lru[c]
      BY <1>8, DeleteFailsRegular DEF Dropped, DeleteFails
  <2> QED
      BY <1>1, <2>1, FewerStepTidy
<1>9. ASSUME NEW mode \in Mode, TestAuth(c, f, mode)
      PROVE  Tidy(cache'[c], lru'[c])
    BY <1>4, <1>9 DEF TestAuth, NeedsAuth, InCache
<1>10. ASSUME NEW mode \in Mode, OpenFails(c, f, mode)
       PROVE  Tidy(cache'[c], lru'[c])
    BY <1>5, <1>10, RoomStepTidy DEF OpenFails
<1>11. ASSUME CreateFails(c, f)
       PROVE  Tidy(cache'[c], lru'[c])
    BY <1>11, RoomStepTidy DEF CreateFails
<1>12. ASSUME NEW heard \in BOOLEAN, OpenValid(c, f, heard)
       PROVE  Tidy(cache'[c], lru'[c])
  <2>1. cache[c][f] # None /\ lru' = lru
      BY <1>12, OpenValidRegular, NoneAssumption DEF OpenValid
  <2> QED
      BY <1>4, <2>1
<1>13. ASSUME NEW numbers \in SUBSET Numbers(f), NEW keep \in BOOLEAN,
              Change(c, f, numbers, keep)
       PROVE  Tidy(cache'[c], lru'[c])
    BY <1>4, <1>13 DEF Change, InCache
<1>14. ASSUME ReadFile(c, f) \/ Read(c, f)
       PROVE  Tidy(cache'[c], lru'[c])
    BY <1>4, <1>14 DEF ReadFile, Read, InCache
<1>15. ASSUME OpenValidFails(c, f) \/ LeaseExpires(c, f) \/ Refused(c, f) \/ Freezes(c, f)
       PROVE  Tidy(cache'[c], lru'[c])
    BY <1>5, <1>15 DEF OpenValidFails, LeaseExpires, Refused, Freezes, clientVars
<1> QED
    BY <1>2, <1>3, <1>6, <1>7, <1>8, <1>9, <1>10, <1>11, <1>12, <1>13, <1>14, <1>15
    DEF AnyCall

LEMMA ListNext ==
    ASSUME TypeInv, ListInv, AnyNext \/ UNCHANGED vars
    PROVE  ListInv'
<1>1. ASSUME NEW c \in Client, NEW f \in File, AnyCall(c, f) PROVE ListInv'
  <2>1. Regular(c, f) /\ Tidy(cache'[c], lru'[c])
      BY <1>1, CallRegular, CallTidy
  <2> QED
      BY <2>1 DEF Regular, OthersKeep, ListInv
<1>2. CASE UNCHANGED <<cache, lru>>
    BY <1>2 DEF ListInv
<1> QED
    BY <1>1, <1>2 DEF AnyNext, Dials, Failover, clientVars, vars

LEMMA ListInit == Init => ListInv
<1> SUFFICES ASSUME Init, NEW c \in Client PROVE Tidy(cache[c], lru[c])
    BY DEF ListInv
<1>1. Named(cache[c]) = {} /\ lru[c] = <<>>
    BY DEF Init, Named
<1>2. IsFiniteSet({}) /\ Cardinality({}) = 0
    BY FS_EmptySet
<1> QED
    BY <1>1, <1>2, CacheAssumption DEF Tidy, Distinct

LEMMA ListedCorrect == ListInv => CacheListed
<1> SUFFICES ASSUME ListInv, NEW c \in Client
             PROVE  /\ Cardinality(InCache(c)) <= maxCacheEntries
                    /\ \A i, j \in DOMAIN lru[c] : lru[c][i] = lru[c][j] => i = j
                    /\ \A f \in InCache(c) : \E i \in DOMAIN lru[c] : lru[c][i] = f
    BY DEF CacheListed
<1>1. InCache(c) = Named(cache[c])
    BY DEF InCache, Named
<1> QED
    BY <1>1 DEF ListInv, Tidy, Distinct, Lists

(* The cache stays within its limit, and every file in it is in the list,  *)
(* nothing twice, whatever fails.                                          *)
THEOREM CacheStaysListed == Spec => []CacheListed
<1> DEFINE Inv == TypeInv /\ ListInv
<1>1. Init => Inv
    BY TypeInit, ListInit
<1>2. Inv /\ [Next]_vars => Inv'
    BY NextIsAny, TypeNext, ListNext
<1>3. Inv => CacheListed
    BY ListedCorrect
<1> QED
    BY <1>1, <1>2, <1>3, PTL DEF Spec

-----------------------------------------------------------------------------
(* The calls of programs that are careful.                                 *)
CarefulCall(c, f) ==
    \/ \E heard \in BOOLEAN : \/ Create(c, f, heard) /\ cache[c][f] = None
                              \/ Close(c, f, heard) /\ ~cache[c][f].closed
                              \/ Commit(c, f, heard) \/ Delete(c, f, heard)
                              \/ OpenValid(c, f, heard)
    \/ \E mode \in Mode, heard \in BOOLEAN : Open(c, f, mode, heard)
    \/ \E mode \in Mode : TestAuth(c, f, mode) \/ OpenFails(c, f, mode)
    \/ \E numbers \in SUBSET Numbers(f), keep \in BOOLEAN :
            Change(c, f, numbers, keep)
    \/ Read(c, f) /\ ~cache[c][f].dirty
    \/ Freezes(c, f) /\ ~cache[c][f].closed
    \/ OpenValidFails(c, f) \/ ReadFile(c, f) \/ LeaseExpires(c, f)
    \/ CreateFails(c, f) \/ DeleteFails(c, f) \/ Refused(c, f)

CarefulNext == \/ \E c \in Client, f \in File : CarefulCall(c, f)
               \/ \E c \in Client : Dials(c)
               \/ Failover

LEMMA CarefulIsAny ==
    /\ \A c \in Client, f \in File : CarefulCall(c, f) => AnyCall(c, f)
    /\ CarefulNext => AnyNext
<1>1. ASSUME NEW c \in Client, NEW f \in File, CarefulCall(c, f)
      PROVE  AnyCall(c, f)
    BY <1>1 DEF CarefulCall, AnyCall
<1> QED
    BY <1>1 DEF CarefulNext, AnyNext

LEMMA NextIsCareful ==
    ASSUME Careful, Next
    PROVE  CarefulNext \/ UNCHANGED vars
<1>1. ASSUME NEW c \in Client, NEW f \in File
      PROVE  /\ Uses(c, f, "create") => cache[c][f] = None
             /\ Uses(c, f, "read") => ~cache[c][f].dirty
             /\ Uses(c, f, "close") => ~cache[c][f].closed
    BY DEF Uses, CarefulUse
<1>2. ASSUME NEW c \in Client, NEW f \in File, AnyCall(c, f)
      PROVE  CarefulCall(c, f)
  <2>1. /\ \A heard \in BOOLEAN : /\ Create(c, f, heard) => cache[c][f] = None
                                  /\ Close(c, f, heard) => ~cache[c][f].closed
        /\ Read(c, f) => ~cache[c][f].dirty
        /\ Freezes(c, f) => ~cache[c][f].closed
      BY <1>1 DEF Create, Close, Read, Freezes, Commits, Closes
  <2> QED
      BY <1>2, <2>1 DEF AnyCall, CarefulCall
<1> QED
    BY <1>2, NextIsAny DEF AnyNext, CarefulNext

(* Of what client c had written, what is not acknowledged is kept in its   *)
(* place by a call about f, and so is what the call writes.                *)
Keeps(c, f) ==
    \A n \in unsaved'[c] :
        IF HomeOf[n] = f
        THEN cache'[c][f] # None /\ n \in cache'[c][f].data /\ cache'[c][f].dirty
        ELSE n \in unsaved[c]

LEMMA UnsavedSame ==
    ASSUME UnsavedKept, NEW c \in Client, NEW f \in File, unsaved' = unsaved,
           Same(c, f) \/ cache[c][f] = None \/ ~cache[c][f].dirty
    PROVE  Keeps(c, f)
BY DEF UnsavedKept, InCache, Same, Keeps

LEMMA UnsavedSaved ==
    ASSUME TypeInv, NEW c \in Client, NEW f \in File,
           unsaved' = [unsaved EXCEPT ![c] = @ \ Numbers(f)]
    PROVE  Keeps(c, f)
<1>1. unsaved'[c] = unsaved[c] \ Numbers(f) /\ unsaved[c] \subseteq Number
    BY DEF TypeInv, TypeOK
<1> QED
    BY <1>1 DEF Keeps, Numbers

LEMMA UnsavedChange ==
    ASSUME TypeInv, UnsavedKept, NEW c \in Client, NEW f \in File,
           NEW numbers \in SUBSET Numbers(f), NEW keep \in BOOLEAN,
           Change(c, f, numbers, keep)
    PROVE  Keeps(c, f)
<1> DEFINE e == cache[c][f]
           data == (IF keep THEN e.data ELSE {}) \cup numbers
<1>1. e \in CacheEntry /\ cache'[c][f] = Written(e, data) /\ Regular(c, f)
    BY ChangeRegular
<1>2. /\ cache'[c][f].data = data /\ cache'[c][f].dirty /\ Written(e, data) # None
  <2>1. cache'[c][f] \in CacheEntry \cup {None}
      BY <1>1 DEF Regular, ClientTypes
  <2>2. numbers \subseteq Number
      BY DEF Numbers
  <2>3. Written(e, data) \in CacheEntry
      BY <1>1, <2>2 DEF Written, CacheEntry
  <2>4. Written(e, data).data = data /\ Written(e, data).dirty
      BY <1>1 DEF Written, CacheEntry
  <2> QED
      BY <1>1, <2>3, <2>4, NoneAssumption
<1>3. /\ unsaved'[c] = (IF keep THEN unsaved[c] ELSE unsaved[c] \ Numbers(f)) \cup numbers
      /\ unsaved[c] \subseteq Number
    BY DEF Change, TypeInv, TypeOK
<1>4. cache'[c][f] # None
    BY <1>1, <1>2
<1> HIDE DEF e
<1>5. ASSUME NEW n \in unsaved'[c], HomeOf[n] = f PROVE n \in data
    BY <1>3, <1>5 DEF UnsavedKept, Numbers, e
<1>6. ASSUME NEW n \in unsaved'[c], HomeOf[n] # f PROVE n \in unsaved[c]
    BY <1>3, <1>6 DEF Numbers
<1> QED
    BY <1>2, <1>4, <1>5, <1>6 DEF Keeps

LEMMA CallKeeps ==
    ASSUME TypeInv, UnsavedKept, NEW c \in Client, NEW f \in File,
           CarefulCall(c, f)
    PROVE  Keeps(c, f)
<1>1. ASSUME NEW heard \in BOOLEAN, Create(c, f, heard), cache[c][f] = None
      PROVE  Keeps(c, f)
    BY <1>1, UnsavedSame DEF Create, historyVars
<1>2. ASSUME NEW heard \in BOOLEAN, Commit(c, f, heard) \/ Close(c, f, heard)
      PROVE  Keeps(c, f)
  <2>1. CASE heard
      BY <1>2, <2>1, UnsavedSaved DEF Commit, Close
  <2>2. CASE ~heard
      BY <1>2, <2>2, UnsavedSame DEF Commit, Close, Same
  <2> QED
      BY <2>1, <2>2
<1>3. ASSUME NEW heard \in BOOLEAN, Delete(c, f, heard) PROVE Keeps(c, f)
    BY <1>3, DeleteRegular, UnsavedSame DEF Delete, Dropped, historyVars
<1>4. ASSUME NEW mode \in Mode, NEW heard \in BOOLEAN, Open(c, f, mode, heard)
      PROVE  Keeps(c, f)
    BY <1>4, OpenRegular, UnsavedSame DEF Open, Dropped, historyVars
<1>5. ASSUME NEW mode \in Mode, TestAuth(c, f, mode) PROVE Keeps(c, f)
    BY <1>5, TestAuthRegular, UnsavedSame DEF TestAuth, historyVars
<1>6. ASSUME NEW mode \in Mode, OpenFails(c, f, mode) PROVE Keeps(c, f)
    BY <1>6, OpenFailsRegular, UnsavedSame DEF OpenFails, Dropped, historyVars
<1>7. ASSUME NEW heard \in BOOLEAN, OpenValid(c, f, heard) PROVE Keeps(c, f)
    BY <1>7, OpenValidRegular, UnsavedSame DEF OpenValid, historyVars
<1>8. ASSUME NEW numbers \in SUBSET Numbers(f), NEW keep \in BOOLEAN,
             Change(c, f, numbers, keep)
      PROVE  Keeps(c, f)
    BY <1>8, UnsavedChange
<1>9. ASSUME OpenValidFails(c, f) \/ ReadFile(c, f) \/ LeaseExpires(c, f)
               \/ Refused(c, f) \/ Freezes(c, f)
      PROVE  Keeps(c, f)
    BY <1>9, UnsavedSame
    DEF OpenValidFails, ReadFile, LeaseExpires, Refused, Freezes, Same,
        historyVars, clientVars
<1>10. ASSUME Read(c, f), ~cache[c][f].dirty PROVE Keeps(c, f)
    BY <1>10, UnsavedSame DEF Read, historyVars
<1>11. ASSUME CreateFails(c, f) PROVE Keeps(c, f)
    BY <1>11, CreateFailsRegular, UnsavedSame DEF CreateFails, Dropped, historyVars
<1>12. ASSUME DeleteFails(c, f) PROVE Keeps(c, f)
    BY <1>12, DeleteFailsRegular, UnsavedSame DEF DeleteFails, Dropped, historyVars
<1> QED
    BY <1>1, <1>2, <1>3, <1>4, <1>5, <1>6, <1>7, <1>8, <1>9, <1>10, <1>11, <1>12
    DEF CarefulCall

LEMMA UnsavedNext ==
    ASSUME TypeInv, UnsavedKept, CarefulNext \/ UNCHANGED vars
    PROVE  UnsavedKept'
<1>1. ASSUME NEW c \in Client, NEW f \in File, CarefulCall(c, f)
      PROVE  UnsavedKept'
  <2>1. Regular(c, f) /\ Keeps(c, f)
      BY <1>1, CarefulIsAny, CallRegular, CallKeeps
  <2>2. ASSUME NEW d \in Client, NEW n \in unsaved'[d]
        PROVE  /\ HomeOf[n] \in File /\ cache'[d][HomeOf[n]] # None
               /\ n \in cache'[d][HomeOf[n]].data /\ cache'[d][HomeOf[n]].dirty
    <3>1. n \in Number
        BY <2>1 DEF Regular, ClientTypes
    <3>2. HomeOf[n] \in File
        BY <3>1, CacheAssumption
    <3>3. CASE d # c
        BY <2>1, <3>2, <3>3 DEF Regular, OthersKeep, UnsavedKept, InCache
    <3>4. CASE d = c /\ HomeOf[n] = f
        BY <2>1, <3>2, <3>4 DEF Keeps
    <3>5. CASE d = c /\ HomeOf[n] # f
      <4>1. /\ n \in unsaved[c] /\ n \in cache[c][HomeOf[n]].data
            /\ cache[c][HomeOf[n]] # None /\ cache[c][HomeOf[n]].dirty
          BY <2>1, <3>5 DEF Keeps, UnsavedKept, InCache
      <4>2. cache'[c][HomeOf[n]] = cache[c][HomeOf[n]]
          BY <2>1, <3>2, <3>5, <4>1 DEF Regular, Evictable
      <4> QED
          BY <3>2, <3>5, <4>1, <4>2
    <3> QED
        BY <3>3, <3>4, <3>5
  <2> QED
      BY <2>2 DEF UnsavedKept, InCache
<1>2. CASE UNCHANGED <<cache, unsaved>>
    BY <1>2 DEF UnsavedKept, InCache
<1> QED
    BY <1>1, <1>2 DEF CarefulNext, Dials, Failover, clientVars, historyVars, vars

LEMMA UnsavedInit == Init => UnsavedKept
BY DEF Init, UnsavedKept

(* A careful program loses nothing: what it wrote stays in its local copy  *)
(* until a Commit or a Close is acknowledged.                              *)
THEOREM NothingUnsavedIsLost ==
    ASSUME Careful
    PROVE  Spec => []UnsavedKept
<1> DEFINE Inv == TypeInv /\ UnsavedKept
<1>1. Init => Inv
    BY TypeInit, UnsavedInit
<1>2. Inv /\ [Next]_vars => Inv'
    BY NextIsAny, NextIsCareful, TypeNext, UnsavedNext
<1>3. Inv => UnsavedKept
    OBVIOUS
<1> QED
    BY <1>1, <1>2, <1>3, PTL DEF Spec

-----------------------------------------------------------------------------
(* Descriptors go on naming the client and the file they were made for,    *)
(* and what a file has held, it has held.                                  *)
Continues(old, new) ==
    \A d \in DOMAIN old : /\ d \in DOMAIN new
                          /\ new[d].client = old[d].client /\ new[d].file = old[d].file

(* What a call of a careful program does to the server.                    *)
ServerKeeps ==
    /\ Continues(fds, fds')
    /\ \A g \in File : shown[g] \subseteq shown'[g]
    /\ FilesInv' /\ RemovedInv'

LEMMA SoundStays ==
    ASSUME NEW old, NEW new, NEW held, NEW more, NEW e, NEW c, NEW f,
           Sound(old, held, e, c, f), Continues(old, new), held \subseteq more
    PROVE  Sound(new, more, e, c, f)
BY DEF Sound, Continues, Owned

(* What may become of the content of files and of what descriptors read.   *)
LEMMA FilesStep ==
    ASSUME FilesInv, RemovedInv, Continues(fds, fds'),
           \A g \in File : /\ shown[g] \subseteq shown'[g]
                           /\ \/ content'[g] \subseteq content[g]
                              \/ content'[g] \subseteq Home(g) \cap shown'[g]
                           /\ primes'[g] \subseteq Home(g),
           \A d \in DOMAIN fds' :
                /\ fds'[d].file \in File
                /\ \/ fds'[d].removed = None
                   \/ d \in DOMAIN fds /\ fds'[d].removed = fds[d].removed
                   \/ d \in DOMAIN fds /\ fds'[d].removed = content[fds[d].file]
    PROVE  ServerKeeps
<1>1. FilesInv'
    BY DEF FilesInv
<1>2. ASSUME NEW d \in DOMAIN fds', fds'[d].removed # None
      PROVE  fds'[d].removed \subseteq Home(fds'[d].file) \cap shown'[fds'[d].file]
  <2>1. d \in DOMAIN fds /\ fds'[d].file = fds[d].file /\ fds[d].file \in File
      BY <1>2 DEF Continues
  <2>2. CASE fds'[d].removed = fds[d].removed
      BY <1>2, <2>1, <2>2 DEF RemovedInv
  <2>3. CASE fds'[d].removed = content[fds[d].file]
      BY <2>1, <2>3 DEF FilesInv
  <2> QED
      BY <1>2, <2>2, <2>3
<1> QED
    BY <1>1, <1>2 DEF ServerKeeps, RemovedInv

LEMMA DescriptorTypes ==
    ASSUME TypeInv
    PROVE  \A d \in DOMAIN fds : fds[d] \in FileMeta /\ fds[d].file \in File
<1>1. fds \in Seq(FileMeta)
    BY DEF TypeInv, TypeOK
<1>2. \A d \in DOMAIN fds : fds[d] \in FileMeta
    BY <1>1, ElementOfSeq
<1> QED
    BY <1>2 DEF FileMeta

LEMMA ServerSame ==
    ASSUME TypeInv, FilesInv, RemovedInv, UNCHANGED <<content, primes, fds, shown>>
    PROVE  ServerKeeps
BY DEF ServerKeeps, Continues, FilesInv, RemovedInv

LEMMA ServerRegister ==
    ASSUME TypeInv, FilesInv, RemovedInv, NEW c \in Client, NEW f \in File,
           NEW mode \in Mode, HasSpace, Register(c, f, mode),
           UNCHANGED <<primes, shown>>,
           content' = content \/ content' = [content EXCEPT ![f] = {}]
    PROVE  ServerKeeps /\ Owned(fds', Len(fds), c, f)
<1> DEFINE new == [file |-> f, client |-> c, mode |-> mode, open |-> TRUE,
                   removed |-> None]
<1>1. /\ Len(fds) \in Nat /\ Len(fds) + 1 \in DOMAIN fds'
      /\ DOMAIN fds = 1..Len(fds) /\ DOMAIN fds' = 1..(Len(fds) + 1)
      /\ \A d \in DOMAIN fds : d \in DOMAIN fds' /\ fds'[d] = fds[d]
      /\ fds'[Len(fds) + 1] = new
    BY RegisterTypes
<1>2. new.file = f /\ new.client = c /\ new.removed = None
    OBVIOUS
<1> HIDE DEF new
<1>3. Continues(fds, fds')
    BY <1>1 DEF Continues
<1>4. ASSUME NEW d \in DOMAIN fds'
      PROVE  /\ fds'[d].file \in File
             /\ \/ fds'[d].removed = None
                \/ d \in DOMAIN fds /\ fds'[d].removed = fds[d].removed
  <2>1. CASE d = Len(fds) + 1
      BY <1>1, <1>2, <2>1
  <2>2. CASE d # Len(fds) + 1
    <3>1. d \in DOMAIN fds
        BY <1>1, <2>2
    <3> QED
        BY <1>1, <3>1, DescriptorTypes
  <2> QED
      BY <2>1, <2>2
<1>5. \A g \in File : content'[g] \subseteq content[g]
    BY DEF TypeInv, TypeOK
<1>6. ServerKeeps
    BY <1>3, <1>4, <1>5, FilesStep DEF FilesInv
<1> QED
    BY <1>1, <1>2, <1>6 DEF Owned

LEMMA ServerUnregister ==
    ASSUME TypeInv, FilesInv, RemovedInv, NEW fd, fd + 1 \in DOMAIN fds,
           Unregister(fd), UNCHANGED <<content, primes, shown>>
    PROVE  ServerKeeps
<1>1. /\ DOMAIN fds' = DOMAIN fds
      /\ \A d \in DOMAIN fds :
            /\ fds'[d].file = fds[d].file /\ fds'[d].client = fds[d].client
            /\ fds'[d].removed = fds[d].removed
    BY UnregisterTypes
<1>2. Continues(fds, fds')
    BY <1>1 DEF Continues
<1> QED
    BY <1>1, <1>2, FilesStep, DescriptorTypes DEF FilesInv

(* A careful program's open entry names its own descriptor: what it sends  *)
(* is stored in its file.                                                  *)
LEMMA ServerStore ==
    ASSUME TypeInv, FilesInv, RemovedInv, NEW c \in Client, NEW f \in File,
           NEW e \in CacheEntry, Sound(fds, shown[f], e, c, f), ~e.closed,
           Registered(e.fd, c), NEW merge \in BOOLEAN, Store(e, merge),
           fds' = fds \/ Unregister(e.fd)
    PROVE  ServerKeeps /\ e.data \subseteq shown'[f]
<1>1. TargetOf(e) = f /\ e.fd + 1 \in DOMAIN fds /\ e.data \subseteq Home(f)
    BY RegisteredTypes DEF Sound, Owned, TargetOf
<1> DEFINE numbers == IF merge THEN Merged(f, e) ELSE e.data
<1>2. /\ content' = [content EXCEPT ![f] = numbers]
      /\ primes'  = [primes EXCEPT ![f] = @ \cup e.data]
      /\ shown'   = [shown EXCEPT ![f] = @ \cup numbers]
    BY <1>1 DEF Store
<1>3. /\ content \in [File -> SUBSET Number] /\ primes \in [File -> SUBSET Number]
      /\ shown \in [File -> SUBSET Number]
    BY DEF TypeInv, TypeOK
<1>4. numbers \subseteq Home(f) /\ e.data \subseteq numbers
    BY <1>1 DEF Merged, FilesInv
<1> HIDE DEF numbers
<1>5. \A g \in File : /\ shown[g] \subseteq shown'[g]
                      /\ \/ content'[g] \subseteq content[g]
                         \/ content'[g] \subseteq Home(g) \cap shown'[g]
                      /\ primes'[g] \subseteq Home(g)
    BY <1>1, <1>2, <1>3, <1>4 DEF FilesInv
<1>6. /\ DOMAIN fds' = DOMAIN fds
      /\ \A d \in DOMAIN fds :
            /\ fds'[d].file = fds[d].file /\ fds'[d].client = fds[d].client
            /\ fds'[d].removed = fds[d].removed
    BY <1>1, UnregisterTypes
<1>7. Continues(fds, fds')
    BY <1>6 DEF Continues
<1>8. ServerKeeps
    BY <1>5, <1>6, <1>7, FilesStep, DescriptorTypes
<1> QED
    BY <1>2, <1>3, <1>4, <1>8

LEMMA ServerDelete ==
    ASSUME TypeInv, FilesInv, RemovedInv, NEW c \in Client, NEW f \in File,
           NEW heard \in BOOLEAN, Delete(c, f, heard)
    PROVE  ServerKeeps
<1>1. UNCHANGED <<primes, shown>>
    BY DEF Delete, historyVars
<1>2. CASE f \in exists /\ version[f] # Absent
  <2>1. /\ content' = [content EXCEPT ![f] = {}]
        /\ fds' = [d \in DOMAIN fds |->
                     IF fds[d].file = f /\ fds[d].removed = None
                     THEN [fds[d] EXCEPT !.removed = content[f]]
                     ELSE fds[d]]
      BY <1>2 DEF Delete
  <2>2. /\ DOMAIN fds' = DOMAIN fds
        /\ \A d \in DOMAIN fds :
             /\ fds'[d].file = fds[d].file /\ fds'[d].client = fds[d].client
             /\ \/ fds'[d].removed = fds[d].removed
                \/ fds[d].file = f /\ fds'[d].removed = content[f]
      BY <2>1, DeletedTypes
  <2>3. Continues(fds, fds')
      BY <2>2 DEF Continues
  <2>4. \A g \in File : content'[g] \subseteq content[g]
      BY <2>1 DEF TypeInv, TypeOK
  <2> QED
      BY <1>1, <2>2, <2>3, <2>4, FilesStep, DescriptorTypes DEF FilesInv
<1>3. CASE ~(f \in exists /\ version[f] # Absent)
    BY <1>1, <1>3, ServerSame DEF Delete
<1> QED
    BY <1>2, <1>3

-----------------------------------------------------------------------------
(* An entry that is not shown to be sound anew is as it was, or gone.      *)
SoundAfter(c, f) == Same(c, f) \/ cache'[c][f] = None
                    \/ Sound(fds', shown'[f], cache'[c][f], c, f)

LEMMA CreateSound ==
    ASSUME TypeInv, FilesInv, RemovedInv, NEW c \in Client, NEW f \in File,
           NEW heard \in BOOLEAN, Create(c, f, heard)
    PROVE  ServerKeeps /\ SoundAfter(c, f)
<1>1. ServerKeeps
    BY ServerRegister DEF Create, Mode, historyVars
<1>2. Created(Len(fds)).closed /\ ~Created(Len(fds)).valid /\ Created(Len(fds)).data = {}
    BY DEF Created
<1> QED
    BY <1>1, <1>2, CreateRegular DEF SoundAfter, Sound, Dropped

LEMMA OpenSound ==
    ASSUME TypeInv, FilesInv, RemovedInv, NEW c \in Client, NEW f \in File,
           NEW mode \in Mode, NEW heard \in BOOLEAN, Open(c, f, mode, heard)
    PROVE  ServerKeeps /\ SoundAfter(c, f)
<1>1. ServerKeeps /\ Owned(fds', Len(fds), c, f)
    BY ServerRegister DEF Open, Opens, historyVars
<1>2. /\ ~Fetched(f, mode).valid /\ Fetched(f, mode).data = {}
      /\ Fetched(f, mode).fd = Len(fds)
    BY DEF Fetched
<1> QED
    BY <1>1, <1>2, OpenRegular DEF SoundAfter, Sound, Dropped

LEMMA OpenValidSound ==
    ASSUME TypeInv, FilesInv, RemovedInv, NEW c \in Client, NEW f \in File,
           NEW heard \in BOOLEAN, OpenValid(c, f, heard),
           Sound(fds, shown[f], cache[c][f], c, f)
    PROVE  ServerKeeps /\ SoundAfter(c, f)
<1> DEFINE e == cache[c][f]
<1>1. /\ e \in CacheEntry /\ ~e.dirty
      /\ cache'[c][f] = IF heard THEN Reopened(e) ELSE e
    BY OpenValidRegular
<1>2. ServerKeeps /\ Owned(fds', Len(fds), c, f) /\ shown' = shown
    BY <1>1, ServerRegister DEF OpenValid, Opens, historyVars, CacheEntry
<1>3. /\ Reopened(e).dirty = e.dirty /\ Reopened(e).data = e.data
      /\ Reopened(e).fd = Len(fds)
    BY <1>1 DEF Reopened, CacheEntry
<1> HIDE DEF e
<1>4. CASE heard
    BY <1>1, <1>2, <1>3, <1>4 DEF SoundAfter, Sound, e
<1>5. CASE ~heard
    BY <1>1, <1>2, <1>5 DEF SoundAfter, Same, e
<1> QED
    BY <1>4, <1>5

LEMMA TestAuthSound ==
    ASSUME TypeInv, FilesInv, RemovedInv, NEW c \in Client, NEW f \in File,
           NEW mode \in Mode, TestAuth(c, f, mode),
           Sound(fds, shown[f], cache[c][f], c, f)
    PROVE  ServerKeeps /\ SoundAfter(c, f)
<1> DEFINE e == cache[c][f]
           new == [e EXCEPT !.valid = TRUE, !.mode = mode]
<1>1. e \in CacheEntry /\ ~e.dirty /\ cache'[c][f] = new
    BY TestAuthRegular
<1>2. /\ new.dirty = e.dirty /\ new.data = e.data
      /\ new.fd = e.fd /\ new.closed = e.closed
    BY <1>1 DEF CacheEntry
<1>3. UNCHANGED <<content, primes, fds, shown>>
    BY DEF TestAuth, serverVars, historyVars
<1> HIDE DEF e, new
<1> QED
    BY <1>1, <1>2, <1>3, ServerSame DEF SoundAfter, Sound, e

LEMMA ReadSound ==
    ASSUME TypeInv, FilesInv, RemovedInv, NEW c \in Client, NEW f \in File,
           Read(c, f), ~cache[c][f].dirty, Sound(fds, shown[f], cache[c][f], c, f)
    PROVE  ServerKeeps /\ SoundAfter(c, f)
<1> DEFINE e  == cache[c][f]
           fd == NewestFd(c, f)
           new == [e EXCEPT !.data = Bytes(fd)]
<1>1. e \in CacheEntry /\ cache'[c][f] = new /\ ~e.dirty
    BY ReadRegular DEF Read
<1>2. /\ new.dirty = e.dirty /\ new.data = Bytes(fd) /\ new.valid = e.valid
      /\ new.fd = e.fd /\ new.closed = e.closed
    BY <1>1 DEF CacheEntry
<1>3. UNCHANGED <<content, primes, fds, shown>>
    BY DEF Read, serverVars, historyVars
<1>4. Owned(fds, fd, c, f)
    BY NewestOwned DEF Read
<1>5. Bytes(fd) \subseteq Home(f) \cap shown[f]
    BY <1>4 DEF Owned, Bytes, FilesInv, RemovedInv
<1> HIDE DEF e, new, fd
<1> QED
    BY <1>1, <1>2, <1>3, <1>5, ServerSame DEF SoundAfter, Sound, e

LEMMA ChangeSound ==
    ASSUME TypeInv, FilesInv, RemovedInv, NEW c \in Client, NEW f \in File,
           NEW numbers \in SUBSET Numbers(f), NEW keep \in BOOLEAN,
           Change(c, f, numbers, keep), Sound(fds, shown[f], cache[c][f], c, f)
    PROVE  ServerKeeps /\ SoundAfter(c, f)
<1> DEFINE e == cache[c][f]
           data == (IF keep THEN e.data ELSE {}) \cup numbers
<1>1. e \in CacheEntry /\ cache'[c][f] = Written(e, data)
    BY ONLY ChangeRegular, TypeInv, Change(c, f, numbers, keep), c \in Client,
            f \in File, numbers \in SUBSET Numbers(f), keep \in BOOLEAN
<1> DEFINE new == Written(e, data)
<1>2. /\ new.dirty /\ new.data = data /\ ~new.valid
      /\ new.fd = e.fd /\ new.closed = e.closed
    BY <1>1 DEF CacheEntry, Written
<1>3. UNCHANGED <<content, primes, fds, shown>>
    BY DEF Change, serverVars
<1>4. data \subseteq Home(f)
    BY DEF Sound, Home
<1> HIDE DEF e, new, data
<1> QED
    BY <1>1, <1>2, <1>3, <1>4, ServerSame DEF SoundAfter, Sound, e, new

LEMMA CommitSound ==
    ASSUME TypeInv, FilesInv, RemovedInv, NEW c \in Client, NEW f \in File,
           NEW heard \in BOOLEAN, Commit(c, f, heard),
           Sound(fds, shown[f], cache[c][f], c, f)
    PROVE  ServerKeeps /\ SoundAfter(c, f)
<1> DEFINE e == cache[c][f]
           new == Saved(e, version'[TargetOf(e)])
<1>1. /\ e \in CacheEntry
      /\ cache'[c][f] = IF heard THEN new ELSE e
    BY CommitRegular
<1>2. ~e.closed /\ e.dirty /\ Registered(e.fd, c) /\ Store(e, FALSE) /\ fds' = fds
    BY DEF Commit, Commits
<1>3. /\ ~new.dirty /\ new.data = e.data /\ new.valid = e.valid
      /\ new.fd = e.fd /\ new.closed = e.closed
    BY <1>1 DEF CacheEntry, Saved
<1> HIDE DEF e, new
<1>4. ServerKeeps /\ e.data \subseteq shown'[f]
    BY <1>1, <1>2, ServerStore DEF e
<1>5. CASE heard
    BY <1>1, <1>2, <1>3, <1>4, <1>5 DEF SoundAfter, Sound, e
<1>6. CASE ~heard
    BY <1>1, <1>4, <1>6 DEF SoundAfter, Same, e
<1> QED
    BY <1>5, <1>6

LEMMA CloseSound ==
    ASSUME TypeInv, FilesInv, RemovedInv, NEW c \in Client, NEW f \in File,
           NEW heard \in BOOLEAN, Close(c, f, heard), ~cache[c][f].closed,
           Sound(fds, shown[f], cache[c][f], c, f)
    PROVE  ServerKeeps /\ SoundAfter(c, f)
<1> DEFINE e == cache[c][f]
           new == ClosedAt(e, version'[TargetOf(e)])
<1>1. /\ e \in CacheEntry
      /\ cache'[c][f] = IF heard THEN new ELSE e
    BY CloseRegular
<1>2. /\ ~e.closed /\ Registered(e.fd, c) /\ Unregister(e.fd)
      /\ IF e.dirty THEN Store(e, TRUE) ELSE UNCHANGED <<content, primes, shown>>
    BY DEF Close
<1>3. /\ ~new.dirty /\ new.data = e.data /\ new.closed
    BY <1>1 DEF CacheEntry, ClosedAt
<1> HIDE DEF e, new
<1>4. ServerKeeps /\ e.data \subseteq shown'[f]
  <2>1. CASE e.dirty
      BY <1>1, <1>2, <2>1, ServerStore DEF e
  <2>2. CASE ~e.dirty
    <3>1. e.fd + 1 \in DOMAIN fds
        BY <1>2, RegisteredTypes
    <3> QED
        BY <1>2, <2>2, <3>1, ServerUnregister DEF Sound, e
  <2> QED
      BY <2>1, <2>2
<1>5. CASE heard
    BY <1>1, <1>3, <1>4, <1>5 DEF SoundAfter, Sound, e
<1>6. CASE ~heard
    BY <1>1, <1>4, <1>6 DEF SoundAfter, Same, e
<1> QED
    BY <1>5, <1>6

LEMMA CallSound ==
    ASSUME TypeInv, DataInv, primary = 1, NEW c \in Client, NEW f \in File,
           CarefulCall(c, f)
    PROVE  ServerKeeps /\ SoundAfter(c, f)
<1>1. /\ FilesInv /\ RemovedInv
      /\ cache[c][f] # None => Sound(fds, shown[f], cache[c][f], c, f)
    BY DEF DataInv, InCache
<1>2. ASSUME NEW heard \in BOOLEAN, Create(c, f, heard) PROVE ServerKeeps /\ SoundAfter(c, f)
    BY <1>1, <1>2, CreateSound
<1>3. ASSUME NEW heard \in BOOLEAN,
             Commit(c, f, heard) \/ (Close(c, f, heard) /\ ~cache[c][f].closed)
      PROVE  ServerKeeps /\ SoundAfter(c, f)
  <2>1. cache[c][f] # None
      BY <1>3 DEF Commit, Commits, Close, Closes, InCache
  <2> QED
      BY <1>1, <1>3, <2>1, CommitSound, CloseSound
<1>4. ASSUME NEW heard \in BOOLEAN, Delete(c, f, heard) PROVE ServerKeeps /\ SoundAfter(c, f)
    BY <1>1, <1>4, ServerDelete, DeleteRegular DEF SoundAfter, Dropped
<1>5. ASSUME NEW mode \in Mode, NEW heard \in BOOLEAN, Open(c, f, mode, heard)
      PROVE  ServerKeeps /\ SoundAfter(c, f)
    BY <1>1, <1>5, OpenSound
<1>6. ASSUME NEW mode \in Mode, TestAuth(c, f, mode) PROVE ServerKeeps /\ SoundAfter(c, f)
  <2>1. cache[c][f] # None
      BY <1>6 DEF TestAuth, NeedsAuth, InCache
  <2> QED
      BY <1>1, <1>6, <2>1, TestAuthSound
<1>7. ASSUME NEW mode \in Mode, OpenFails(c, f, mode) PROVE ServerKeeps /\ SoundAfter(c, f)
  <2>1. UNCHANGED <<content, primes, fds, shown>>
      BY <1>7 DEF OpenFails, historyVars
  <2> QED
      BY <1>1, <1>7, <2>1, ServerSame, OpenFailsRegular DEF SoundAfter, Dropped
<1>8. ASSUME NEW heard \in BOOLEAN, OpenValid(c, f, heard) PROVE ServerKeeps /\ SoundAfter(c, f)
  <2>1. cache[c][f] # None
      BY <1>8, OpenValidRegular, NoneAssumption
  <2> QED
      BY <1>1, <1>8, <2>1, OpenValidSound
<1>9. ASSUME NEW numbers \in SUBSET Numbers(f), NEW keep \in BOOLEAN,
             Change(c, f, numbers, keep)
      PROVE  ServerKeeps /\ SoundAfter(c, f)
  <2>1. cache[c][f] # None
      BY <1>9 DEF Change, InCache
  <2> QED
      BY <1>1, <1>9, <2>1, ChangeSound
<1>10. ASSUME OpenValidFails(c, f) \/ ReadFile(c, f) \/ Refused(c, f) \/ Freezes(c, f)
       PROVE  ServerKeeps /\ SoundAfter(c, f)
  <2>1. UNCHANGED <<content, primes, fds, shown, cache>>
      BY <1>10 DEF OpenValidFails, ReadFile, Refused, Freezes, serverVars, historyVars
  <2> QED
      BY <1>1, <2>1, ServerSame DEF SoundAfter, Same
<1>11. ASSUME Read(c, f), ~cache[c][f].dirty PROVE ServerKeeps /\ SoundAfter(c, f)
  <2>1. cache[c][f] # None
      BY <1>11 DEF Read, InCache
  <2> QED
      BY <1>1, <1>11, <2>1, ReadSound
<1>12. ASSUME LeaseExpires(c, f) PROVE ServerKeeps /\ SoundAfter(c, f)
  <2>1. /\ NewestFd(c, f) + 1 \in DOMAIN fds /\ Unregister(NewestFd(c, f))
        /\ UNCHANGED <<content, primes, shown, cache>>
      BY <1>12, RegisteredTypes DEF LeaseExpires, clientVars, historyVars
  <2> QED
      BY <1>1, <2>1, ServerUnregister DEF SoundAfter, Same
<1>13. ASSUME CreateFails(c, f) PROVE ServerKeeps /\ SoundAfter(c, f)
  <2>1. UNCHANGED <<content, primes, fds, shown>>
      BY <1>13 DEF CreateFails, historyVars
  <2> QED
      BY <1>1, <1>13, <2>1, ServerSame, CreateFailsRegular DEF SoundAfter, Dropped
<1>14. ASSUME DeleteFails(c, f) PROVE ServerKeeps /\ SoundAfter(c, f)
  <2>1. UNCHANGED <<content, primes, fds, shown>>
      BY <1>14 DEF DeleteFails, serverVars, historyVars
  <2> QED
      BY <1>1, <1>14, <2>1, ServerSame, DeleteFailsRegular DEF SoundAfter, Dropped
<1> QED
    BY <1>2, <1>3, <1>4, <1>5, <1>6, <1>7, <1>8, <1>9, <1>10, <1>11, <1>12, <1>13, <1>14
    DEF CarefulCall

LEMMA DataNext ==
    ASSUME TypeInv, DataInv, CarefulNext \/ UNCHANGED vars
    PROVE  DataInv'
<1>1. ASSUME NEW c \in Client, NEW f \in File, CarefulCall(c, f), primary = 1
      PROVE  DataInv'
  <2>1. Regular(c, f) /\ ServerKeeps /\ SoundAfter(c, f)
      BY <1>1, CarefulIsAny, CallRegular, CallSound
  <2>2. ASSUME NEW d \in Client, NEW g \in File, cache'[d][g] # None
        PROVE  Sound(fds', shown'[g], cache'[d][g], d, g)
    <3>1. \/ cache'[d][g] = cache[d][g]
          \/ d = c /\ g = f /\ Sound(fds', shown'[f], cache'[c][f], c, f)
        BY <2>1, <2>2 DEF Regular, OthersKeep, SoundAfter, Same
    <3>2. CASE cache'[d][g] = cache[d][g]
      <4>1. Sound(fds, shown[g], cache[d][g], d, g)
          BY <1>1, <2>2, <3>2 DEF DataInv, InCache
      <4> QED
          BY <2>1, <3>2, <4>1, SoundStays DEF ServerKeeps
    <3> QED
        BY <3>1, <3>2
  <2> QED
      BY <2>1, <2>2 DEF ServerKeeps, DataInv, InCache
<1>2. ASSUME NEW c \in Client, NEW f \in File, CarefulCall(c, f), primary # 1
      PROVE  DataInv'
  <2>1. primary' = primary
      BY <1>2, CarefulIsAny, CallRegular DEF Regular, ServerTypes
  <2> QED
      BY <1>2, <2>1 DEF DataInv
<1>3. CASE UNCHANGED <<primary, content, primes, fds, shown, cache>>
    BY <1>3 DEF DataInv, FilesInv, RemovedInv, InCache
<1>4. CASE Failover
  <2>1. primary' # 1
      BY <1>4, CacheAssumption DEF Failover, TypeInv, TypeOK
  <2> QED
      BY <2>1 DEF DataInv
<1> QED
    BY <1>1, <1>2, <1>3, <1>4
    DEF CarefulNext, Dials, vars, serverVars, clientVars, historyVars

LEMMA DataInit == Init => DataInv
<1> SUFFICES ASSUME Init PROVE FilesInv /\ RemovedInv /\ \A c \in Client : InCache(c) = {}
    BY DEF DataInv
<1>1. FilesInv
    BY DEF Init, FilesInv, Home
<1>2. RemovedInv
    BY DEF Init, RemovedInv
<1>3. \A c \in Client : InCache(c) = {}
    BY DEF Init, InCache
<1> QED
    BY <1>1, <1>2, <1>3

LEMMA DataCorrect == TypeInv /\ DataInv => NoDirtyRead /\ NumbersStayHome
<1> SUFFICES ASSUME DataInv PROVE NoDirtyRead /\ NumbersStayHome
    OBVIOUS
<1>1. NoDirtyRead
    BY DEF DataInv, NoDirtyRead, Sound
<1>2. NumbersStayHome
    BY DEF DataInv, FilesInv, NumbersStayHome, Home
<1> QED
    BY <1>1, <1>2

(* As long as the primary stays, a copy that careful programs read without *)
(* asking the server holds only numbers the file on the server has held.   *)
THEOREM ValidCopiesAreClean ==
    ASSUME Careful
    PROVE  Spec => []NoDirtyRead
<1> DEFINE Inv == TypeInv /\ DataInv
<1>1. Init => Inv
    BY TypeInit, DataInit
<1>2. Inv /\ [Next]_vars => Inv'
    BY NextIsAny, NextIsCareful, TypeNext, DataNext
<1>3. Inv => NoDirtyRead
    BY DataCorrect
<1> QED
    BY <1>1, <1>2, <1>3, PTL DEF Spec

(* As long as the primary stays, numbers of careful programs go only to    *)
(* the file they were written to.                                          *)
THEOREM NumbersGoHome ==
    ASSUME Careful
    PROVE  Spec => []NumbersStayHome
<1> DEFINE Inv == TypeInv /\ DataInv
<1>1. Init => Inv
    BY TypeInit, DataInit
<1>2. Inv /\ [Next]_vars => Inv'
    BY NextIsAny, NextIsCareful, TypeNext, DataNext
<1>3. Inv => NumbersStayHome
    BY DataCorrect
<1> QED
    BY <1>1, <1>2, <1>3, PTL DEF Spec

-----------------------------------------------------------------------------
(* As long as nothing fails: what a call does to the descriptors, of which *)
(* it closes none but its own, and to the entry of its file.               *)
Serves(c, f) ==
    \A d \in DOMAIN fds :
        /\ d \in DOMAIN fds' /\ fds'[d].mode = fds[d].mode
        /\ \/ fds'[d].open = fds[d].open
           \/ /\ cache[c][f] # None /\ ~cache[c][f].closed /\ cache'[c][f].closed
              /\ d = cache[c][f].fd + 1

AttachedAfter(c, f) ==
    /\ ~frozen' /\ Serves(c, f)
    /\ cache'[c][f] = None \/ Same(c, f) \/ Attached(fds', cache'[c][f])

LEMMA CallFaults ==
    ASSUME TypeInv, NEW c \in Client, NEW f \in File, AnyCall(c, f)
    PROVE  faults' = faults \/ faults' # 0
<1>1. ASSUME NEW heard \in BOOLEAN, Close(c, f, heard)
      PROVE  faults' = faults \/ faults' # 0
    BY <1>1, CountTypes DEF Close
<1>2. ASSUME LeaseExpires(c, f)
      PROVE  faults' = faults \/ faults' # 0
    BY <1>2, CountTypes DEF LeaseExpires
<1>3. ASSUME NEW heard \in BOOLEAN,
             Create(c, f, heard) \/ Commit(c, f, heard) \/ Delete(c, f, heard)
               \/ OpenValid(c, f, heard)
      PROVE  faults' = faults
    BY <1>3 DEF Create, Commit, Delete, OpenValid, boundVars
<1>4. ASSUME NEW mode \in Mode, NEW heard \in BOOLEAN, Open(c, f, mode, heard)
      PROVE  faults' = faults
    BY <1>4 DEF Open
<1>5. ASSUME NEW mode \in Mode, TestAuth(c, f, mode) \/ OpenFails(c, f, mode)
      PROVE  faults' = faults
    BY <1>5 DEF TestAuth, OpenFails, boundVars
<1>6. ASSUME NEW numbers \in SUBSET Numbers(f), NEW keep \in BOOLEAN,
             Change(c, f, numbers, keep)
      PROVE  faults' = faults
    BY <1>6 DEF Change, boundVars
<1>7. ASSUME OpenValidFails(c, f) \/ ReadFile(c, f) \/ Read(c, f)
      PROVE  faults' = faults
    BY <1>7 DEF OpenValidFails, ReadFile, Read, boundVars
<1>8. ASSUME CreateFails(c, f) \/ DeleteFails(c, f) \/ Refused(c, f) \/ Freezes(c, f)
      PROVE  faults' = faults
    BY <1>8 DEF CreateFails, DeleteFails, Refused, Freezes, boundVars
<1> QED
    BY <1>1, <1>2, <1>3, <1>4, <1>5, <1>6, <1>7, <1>8 DEF AnyCall

LEMMA ServesSame ==
    ASSUME NEW c, NEW f, fds' = fds
    PROVE  Serves(c, f)
BY DEF Serves

LEMMA ServesRegister ==
    ASSUME TypeInv, NEW c \in Client, NEW f \in File, NEW mode \in Mode,
           HasSpace, Register(c, f, mode)
    PROVE  /\ Serves(c, f)
           /\ fds'[Len(fds) + 1].open /\ fds'[Len(fds) + 1].mode = mode
<1> DEFINE new == [file |-> f, client |-> c, mode |-> mode, open |-> TRUE,
                   removed |-> None]
<1>1. /\ \A d \in DOMAIN fds : d \in DOMAIN fds' /\ fds'[d] = fds[d]
      /\ fds'[Len(fds) + 1] = new
    BY RegisterTypes
<1>2. new.open /\ new.mode = mode
    OBVIOUS
<1> QED
    BY <1>1, <1>2 DEF Serves

LEMMA CreateAttached ==
    ASSUME TypeInv, ~frozen, NEW c \in Client, NEW f \in File,
           NEW heard \in BOOLEAN, Create(c, f, heard)
    PROVE  AttachedAfter(c, f)
<1>1. Serves(c, f) /\ ~frozen'
    BY ServesRegister DEF Create, Mode
<1>2. Created(Len(fds)).closed
    BY DEF Created
<1> QED
    BY <1>1, <1>2, CreateRegular DEF AttachedAfter, Attached, Dropped

LEMMA OpenAttached ==
    ASSUME TypeInv, ~frozen, NEW c \in Client, NEW f \in File, NEW mode \in Mode,
           NEW heard \in BOOLEAN, Open(c, f, mode, heard)
    PROVE  AttachedAfter(c, f)
<1>1. /\ Serves(c, f) /\ ~frozen'
      /\ fds'[Len(fds) + 1].open /\ fds'[Len(fds) + 1].mode = mode
    BY ServesRegister DEF Open, Opens
<1>2. /\ ~Fetched(f, mode).dirty /\ Fetched(f, mode).mode = mode
      /\ Fetched(f, mode).fd = Len(fds)
    BY DEF Fetched
<1> QED
    BY <1>1, <1>2, OpenRegular DEF AttachedAfter, Attached, Dropped

LEMMA OpenValidAttached ==
    ASSUME TypeInv, ~frozen, NEW c \in Client, NEW f \in File,
           NEW heard \in BOOLEAN, OpenValid(c, f, heard)
    PROVE  AttachedAfter(c, f)
<1> DEFINE e == cache[c][f]
<1>1. /\ e \in CacheEntry /\ ~e.dirty
      /\ cache'[c][f] = IF heard THEN Reopened(e) ELSE e
    BY OpenValidRegular
<1>2. e.mode \in Mode
    BY <1>1 DEF CacheEntry
<1>3. /\ Serves(c, f) /\ ~frozen'
      /\ fds'[Len(fds) + 1].open /\ fds'[Len(fds) + 1].mode = e.mode
    BY <1>2, ServesRegister DEF OpenValid, Opens
<1>4. /\ Reopened(e).mode = e.mode /\ Reopened(e).dirty = e.dirty
      /\ Reopened(e).fd = Len(fds)
    BY <1>1 DEF Reopened, CacheEntry
<1> HIDE DEF e
<1>5. CASE heard
    BY <1>1, <1>3, <1>4, <1>5 DEF AttachedAfter, Attached
<1>6. CASE ~heard
    BY <1>1, <1>3, <1>6 DEF AttachedAfter, Same, e
<1> QED
    BY <1>5, <1>6

LEMMA TestAuthAttached ==
    ASSUME TypeInv, ~frozen, NEW c \in Client, NEW f \in File,
           NEW mode \in Mode, TestAuth(c, f, mode), Attached(fds, cache[c][f])
    PROVE  AttachedAfter(c, f)
<1> DEFINE e == cache[c][f]
           new == [e EXCEPT !.valid = TRUE, !.mode = mode]
<1>1. e \in CacheEntry /\ ~e.dirty /\ cache'[c][f] = new
    BY TestAuthRegular
<1>2. /\ new.dirty = e.dirty /\ new.mode = mode
      /\ new.fd = e.fd /\ new.closed = e.closed
    BY <1>1 DEF CacheEntry
<1>3. UNCHANGED <<fds, frozen>> /\ ~ModeConflict(e, mode) /\ e.mode \in Mode
    BY <1>1 DEF TestAuth, serverVars, CacheEntry
<1> HIDE DEF e, new
<1>4. ~e.closed /\ mode = WRITE => e.mode = WRITE
    BY <1>3 DEF ModeConflict, Mode, READ, WRITE
<1> QED
    BY <1>1, <1>2, <1>3, <1>4, ServesSame DEF AttachedAfter, Attached, e

LEMMA ReadAttached ==
    ASSUME TypeInv, ~frozen, NEW c \in Client, NEW f \in File,
           Read(c, f), Attached(fds, cache[c][f])
    PROVE  AttachedAfter(c, f)
<1> DEFINE e == cache[c][f]
           new == [e EXCEPT !.data = Bytes(NewestFd(c, f))]
<1>1. e \in CacheEntry /\ cache'[c][f] = new
    BY ReadRegular
<1>2. /\ new.dirty = e.dirty /\ new.mode = e.mode
      /\ new.fd = e.fd /\ new.closed = e.closed
    BY <1>1 DEF CacheEntry
<1>3. UNCHANGED <<fds, frozen>>
    BY DEF Read, serverVars
<1> HIDE DEF e, new
<1> QED
    BY <1>1, <1>2, <1>3, ServesSame DEF AttachedAfter, Attached, e

LEMMA ChangeAttached ==
    ASSUME TypeInv, ~frozen, NEW c \in Client, NEW f \in File,
           NEW numbers \in SUBSET Numbers(f), NEW keep \in BOOLEAN,
           Change(c, f, numbers, keep), Attached(fds, cache[c][f])
    PROVE  AttachedAfter(c, f)
<1> DEFINE e == cache[c][f]
           data == (IF keep THEN e.data ELSE {}) \cup numbers
<1>1. e \in CacheEntry /\ cache'[c][f] = Written(e, data)
    BY ONLY ChangeRegular, TypeInv, Change(c, f, numbers, keep), c \in Client,
            f \in File, numbers \in SUBSET Numbers(f), keep \in BOOLEAN
<1> DEFINE new == Written(e, data)
<1>2. new.mode = e.mode /\ new.fd = e.fd /\ new.closed = e.closed
    BY <1>1 DEF CacheEntry, Written
<1>3. UNCHANGED <<fds, frozen>> /\ e.mode = WRITE
    BY DEF Change, serverVars
<1> HIDE DEF e, new, data
<1> QED
    BY <1>1, <1>2, <1>3, ServesSame DEF AttachedAfter, Attached, e, new

LEMMA CommitAttached ==
    ASSUME TypeInv, ~frozen, NEW c \in Client, NEW f \in File,
           NEW heard \in BOOLEAN, Commit(c, f, heard), Attached(fds, cache[c][f])
    PROVE  AttachedAfter(c, f)
<1> DEFINE e == cache[c][f]
           new == Saved(e, version'[TargetOf(e)])
<1>1. /\ e \in CacheEntry
      /\ cache'[c][f] = IF heard THEN new ELSE e
    BY CommitRegular
<1>2. /\ ~new.dirty /\ new.mode = e.mode
      /\ new.fd = e.fd /\ new.closed = e.closed
    BY <1>1 DEF CacheEntry, Saved
<1>3. UNCHANGED <<fds, frozen>>
    BY DEF Commit
<1> HIDE DEF e, new
<1>4. CASE heard
    BY <1>1, <1>2, <1>3, <1>4, ServesSame DEF AttachedAfter, Attached, e
<1>5. CASE ~heard
    BY <1>1, <1>3, <1>5, ServesSame DEF AttachedAfter, Same, e
<1> QED
    BY <1>4, <1>5

LEMMA CloseAttached ==
    ASSUME TypeInv, ~frozen, NEW c \in Client, NEW f \in File,
           NEW heard \in BOOLEAN, Close(c, f, heard), ~cache[c][f].closed,
           faults' = 0
    PROVE  AttachedAfter(c, f)
<1> DEFINE e == cache[c][f]
           new == ClosedAt(e, version'[TargetOf(e)])
<1>1. /\ e \in CacheEntry
      /\ cache'[c][f] = IF heard THEN new ELSE e
    BY CloseRegular
<1>2. heard
    BY CountTypes DEF Close
<1>3. /\ ~e.closed /\ e # None /\ frozen' = frozen
      /\ Unregister(e.fd) /\ Registered(e.fd, c)
    BY DEF Close, Closes, InCache
<1>4. new.closed
    BY <1>1 DEF ClosedAt, CacheEntry
<1> HIDE DEF e, new
<1>5. Serves(c, f)
  <2>1. e.fd + 1 \in DOMAIN fds
      BY <1>3, RegisteredTypes
  <2>2. /\ DOMAIN fds' = DOMAIN fds
        /\ \A d \in DOMAIN fds : /\ fds'[d].mode = fds[d].mode
                                 /\ d # e.fd + 1 => fds'[d].open = fds[d].open
      BY <1>3, <2>1, UnregisterTypes
  <2> QED
      BY <1>1, <1>2, <1>3, <1>4, <2>2 DEF Serves, e
<1> QED
    BY <1>1, <1>2, <1>3, <1>4, <1>5 DEF AttachedAfter, Attached

LEMMA DeleteAttached ==
    ASSUME TypeInv, ~frozen, NEW c \in Client, NEW f \in File,
           NEW heard \in BOOLEAN, Delete(c, f, heard)
    PROVE  AttachedAfter(c, f)
<1>1. cache'[c][f] = None
    BY DeleteRegular DEF Dropped
<1>2. frozen' = frozen
    BY DEF Delete
<1>3. CASE f \in exists /\ version[f] # Absent
  <2>1. fds' = [d \in DOMAIN fds |->
                  IF fds[d].file = f /\ fds[d].removed = None
                  THEN [fds[d] EXCEPT !.removed = content[f]]
                  ELSE fds[d]]
      BY <1>3 DEF Delete
  <2>2. /\ DOMAIN fds' = DOMAIN fds
        /\ \A d \in DOMAIN fds :
              fds'[d].mode = fds[d].mode /\ fds'[d].open = fds[d].open
      BY <2>1, DeletedTypes
  <2> QED
      BY <1>1, <1>2, <2>2 DEF AttachedAfter, Serves
<1>4. CASE ~(f \in exists /\ version[f] # Absent)
    BY <1>1, <1>2, <1>4, ServesSame DEF AttachedAfter, Delete
<1> QED
    BY <1>3, <1>4

(* No server freezes on a careful program's call: the descriptor of an     *)
(* open entry is open, and the client is the one registered in it.         *)
LEMMA FreezesNever ==
    ASSUME NEW c \in Client, NEW f \in File, Freezes(c, f), ~cache[c][f].closed,
           Sound(fds, shown[f], cache[c][f], c, f), Attached(fds, cache[c][f])
    PROVE  FALSE
<1>1. ~cache[c][f].closed /\ ~Registered(cache[c][f].fd, c)
    BY DEF Freezes
<1> QED
    BY <1>1 DEF Sound, Owned, Attached, Registered

LEMMA CallAttached ==
    ASSUME TypeInv, DataInv, primary = 1, AttachedInv, faults = 0,
           NEW c \in Client, NEW f \in File, CarefulCall(c, f), faults' = 0
    PROVE  AttachedAfter(c, f)
<1>1. /\ ~frozen
      /\ cache[c][f] # None => /\ Sound(fds, shown[f], cache[c][f], c, f)
                               /\ Attached(fds, cache[c][f])
    BY DEF DataInv, AttachedInv, InCache
<1>2. ASSUME NEW heard \in BOOLEAN,
             Create(c, f, heard) \/ Delete(c, f, heard) \/ OpenValid(c, f, heard)
      PROVE  AttachedAfter(c, f)
    BY <1>1, <1>2, CreateAttached, DeleteAttached, OpenValidAttached
<1>3. ASSUME NEW heard \in BOOLEAN, Commit(c, f, heard) PROVE AttachedAfter(c, f)
  <2>1. cache[c][f] # None
      BY <1>3 DEF Commit, Commits, InCache
  <2> QED
      BY <1>1, <1>3, <2>1, CommitAttached
<1>4. ASSUME NEW heard \in BOOLEAN, Close(c, f, heard), ~cache[c][f].closed
      PROVE  AttachedAfter(c, f)
    BY <1>1, <1>4, CloseAttached
<1>5. ASSUME NEW mode \in Mode, NEW heard \in BOOLEAN, Open(c, f, mode, heard)
      PROVE  AttachedAfter(c, f)
    BY <1>1, <1>5, OpenAttached
<1>6. ASSUME NEW mode \in Mode, TestAuth(c, f, mode) PROVE AttachedAfter(c, f)
  <2>1. cache[c][f] # None
      BY <1>6 DEF TestAuth, NeedsAuth, InCache
  <2> QED
      BY <1>1, <1>6, <2>1, TestAuthAttached
<1>7. ASSUME NEW mode \in Mode, OpenFails(c, f, mode) PROVE AttachedAfter(c, f)
  <2>1. UNCHANGED <<fds, frozen>>
      BY <1>7 DEF OpenFails
  <2> QED
      BY <1>1, <1>7, <2>1, ServesSame, OpenFailsRegular DEF AttachedAfter, Dropped
<1>8. ASSUME NEW numbers \in SUBSET Numbers(f), NEW keep \in BOOLEAN,
             Change(c, f, numbers, keep)
      PROVE  AttachedAfter(c, f)
  <2>1. cache[c][f] # None
      BY <1>8 DEF Change, InCache
  <2> QED
      BY <1>1, <1>8, <2>1, ChangeAttached
<1>9. ASSUME OpenValidFails(c, f) \/ ReadFile(c, f) \/ Refused(c, f)
      PROVE  AttachedAfter(c, f)
  <2>1. UNCHANGED <<fds, frozen, cache>>
      BY <1>9 DEF OpenValidFails, ReadFile, Refused, serverVars
  <2> QED
      BY <1>1, <2>1, ServesSame DEF AttachedAfter, Same
<1>10. ASSUME Read(c, f) PROVE AttachedAfter(c, f)
  <2>1. cache[c][f] # None
      BY <1>10 DEF Read, InCache
  <2> QED
      BY <1>1, <1>10, <2>1, ReadAttached
<1>11. ASSUME LeaseExpires(c, f) PROVE FALSE
    BY <1>11, CountTypes DEF LeaseExpires
<1>12. ASSUME CreateFails(c, f) \/ DeleteFails(c, f) PROVE AttachedAfter(c, f)
  <2>1. UNCHANGED <<fds, frozen>>
      BY <1>12 DEF CreateFails, DeleteFails, serverVars
  <2> QED
      BY <1>1, <1>12, <2>1, ServesSame, CreateFailsRegular, DeleteFailsRegular
      DEF AttachedAfter, Dropped
<1>13. ASSUME Freezes(c, f), ~cache[c][f].closed PROVE FALSE
  <2>1. cache[c][f] # None
      BY <1>13 DEF Freezes, Commits, Closes, InCache
  <2> QED
      BY <1>1, <1>13, <2>1, FreezesNever
<1> QED
    BY <1>2, <1>3, <1>4, <1>5, <1>6, <1>7, <1>8, <1>9, <1>10, <1>11, <1>12, <1>13
    DEF CarefulCall

LEMMA AttachedNext ==
    ASSUME TypeInv, DataInv, AttachedInv, CarefulNext \/ UNCHANGED vars
    PROVE  AttachedInv'
<1>1. ASSUME NEW c \in Client, NEW f \in File, CarefulCall(c, f), faults' = 0
      PROVE  AttachedInv'
  <2>1. faults = 0 /\ primary = 1
      BY <1>1, CarefulIsAny, CallFaults DEF AttachedInv
  <2>2. Regular(c, f) /\ AttachedAfter(c, f)
      BY <1>1, <2>1, CarefulIsAny, CallRegular, CallAttached
  <2>3. primary' = 1 /\ ~frozen'
      BY <2>1, <2>2 DEF Regular, ServerTypes, AttachedAfter
  <2>4. ASSUME NEW d \in Client, NEW g \in File, cache'[d][g] # None
        PROVE  Attached(fds', cache'[d][g])
    <3>1. \/ cache'[d][g] = cache[d][g]
          \/ d = c /\ g = f /\ Attached(fds', cache'[c][f])
        BY <2>2, <2>4 DEF Regular, OthersKeep, AttachedAfter, Same
    <3>2. CASE cache'[d][g] = cache[d][g]
      <4> DEFINE e == cache[d][g]
      <4> SUFFICES ASSUME ~e.closed
                   PROVE  Attached(fds', e)
          BY <3>2 DEF Attached
      <4>1. Owned(fds, e.fd, d, g) /\ Attached(fds, e)
          BY <2>1, <2>4, <3>2 DEF DataInv, AttachedInv, InCache, Sound
      <4>2. ASSUME cache[c][f] # None, ~cache[c][f].closed, cache'[c][f].closed,
                   e.fd + 1 = cache[c][f].fd + 1
            PROVE  FALSE
        <5>1. Owned(fds, cache[c][f].fd, c, f)
            BY <2>1, <4>2 DEF DataInv, InCache, Sound
        <5>2. d = c /\ g = f
            BY <4>1, <4>2, <5>1 DEF Owned
        <5> QED
            BY <3>2, <4>2, <5>2
      <4>3. /\ fds'[e.fd + 1].open = fds[e.fd + 1].open
            /\ fds'[e.fd + 1].mode = fds[e.fd + 1].mode
          BY <2>2, <4>1, <4>2 DEF AttachedAfter, Serves, Owned
      <4> QED
          BY <4>1, <4>3 DEF Attached
    <3> QED
        BY <3>1, <3>2
  <2> QED
      BY <2>3, <2>4 DEF AttachedInv, InCache
<1>2. CASE UNCHANGED <<primary, frozen, fds, cache, faults>>
    BY <1>2 DEF AttachedInv, InCache
<1>3. CASE Failover
  <2>1. faults' # 0
      BY <1>3, CountTypes DEF Failover
  <2> QED
      BY <2>1 DEF AttachedInv
<1>4. ASSUME NEW c \in Client, NEW f \in File, CarefulCall(c, f) PROVE AttachedInv'
    BY <1>1, <1>4 DEF AttachedInv
<1> QED
    BY <1>2, <1>3, <1>4
    DEF CarefulNext, Dials, vars, serverVars, clientVars, boundVars

LEMMA AttachedInit == Init => AttachedInv
BY DEF Init, AttachedInv, InCache

LEMMA AttachedCorrect == DataInv /\ AttachedInv => OpenIsRegistered
<1> SUFFICES ASSUME DataInv, AttachedInv, faults = 0
             PROVE  /\ ~frozen
                    /\ \A c \in Client : \A f \in InCache(c) :
                         ~cache[c][f].closed =>
                           /\ Registered(cache[c][f].fd, c)
                           /\ TargetOf(cache[c][f]) = f
                           /\ cache[c][f].dirty =>
                                fds[cache[c][f].fd + 1].mode = WRITE
    BY DEF OpenIsRegistered
<1>1. primary = 1 /\ ~frozen
    BY DEF AttachedInv
<1>2. ASSUME NEW c \in Client, NEW f \in InCache(c), ~cache[c][f].closed
      PROVE  /\ Registered(cache[c][f].fd, c) /\ TargetOf(cache[c][f]) = f
             /\ cache[c][f].dirty => fds[cache[c][f].fd + 1].mode = WRITE
  <2>1. Owned(fds, cache[c][f].fd, c, f) /\ Attached(fds, cache[c][f])
      BY <1>1, <1>2 DEF DataInv, AttachedInv, Sound
  <2> QED
      BY <1>2, <2>1 DEF Owned, Attached, Registered, TargetOf
<1> QED
    BY <1>1, <1>2

(* Unless an answer to a Close is lost, a lease expires or the primary     *)
(* changes, what a careful program has open is open on the server, where   *)
(* it can be saved, and the server does not freeze.                        *)
THEOREM OpenFilesAreRegistered ==
    ASSUME Careful
    PROVE  Spec => []OpenIsRegistered
<1> DEFINE Inv == TypeInv /\ DataInv /\ AttachedInv
<1>1. Init => Inv
    BY TypeInit, DataInit, AttachedInit
<1>2. Inv /\ [Next]_vars => Inv'
    BY NextIsAny, NextIsCareful, TypeNext, DataNext, AttachedNext
<1>3. Inv => OpenIsRegistered
    BY AttachedCorrect
<1> QED
    BY <1>1, <1>2, <1>3, PTL DEF Spec
=============================================================================
