--------------------------- MODULE SessionsProofs ---------------------------
(***************************************************************************)
(* Types of Sessions, that a request is executed once, and that careful    *)
(* clients can read what they have open, for any number of clients, files, *)
(* handlers, calls and tries.                                              *)
(***************************************************************************)
EXTENDS Sessions, SequenceTheorems, TLAPS

(* A handler that is not idle serves a call; a Close that got past the     *)
(* first step has a descriptor of s.files, and only a Close can send one   *)
(* that is not -1 to FindOpen.                                             *)
Serving ==
    \A h \in Handler : pc[h] # "idle" =>
        /\ call[h] \in Call
        /\ call[h].op = "close" => call[h].fd >= 0
        /\ call[h].op = "close" /\ pc[h] \notin {"arrived", "answered"} =>
                call[h].fd < Len(files)
        /\ pc[h] \in {"writing", "unregistered"} => call[h].op = "close"
        /\ pc[h] = "answered" => reply[h] # None

Asking == \A c \in Client : /\ want[c] # None => want[c] \in Call
                            /\ want[c] # None /\ want[c].op = "close" =>
                                    want[c].fd >= 0

TypeInv == TypeOK /\ Serving /\ Asking

(* Two handlers serve the same request only if it is overlapped.           *)
Alone ==
    \A g, h \in Handler :
        g # h /\ pc[g] # "idle" /\ pc[h] # "idle" /\ call[g].id = call[h].id
            => call[g].id \in overlapped

Searching == {"missed", "on disk", "found", "register"}

(* A handler past the cache serves a request with no answer there yet.     *)
Unanswered ==
    \A h \in Handler :
        pc[h] \in Searching /\ call[h].id \notin overlapped
            => requests[call[h].id] = None

(* A request that has a descriptor has an answer in the cache.             *)
Remembered == \A d \in 1..Len(files) : requests[files[d].id] # None

-----------------------------------------------------------------------------
LEMMA TypeInit == Init => TypeInv
<1> SUFFICES ASSUME Init PROVE TypeInv
    OBVIOUS
<1>1. files \in Seq(Descriptor)
      /\ Len(files) = 0
    BY DEF Init
<1>2. /\ openMap \in [Client \X File -> -1..(Len(files) - 1)]
      /\ Len(files) <= MaxOpenFiles
    BY <1>1, SessionAssumption DEF Init
<1>3. /\ sent \in 0..MaxCalls /\ tries \in [Client -> 0..maxTries]
      /\ fdOf \in [Client -> [File -> -1..MaxOpenFiles]]
    BY SessionAssumption DEF Init
<1>4. /\ made \in [File -> Nat]
      /\ table \in [File -> Nat] /\ \A f \in File : table[f] <= made[f]
      /\ entry \in [Handler -> Nat]
    BY DEF Init
<1>5. /\ requests \in [Id -> Responses]
      /\ pc \in [Handler -> Places]
      /\ call \in [Handler -> Call \cup {None}]
      /\ reply \in [Handler -> Responses]
      /\ want \in [Client -> Call \cup {None}]
      /\ live \in [Client -> SUBSET File]
    BY DEF Init, Places, Responses
<1>6. TypeOK
    BY <1>1, <1>2, <1>3, <1>4, <1>5 DEF Init, TypeOK
<1> QED
    BY <1>6 DEF TypeInv, Init, Serving, Asking

LEMMA ResponseType ==
    ASSUME NEW what \in Answers, NEW fd \in 0..MaxOpenFiles
    PROVE  Response(what, fd) \in Responses /\ Response(what, fd) # None
BY NoneAssumption DEF Response, Responses

LEMMA PlainResponse ==
    ASSUME NEW what \in Answers
    PROVE  Response(what, 0) \in Responses /\ Response(what, 0) # None
<1>1. 0 \in 0..MaxOpenFiles
    BY SessionAssumption
<1> QED
    BY <1>1, ResponseType

(* What answering a call does to Serving and Asking.                       *)
AnswersNow(h) ==
    /\ pc[h] # "idle"
    /\ pc' = [pc EXCEPT ![h] = "answered"]
    /\ reply' = [reply EXCEPT ![h] = reply'[h]] /\ reply'[h] # None
    /\ call' = call /\ want' = want
    /\ Len(files') \in Nat /\ Len(files) <= Len(files')

LEMMA Answering ==
    ASSUME TypeInv, NEW h \in Handler, AnswersNow(h)
    PROVE  Serving' /\ Asking'
<1> USE DEF AnswersNow
<1>1. /\ pc \in [Handler -> Places] /\ reply \in [Handler -> Responses]
      /\ Len(files) \in Nat
    BY DEF TypeInv, TypeOK
<1>2. /\ pc'[h] = "answered"
      /\ \A g \in Handler \ {h} : pc'[g] = pc[g] /\ reply'[g] = reply[g]
    BY <1>1
<1>3. \A g \in Handler :
        pc[g] # "idle" =>
            /\ call[g] \in Call
            /\ call[g].op = "close" => call[g].fd >= 0 /\ call[g].fd \in Int
    BY DEF TypeInv, Serving, Call
<1>4. Serving'
  <2> SUFFICES ASSUME NEW g \in Handler, pc'[g] # "idle"
               PROVE  /\ call[g] \in Call
                      /\ call[g].op = "close" => call[g].fd >= 0
                      /\ call[g].op = "close" /\ pc'[g] \notin {"arrived", "answered"}
                            => call[g].fd < Len(files')
                      /\ pc'[g] \in {"writing", "unregistered"}
                            => call[g].op = "close"
                      /\ pc'[g] = "answered" => reply'[g] # None
      BY DEF Serving
  <2>1. CASE g # h
      BY <1>1, <1>2, <1>3, <2>1 DEF TypeInv, Serving
  <2>2. CASE g = h
      BY <1>2, <1>3, <2>2
  <2> QED
      BY <2>1, <2>2
<1> QED
    BY <1>4 DEF TypeInv, Asking

LEMMA RequestTypes ==
    ASSUME TypeInv, NEW c \in Client, Request(c)
    PROVE  TypeInv'
<1>1. PICK op \in Op, f \in File, dirty \in BOOLEAN :
        /\ op \in {"read", "close"} => fdOf[c][f] # -1
        /\ want' = [want EXCEPT ![c] =
                      [id |-> sent + 1, client |-> c, op |-> op, file |-> f,
                       fd |-> fdOf[c][f], dirty |-> dirty]]
        /\ fdOf' = [fdOf EXCEPT ![c][f] = IF op = "delete" THEN -1 ELSE @]
        /\ live' = [live EXCEPT ![c] =
                      IF op \in {"close", "delete"} THEN @ \ {f} ELSE @]
    BY DEF Request
<1>2. /\ sent' = sent + 1 /\ sent < MaxCalls
      /\ tries' = [tries EXCEPT ![c] = 0]
      /\ UNCHANGED <<serverVars, handlerVars, historyVars>>
    BY DEF Request
<1>3. fdOf[c][f] \in -1..MaxOpenFiles /\ fdOf[c][f] \in Int
    BY SessionAssumption DEF TypeInv, TypeOK
<1>4. want'[c] \in Call /\ (op = "close" => want'[c].fd >= 0)
    BY <1>1, <1>2, <1>3, SessionAssumption DEF TypeInv, TypeOK, Call, Id, Op
<1>5. /\ want' \in [Client -> Call \cup {None}] /\ sent' \in 0..MaxCalls
      /\ tries' \in [Client -> 0..maxTries] /\ live' \in [Client -> SUBSET File]
      /\ fdOf' \in [Client -> [File -> -1..MaxOpenFiles]]
    BY <1>1, <1>2, <1>4, SessionAssumption DEF TypeInv, TypeOK
<1>6. TypeOK'
    BY <1>2, <1>5
    DEF TypeInv, TypeOK, serverVars, memVars, handlerVars, historyVars
<1>7. Serving' /\ Asking'
    BY <1>1, <1>2, <1>4
    DEF TypeInv, TypeOK, Serving, Asking, serverVars, memVars, handlerVars
<1> QED
    BY <1>6, <1>7 DEF TypeInv

LEMMA DeliverTypes ==
    ASSUME TypeInv, NEW c \in Client, NEW h \in Handler, Deliver(c, h)
    PROVE  TypeInv'
<1>1. want[c] \in Call /\ want[c].id \in Id /\ tries[c] + 1 \in 0..maxTries
    BY SessionAssumption DEF TypeInv, TypeOK, Asking, Call, Deliver, MaxTries
<1>2. TypeOK'
    BY <1>1 DEF TypeInv, TypeOK, Places, Deliver, serverVars, memVars
<1>3. Serving' /\ Asking'
    BY <1>1 DEF TypeInv, TypeOK, Serving, Asking, Deliver, serverVars, memVars
<1> QED
    BY <1>2, <1>3 DEF TypeInv

LEMMA ReturnTypes ==
    ASSUME TypeInv, NEW h \in Handler, NEW heard \in BOOLEAN, Return(h, heard)
    PROVE  TypeInv'
<1>1. /\ pc[h] = "answered" /\ ClientOf(h) \in Client /\ call[h].file \in File
      /\ reply[h] \in [what : Answers, fd : 0..MaxOpenFiles]
    BY DEF Return, ClientOf, TypeInv, TypeOK, Serving, Call, Responses
<1>2. /\ want' \in [Client -> Call \cup {None}]
      /\ fdOf' \in [Client -> [File -> -1..MaxOpenFiles]]
      /\ live' \in [Client -> SUBSET File]
      /\ \A c \in Client : want'[c] \in {want[c], None}
  <2>1. CASE UNCHANGED <<want, fdOf, live>>
    BY <2>1 DEF TypeInv, TypeOK
  <2>2. CASE Hear(ClientOf(h), call[h], reply[h])
    <3>1. \A old \in -1..MaxOpenFiles :
            (CASE reply[h].what = "opened" -> reply[h].fd
               [] reply[h].what = "closed" -> 0
               [] OTHER -> old) \in -1..MaxOpenFiles
        BY <1>1, SessionAssumption
    <3>2. fdOf' \in [Client -> [File -> -1..MaxOpenFiles]]
        BY <1>1, <2>2, <3>1 DEF Hear, TypeInv, TypeOK
    <3>3. live' \in [Client -> SUBSET File]
        BY <1>1, <2>2 DEF Hear, TypeInv, TypeOK
    <3>4. /\ want' \in [Client -> Call \cup {None}]
          /\ \A c \in Client : want'[c] \in {want[c], None}
        BY <1>1, <2>2 DEF Hear, TypeInv, TypeOK
    <3> QED
        BY <3>2, <3>3, <3>4
  <2> QED
    BY <2>1, <2>2 DEF Return
<1>3. TypeOK'
    BY <1>2 DEF Return, TypeInv, TypeOK, Places, Responses, serverVars, memVars,
                historyVars
<1>4. Serving' /\ Asking'
    BY <1>2 DEF Return, TypeInv, TypeOK, Serving, Asking, serverVars, memVars
<1> QED
    BY <1>3, <1>4 DEF TypeInv

LEMMA GiveUpTypes ==
    ASSUME TypeInv, NEW c \in Client, GiveUp(c)
    PROVE  TypeInv'
<1>1. TypeOK'
    BY DEF GiveUp, TypeInv, TypeOK, serverVars, memVars, handlerVars,
           historyVars
<1>2. Serving' /\ Asking'
    BY DEF GiveUp, TypeInv, TypeOK, Serving, Asking, serverVars, memVars,
           handlerVars
<1> QED
    BY <1>1, <1>2 DEF TypeInv
-----------------------------------------------------------------------------
(* The steps of a handler: each leaves most variables alone.               *)
LEMMA LookingTypes ==
    ASSUME TypeInv, NEW h \in Handler,
           FromCache(h) \/ NotCached(h) \/ FindOpen(h)
    PROVE  TypeInv'
<1>1. call[h] \in Call /\ call[h].id \in Id
    BY DEF TypeInv, Serving, Call, FromCache, NotCached, FindOpen
<1>2. CASE FromCache(h)
  <2>1. requests[call[h].id] \in Responses /\ requests[call[h].id] # None
      BY <1>1, <1>2 DEF FromCache, Cached, TypeInv, TypeOK
  <2>2. TypeOK'
      BY <1>2, <2>1 DEF FromCache, Respond, Goto, TypeInv, TypeOK, Places,
                        serverVars, memVars, clientVars, historyVars
  <2>3. Serving' /\ Asking'
      BY <1>2, <2>1 DEF FromCache, Respond, Goto, TypeInv, TypeOK, Serving,
                        Asking, serverVars, memVars, clientVars, historyVars
  <2> QED
      BY <2>2, <2>3 DEF TypeInv
<1>3. CASE NotCached(h)
  <2>1. TypeOK'
      BY <1>3 DEF NotCached, Goto, TypeInv, TypeOK, Places, serverVars,
                  memVars, clientVars, historyVars
  <2>2. Serving' /\ Asking'
      BY <1>3 DEF NotCached, Goto, TypeInv, TypeOK, Serving, Asking,
                  serverVars, memVars, clientVars, historyVars
  <2> QED
      BY <2>1, <2>2 DEF TypeInv
<1>4. CASE FindOpen(h)
  <2>1. /\ Response("not found", 0) \in Responses
        /\ Response("not found", 0) # None
    <3>1. "not found" \in Answers
        BY DEF Answers
    <3> QED
        BY <3>1, PlainResponse
  <2>2. TypeOK'
      BY <1>4, <2>1 DEF FindOpen, Respond, Goto, TypeInv, TypeOK, Places,
                        memVars, clientVars, historyVars
  <2>3. Len(files) \in Nat /\ call[h].fd \in Int
      BY <1>1 DEF TypeInv, TypeOK, Call
  <2>4. /\ pc'[h] # "answered" => call[h].fd < Len(files)
        /\ pc'[h] = "answered" => reply'[h] # None
        /\ pc'[h] \in {"missed", "stuck", "answered"}
        /\ \A g \in Handler \ {h} : pc'[g] = pc[g] /\ reply'[g] = reply[g]
    <3>1. CASE call[h].fd >= Len(files)
        BY <1>4, <2>1, <3>1 DEF FindOpen, Respond, Goto, TypeInv, TypeOK
    <3>2. CASE call[h].fd < Len(files)
      <4>1. ~(call[h].fd >= Len(files))
          BY <2>3, <3>2
      <4>2. /\ pc' = [pc EXCEPT ![h] = "missed"] \/ pc' = [pc EXCEPT ![h] = "stuck"]
            /\ reply' = reply
          BY <1>4, <4>1 DEF FindOpen, Goto
      <4>3. pc \in [Handler -> Places]
          BY DEF TypeInv, TypeOK
      <4> QED
          BY <3>2, <4>2, <4>3
    <3> QED
        BY <2>3, <3>1, <3>2
  <2>5. Serving' /\ Asking'
      BY <1>4, <2>4 DEF FindOpen, TypeInv, Serving, Asking, memVars, clientVars, historyVars
  <2> QED
      BY <2>2, <2>5 DEF TypeInv
<1> QED
    BY <1>2, <1>3, <1>4

LEMMA FileOfType ==
    ASSUME TypeInv, NEW h \in Handler, pc[h] # "idle",
           call[h].op = "close" => pc[h] \notin {"arrived", "answered"}
    PROVE  /\ call[h] \in Call /\ call[h].id \in Id
           /\ ClientOf(h) \in Client /\ FileOf(h) \in File
           /\ call[h].op = "close" => call[h].fd + 1 \in 1..Len(files)
<1>1. call[h] \in Call
    BY DEF TypeInv, Serving
<1>2. Len(files) \in Nat
    BY DEF TypeInv, TypeOK
<1>3. call[h].op = "close" => call[h].fd + 1 \in 1..Len(files)
    BY <1>1, <1>2 DEF TypeInv, Serving, Call
<1>4. \A d \in 1..Len(files) : files[d] \in Descriptor
    BY ElementOfSeq DEF TypeInv, TypeOK
<1>5. call[h].op = "close" => files[call[h].fd + 1].file \in File
    BY <1>3, <1>4 DEF Descriptor
<1> QED
    BY <1>1, <1>3, <1>5 DEF Call, ClientOf, FileOf

(* Steps that change the disk and the place of the handler only.           *)
LEMMA DiskTypes ==
    ASSUME TypeInv, NEW h \in Handler,
           \/ CreateFile(h) \/ OpenFile(h) \/ LockForClose(h) \/ Refuse(h)
           \/ StatFile(h) \/ TryLock(h) \/ RemoveFile(h)
    PROVE  TypeInv'
<1>1. /\ FileOf(h) \in File /\ pc[h] \notin {"idle", "arrived", "answered"}
      /\ call[h].op # "close" => pc[h] \notin {"writing", "unregistered"}
    BY FileOfType
    DEF CreateFile, OpenFile, LockForClose, Refuse, StatFile, TryLock,
        RemoveFile, TypeInv, Serving
<1>2. /\ UNCHANGED <<memVars, stuck, dead, call, entry, clientVars>>
      /\ exists' \subseteq File
      /\ pc' \in [Handler -> Places]
      /\ \A g \in Handler \ {h} : pc'[g] = pc[g] /\ reply'[g] = reply[g]
    BY <1>1
    DEF CreateFile, OpenFile, LockForClose, Refuse, StatFile, TryLock,
        RemoveFile, serverVars, Respond, Goto, TypeInv, TypeOK, Places
<1>3. /\ pc'[h] \in {"writing", "unregistered"} => call[h].op = "close"
      /\ pc'[h] = "answered" =>
            \E what \in Answers : reply' = [reply EXCEPT ![h] = Response(what, 0)]
      /\ pc'[h] # "answered" => reply' = reply
    BY <1>1
    DEF CreateFile, OpenFile, LockForClose, Refuse, StatFile, TryLock,
        RemoveFile, serverVars, Respond, Goto, TypeInv, TypeOK, Serving, Answers
<1>4. /\ reply' \in [Handler -> Responses]
      /\ pc'[h] = "answered" => reply'[h] # None
    BY <1>3, PlainResponse DEF TypeInv, TypeOK
<1>5. TypeOK'
    BY <1>2, <1>4 DEF TypeInv, TypeOK, memVars, clientVars, historyVars
<1>6. Serving' /\ Asking'
    BY <1>1, <1>2, <1>3, <1>4
    DEF TypeInv, Serving, Asking, memVars, clientVars, historyVars
<1> QED
    BY <1>5, <1>6 DEF TypeInv

LEMMA LookUpTypes ==
    ASSUME TypeInv, NEW h \in Handler, GetFileEntry(h) \/ LookUp(h)
    PROVE  TypeInv'
<1>1. FileOf(h) \in File /\ (call[h].op = "close" => call[h].fd < Len(files))
    BY FileOfType DEF GetFileEntry, LookUp, TypeInv, Serving
<1>2. /\ UNCHANGED <<exists, files, openMap, requests, stuck, dead, call, reply,
                     clientVars>>
      /\ \/ pc' = [pc EXCEPT ![h] = "found"]
         \/ pc' = [pc EXCEPT ![h] = "gone"]
    BY DEF GetFileEntry, LookUp, Goto, serverVars, memVars
<1>3. /\ made' \in [File -> Nat]
      /\ table' \in [File -> Nat] /\ \A f \in File : table'[f] <= made'[f]
      /\ entry' \in [Handler -> Nat]
  <2>1. CASE GetFileEntry(h)
    <3>1. PICK e : /\ e = IF table[FileOf(h)] = 0 THEN made[FileOf(h)] + 1
                          ELSE table[FileOf(h)]
                   /\ table' = [table EXCEPT ![FileOf(h)] = e]
                   /\ made' = [made EXCEPT ![FileOf(h)] = IF @ < e THEN e ELSE @]
                   /\ entry' = [entry EXCEPT ![h] = e]
        BY <2>1 DEF GetFileEntry
    <3>2. e \in Nat
        BY <1>1, <3>1 DEF TypeInv, TypeOK
    <3> QED
        BY <1>1, <3>1, <3>2 DEF TypeInv, TypeOK
  <2>2. CASE LookUp(h)
      BY <1>1, <2>2 DEF LookUp, serverVars, memVars, TypeInv, TypeOK
  <2> QED
      BY <2>1, <2>2
<1>4. TypeOK'
    BY <1>2, <1>3 DEF TypeInv, TypeOK, Places, clientVars, historyVars
<1>5. Serving' /\ Asking'
    BY <1>1, <1>2
    DEF TypeInv, TypeOK, Serving, Asking, clientVars, historyVars, GetFileEntry, LookUp
<1> QED
    BY <1>4, <1>5 DEF TypeInv

LEMMA RegisterTypes ==
    ASSUME TypeInv, NEW h \in Handler, Register(h)
    PROVE  TypeInv'
<1>1. /\ call[h].id \in Id /\ ClientOf(h) \in Client /\ FileOf(h) \in File
      /\ pc[h] = "register"
    BY FileOfType DEF Register
<1>2. Len(files) \in Nat /\ Len(files) <= MaxOpenFiles
    BY DEF TypeInv, TypeOK
<1>3. CASE HasRoom
  <2> DEFINE r == Response("opened", Len(files))
  <2>1. /\ files' = Append(files, [file |-> FileOf(h), id |-> call[h].id,
                                   client |-> ClientOf(h), open |-> TRUE])
        /\ openMap' = [openMap EXCEPT ![<<ClientOf(h), FileOf(h)>>] = Len(files)]
        /\ requests' = [requests EXCEPT ![call[h].id] = r]
        /\ pc' = [pc EXCEPT ![h] = "answered"]
        /\ reply' = [reply EXCEPT ![h] = r]
        /\ UNCHANGED <<exists, dead, table, made, stuck, call, entry, clientVars>>
      BY <1>3 DEF Register, NewestKept, Remember, Respond, Goto
  <2>2. [file |-> FileOf(h), id |-> call[h].id, client |-> ClientOf(h),
         open |-> TRUE] \in Descriptor
      BY <1>1 DEF Descriptor
  <2>3. /\ files' \in Seq(Descriptor) /\ Len(files') = Len(files) + 1
        /\ Len(files') <= MaxOpenFiles
      BY <1>2, <1>3, <2>1, <2>2, SessionAssumption
      DEF HasRoom, TypeInv, TypeOK
  <2>4. r \in Responses /\ r # None
    <3>1. "opened" \in Answers
        BY DEF Answers
    <3>2. Len(files) \in 0..MaxOpenFiles
        BY <1>2, SessionAssumption
    <3> QED
        BY <3>1, <3>2, ResponseType
  <2>5. openMap' \in [Client \X File -> -1..(Len(files') - 1)]
    <3>1. \A k \in Client \X File : openMap[k] \in -1..(Len(files) - 1)
        BY DEF TypeInv, TypeOK
    <3>2. /\ Len(files) \in -1..(Len(files') - 1)
          /\ \A n \in -1..(Len(files) - 1) : n \in -1..(Len(files') - 1)
        BY <1>2, <2>3
    <3>3. openMap \in [Client \X File -> -1..(Len(files') - 1)]
        BY <3>1, <3>2 DEF TypeInv, TypeOK
    <3> QED
        BY <2>1, <3>2, <3>3
  <2> HIDE DEF r
  <2>6. expired \subseteq 0..(Len(files') - 1)
      BY <1>2, <2>3 DEF TypeInv, TypeOK
  <2>7. TypeOK'
      BY <1>1, <2>1, <2>3, <2>4, <2>5, <2>6
      DEF TypeInv, TypeOK, Places, clientVars, historyVars
  <2>8. Serving' /\ Asking'
    <3>1. AnswersNow(h)
        BY <1>1, <1>2, <2>1, <2>3, <2>4
        DEF AnswersNow, clientVars, historyVars, TypeInv, TypeOK
    <3> QED
        BY <3>1, Answering
  <2> QED
      BY <2>7, <2>8 DEF TypeInv
<1>4. CASE ~HasRoom /\ call[h].op = "open"
  <2>1. /\ pc' = [pc EXCEPT ![h] = "answered"]
        /\ reply' = [reply EXCEPT ![h] = Response("exhausted", 0)]
        /\ UNCHANGED <<serverVars, call, entry, clientVars>>
      BY <1>4 DEF Register, Respond, Goto, serverVars, memVars
  <2>2. /\ Response("exhausted", 0) \in Responses
        /\ Response("exhausted", 0) # None
    <3>1. "exhausted" \in Answers
        BY DEF Answers
    <3> QED
        BY <3>1, PlainResponse
  <2>3. TypeOK'
      BY <2>1, <2>2
      DEF TypeInv, TypeOK, Places, serverVars, memVars, clientVars, historyVars
  <2>4. Serving' /\ Asking'
    <3>1. AnswersNow(h)
        BY <1>1, <1>2, <2>1, <2>2
        DEF AnswersNow, serverVars, memVars, clientVars, historyVars, TypeInv, TypeOK
    <3> QED
        BY <3>1, Answering
  <2> QED
      BY <2>3, <2>4 DEF TypeInv
<1>5. CASE ~HasRoom /\ call[h].op # "open"
  <2>1. /\ exists' \subseteq File /\ dead' = TRUE
        /\ UNCHANGED <<memVars, stuck, handlerVars, clientVars>>
      BY <1>5 DEF Register, memVars, handlerVars, TypeInv, TypeOK
  <2>2. TypeOK'
      BY <2>1 DEF TypeInv, TypeOK, memVars, handlerVars, clientVars, historyVars
  <2>3. Serving' /\ Asking'
      BY <2>1 DEF TypeInv, Serving, Asking, memVars, handlerVars, clientVars, historyVars
  <2> QED
      BY <2>2, <2>3 DEF TypeInv
<1> QED
    BY <1>3, <1>4, <1>5

LEMMA DescriptorIds ==
    ASSUME TypeInv, NEW d \in 1..Len(files)
    PROVE  files[d].id \in Id
<1>1. files \in Seq(Descriptor)
    BY DEF TypeInv, TypeOK
<1>2. files[d] \in Descriptor
    BY <1>1, ElementOfSeq
<1> QED
    BY <1>2 DEF Descriptor

(* A descriptor whose client is taken out stays a descriptor.              *)
LEMMA OpenFlag ==
    ASSUME files \in Seq(Descriptor), NEW d \in 1..Len(files), NEW b \in BOOLEAN
    PROVE  LET new == [files EXCEPT ![d].open = b]
           IN  /\ new \in Seq(Descriptor) /\ Len(new) = Len(files)
               /\ \A e \in 1..Len(files) : new[e].id = files[e].id
<1>1. \A e \in 1..Len(files) : files[e] \in Descriptor
    BY ElementOfSeq
<1>2. [files[d] EXCEPT !.open = b] \in Descriptor
    BY <1>1 DEF Descriptor
<1>3. [files[d] EXCEPT !.open = b].id = files[d].id
    BY <1>1 DEF Descriptor
<1>4. [files EXCEPT ![d].open = b] = [files EXCEPT ![d] = [files[d] EXCEPT !.open = b]]
    OBVIOUS
<1>5. \A x \in Descriptor :
        /\ [files EXCEPT ![d] = x] \in Seq(Descriptor)
        /\ Len([files EXCEPT ![d] = x]) = Len(files)
        /\ \A e \in 1..Len(files) :
              [files EXCEPT ![d] = x][e] = IF e = d THEN x ELSE files[e]
    OBVIOUS
<1> QED
    BY <1>2, <1>3, <1>4, <1>5

LEMMA UnregisterTypes ==
    ASSUME TypeInv, NEW h \in Handler, Unregister(h)
    PROVE  TypeInv'
<1>1. pc[h] = "writing" /\ call[h].op = "close" /\ call[h].fd + 1 \in 1..Len(files)
    BY FileOfType DEF Unregister, TypeInv, Serving
<1>2. files' \in Seq(Descriptor) /\ Len(files') = Len(files)
    BY <1>1, OpenFlag DEF Unregister, TypeInv, TypeOK
<1>3. TypeOK'
    BY <1>2 DEF Unregister, Goto, TypeInv, TypeOK, Places, clientVars, historyVars
<1>4. Serving' /\ Asking'
    BY <1>1, <1>2 DEF Unregister, Goto, TypeInv, TypeOK, Serving, Asking, clientVars, historyVars
<1> QED
    BY <1>3, <1>4 DEF TypeInv

LEMMA ReportTypes ==
    ASSUME TypeInv, NEW h \in Handler,
           Closed(h) \/ AlreadyDeleted(h) \/ DropEntry(h)
    PROVE  TypeInv'
<1>1. call[h].id \in Id /\ FileOf(h) \in File
    BY FileOfType
    DEF Closed, AlreadyDeleted, DropEntry, Report, TypeInv, Serving
<1>2. PICK what \in Answers :
        /\ requests' = [requests EXCEPT ![call[h].id] = Response(what, 0)]
        /\ reply' = [reply EXCEPT ![h] = Response(what, 0)]
        /\ pc' = [pc EXCEPT ![h] = "answered"]
        /\ UNCHANGED <<exists, made, files, openMap, stuck, dead, call, entry,
                       clientVars>>
    BY DEF Closed, AlreadyDeleted, DropEntry, Report, Remember, Respond, Goto,
           Answers
<1>3. Response(what, 0) \in Responses /\ Response(what, 0) # None
    BY PlainResponse
<1>4. table' \in [File -> Nat] /\ \A f \in File : table'[f] <= made[f]
  <2>1. CASE UNCHANGED table
      BY <2>1 DEF TypeInv, TypeOK
  <2>2. CASE table' = [table EXCEPT ![FileOf(h)] = 0]
      BY <1>1, <2>2 DEF TypeInv, TypeOK
  <2> QED
      BY <2>1, <2>2 DEF Closed, AlreadyDeleted, DropEntry
<1>5. TypeOK'
    BY <1>1, <1>2, <1>3, <1>4 DEF TypeInv, TypeOK, Places, clientVars, historyVars
<1>6. Serving' /\ Asking'
  <2>1. pc[h] # "idle" /\ Len(files) \in Nat
      BY DEF Closed, AlreadyDeleted, DropEntry, Report, TypeInv, TypeOK
  <2>2. AnswersNow(h)
      BY <1>2, <1>3, <2>1 DEF AnswersNow, clientVars, historyVars, TypeInv, TypeOK
  <2> QED
      BY <2>2, Answering
<1> QED
    BY <1>5, <1>6 DEF TypeInv

LEMMA ReadTypes ==
    ASSUME TypeInv, NEW h \in Handler, FindRead(h) \/ ServeRead(h)
    PROVE  TypeInv'
<1>1. /\ call[h].op = "close" => pc[h] \notin {"arrived", "answered"}
      /\ pc[h] # "idle"
    BY DEF FindRead, ServeRead
<1>2. /\ <<ClientOf(h), FileOf(h)>> \in Client \X File
      /\ call[h].op = "close" => call[h].fd < Len(files)
    BY <1>1, FileOfType DEF FindRead, ServeRead, TypeInv, Serving
<1>3. CASE pc' = [pc EXCEPT ![h] = "reading"]
  <2>1. FindRead(h) /\ entry' \in [Handler -> Nat] /\ UNCHANGED reply
    <3>1. openMap[<<ClientOf(h), FileOf(h)>>] \in -1..(Len(files) - 1)
        BY <1>2 DEF TypeInv, TypeOK
    <3>2. Len(files) \in Nat /\ entry \in [Handler -> Nat]
        BY DEF TypeInv, TypeOK
    <3>3. FindRead(h) /\ pc'[h] = "reading"
        BY <1>3 DEF FindRead, ServeRead, Respond, Goto, TypeInv, TypeOK
    <3> QED
      <4>1. pc \in [Handler -> Places]
          BY DEF TypeInv, TypeOK
      <4>2. openMap[<<ClientOf(h), FileOf(h)>>] # -1
          BY <3>3, <4>1 DEF FindRead, Respond, Goto
      <4> QED
          BY <3>1, <3>2, <3>3, <4>2 DEF FindRead, Goto
  <2>2. TypeOK'
      BY <1>3, <2>1 DEF FindRead, TypeInv, TypeOK, Places, serverVars, memVars,
                        clientVars, historyVars
  <2>3. Serving' /\ Asking'
      BY <1>3, <2>1 DEF FindRead, TypeInv, TypeOK, Serving, Asking, serverVars,
                        memVars, clientVars, historyVars
  <2> QED
      BY <2>2, <2>3 DEF TypeInv
<1>4. CASE \E what \in Answers : Respond(h, Response(what, 0)) /\ UNCHANGED entry
  <2>1. PICK what \in Answers : Respond(h, Response(what, 0)) /\ UNCHANGED entry
      BY <1>4
  <2>2. Response(what, 0) \in Responses /\ Response(what, 0) # None
      BY PlainResponse
  <2>3. UNCHANGED <<serverVars, call, clientVars>>
      BY DEF FindRead, ServeRead
  <2>4. TypeOK'
      BY <2>1, <2>2, <2>3 DEF Respond, Goto, TypeInv, TypeOK, Places, serverVars,
                              memVars, clientVars, historyVars
  <2>5. AnswersNow(h)
      BY <1>1, <2>1, <2>2, <2>3
      DEF Respond, Goto, AnswersNow, TypeInv, TypeOK, serverVars, memVars,
          clientVars, historyVars
  <2> QED
      BY <2>4, <2>5, Answering DEF TypeInv
<1> QED
    BY <1>3, <1>4 DEF FindRead, ServeRead, Goto, Answers

LEMMA ExpiredIsDescriptor ==
    ASSUME TypeInv, NEW h \in Handler, ExpireLease(h)
    PROVE  entry[h] + 1 \in 1..Len(files)
<1>1. DOMAIN files = 1..Len(files)
    BY DEF TypeInv, TypeOK
<1> QED
    BY <1>1 DEF ExpireLease, Registered

LEMMA ExpireTypes ==
    ASSUME TypeInv, NEW h \in Handler, ExpireLease(h)
    PROVE  TypeInv'
<1> DEFINE key == <<ClientOf(h), FileOf(h)>>
<1>1. /\ pc[h] = "reading" /\ ClientOf(h) \in Client /\ key \in Client \X File
    BY FileOfType DEF ExpireLease
<1>2. /\ pc' = [pc EXCEPT ![h] = "answered"]
      /\ reply' = [reply EXCEPT ![h] = Response("denied", 0)]
      /\ UNCHANGED <<exists, table, made, requests, stuck, dead, call, entry,
                     want, tries, sent, fdOf, live, overlapped>>
    BY DEF ExpireLease, Respond, Goto
<1>3. Response("denied", 0) \in Responses /\ Response("denied", 0) # None
  <2>1. "denied" \in Answers
      BY DEF Answers
  <2> QED
      BY <2>1, PlainResponse
<1>4. files' \in Seq(Descriptor) /\ Len(files') = Len(files)
    BY ExpiredIsDescriptor, OpenFlag DEF ExpireLease, TypeInv, TypeOK
<1>5. openMap' \in [Client \X File -> -1..(Len(files) - 1)]
  <2>1. -1 \in -1..(Len(files) - 1) /\ Len(files) \in Nat
      BY ExpiredIsDescriptor DEF TypeInv, TypeOK
  <2> QED
      BY <1>1, <2>1 DEF ExpireLease, TypeInv, TypeOK
<1>6. expired' \subseteq 0..(Len(files) - 1)
  <2>1. entry[h] \in 0..(Len(files) - 1)
      BY ExpiredIsDescriptor DEF TypeInv, TypeOK
  <2> QED
      BY <2>1 DEF ExpireLease, TypeInv, TypeOK
<1>7. TypeOK'
    BY <1>2, <1>3, <1>4, <1>5, <1>6 DEF TypeInv, TypeOK, Places
<1>8. AnswersNow(h)
    BY <1>1, <1>2, <1>3, <1>4 DEF AnswersNow, TypeInv, TypeOK
<1> QED
    BY <1>7, <1>8, Answering DEF TypeInv

LEMMA TypeNext == TypeInv /\ [Next]_vars => TypeInv'
<1> SUFFICES ASSUME TypeInv, [Next]_vars PROVE TypeInv'
    OBVIOUS
<1>1. CASE UNCHANGED vars
  <2>1. TypeOK'
      BY <1>1 DEF TypeInv, TypeOK, vars, serverVars, memVars, handlerVars,
                  clientVars, historyVars
  <2>2. Serving' /\ Asking'
      BY <1>1 DEF TypeInv, Serving, Asking, vars, serverVars, memVars,
                  handlerVars, clientVars, historyVars
  <2> QED
      BY <2>1, <2>2 DEF TypeInv
<1>2. CASE \E h \in Handler : Step(h)
    BY <1>2, LookingTypes, DiskTypes, LookUpTypes, RegisterTypes,
       UnregisterTypes, ReportTypes, ReadTypes, ExpireTypes
    DEF Step
<1> QED
    BY <1>1, <1>2, RequestTypes, GiveUpTypes, DeliverTypes, ReturnTypes DEF Next

-----------------------------------------------------------------------------
Once == Alone /\ Unanswered /\ Remembered /\ ExecutedOnce

SameIds == /\ Len(files') = Len(files)
           /\ \A d \in 1..Len(files) : files'[d].id = files[d].id

(* A step that gives no answer for good: no new call, no new descriptor,   *)
(* and nobody gets past the cache who was not, unless the cache is silent. *)
Calm ==
    /\ UNCHANGED <<requests, overlapped>>
    /\ SameIds
    /\ \A h \in Handler :
          /\ pc'[h] # "idle" => pc[h] # "idle" /\ call'[h] = call[h]
          /\ pc'[h] \in Searching =>
                pc[h] \in Searching \/ requests[call[h].id] = None

LEMMA CalmKeeps ==
    ASSUME Once, Calm
    PROVE  Once'
<1>1. Alone'
    BY DEF Once, Calm, Alone
<1>2. Unanswered'
    BY DEF Once, Calm, Unanswered, Searching
<1>3. Remembered' /\ ExecutedOnce'
    BY DEF Once, Calm, SameIds, Remembered, ExecutedOnce
<1> QED
    BY <1>1, <1>2, <1>3 DEF Once

LEMMA ClientsAreCalm ==
    ASSUME TypeInv,
           \/ \E c \in Client : Request(c) \/ GiveUp(c)
           \/ \E h \in Handler, heard \in BOOLEAN : Return(h, heard)
    PROVE  Calm
BY DEF Request, GiveUp, Return, Calm, SameIds, Searching, TypeInv, TypeOK,
       serverVars, memVars, handlerVars, historyVars

LEMMA HandlersAreCalm ==
    ASSUME TypeInv, NEW h \in Handler,
           \/ FromCache(h) \/ NotCached(h) \/ FindOpen(h) \/ GetFileEntry(h)
           \/ CreateFile(h) \/ OpenFile(h) \/ LockForClose(h) \/ Refuse(h)
           \/ StatFile(h) \/ LookUp(h) \/ TryLock(h) \/ RemoveFile(h)
           \/ FindRead(h) \/ ServeRead(h)
    PROVE  Calm
<1>1. /\ UNCHANGED <<requests, overlapped, call>> /\ SameIds
      /\ pc[h] # "idle"
    BY DEF FromCache, NotCached, FindOpen, GetFileEntry, CreateFile, OpenFile,
           LockForClose, Refuse, StatFile, LookUp, TryLock, RemoveFile,
           FindRead, ServeRead, SameIds, serverVars, memVars, clientVars, historyVars
<1>2. \E place : /\ pc' = [pc EXCEPT ![h] = place]
                 /\ place \in Searching =>
                        pc[h] \in Searching \/ requests[call[h].id] = None
  <2>1. CASE FromCache(h) \/ NotCached(h) \/ FindOpen(h)
      BY <2>1 DEF FromCache, NotCached, FindOpen, Cached, Respond, Goto, Searching
  <2>2. CASE GetFileEntry(h) \/ LookUp(h)
      BY <2>2 DEF GetFileEntry, LookUp, Goto, Searching
  <2>3. CASE CreateFile(h) \/ OpenFile(h) \/ LockForClose(h) \/ Refuse(h)
      BY <2>3 DEF CreateFile, OpenFile, LockForClose, Refuse, Respond, Goto,
                  Searching
  <2>4. CASE StatFile(h) \/ TryLock(h) \/ RemoveFile(h)
      BY <2>4 DEF StatFile, TryLock, RemoveFile, Respond, Goto, Searching
  <2>5. CASE FindRead(h) \/ ServeRead(h)
      BY <2>5 DEF FindRead, ServeRead, Respond, Goto, Searching
  <2> QED
      BY <2>1, <2>2, <2>3, <2>4, <2>5
<1> QED
    BY <1>1, <1>2 DEF Calm, TypeInv, TypeOK

LEMMA DeliverOnce ==
    ASSUME TypeInv, Once, NEW c \in Client, NEW h \in Handler, Deliver(c, h)
    PROVE  Once'
<1>1. /\ pc[h] = "idle"
      /\ pc' = [pc EXCEPT ![h] = "arrived"] /\ call' = [call EXCEPT ![h] = want[c]]
      /\ overlapped' = overlapped \cup {i \in {want[c].id} : InProgress(i)}
      /\ UNCHANGED <<requests, files>>
    BY DEF Deliver, serverVars, memVars
<1>2. pc \in [Handler -> Places] /\ call \in [Handler -> Call \cup {None}]
    BY DEF TypeInv, TypeOK
<1>3. Alone'
    BY <1>1, <1>2 DEF Once, Alone, InProgress
<1>4. Unanswered'
    BY <1>1, <1>2 DEF Once, Unanswered, Searching
<1>5. Remembered' /\ ExecutedOnce'
    BY <1>1 DEF Once, Remembered, ExecutedOnce
<1> QED
    BY <1>3, <1>4, <1>5 DEF Once

(* The answer of h goes to the cache: nobody else searches for it.         *)
LEMMA ReportOnce ==
    ASSUME TypeInv, Once, NEW h \in Handler,
           Closed(h) \/ AlreadyDeleted(h) \/ DropEntry(h)
    PROVE  Once'
<1>1. PICK what \in Answers :
        /\ requests' = [requests EXCEPT ![call[h].id] = Response(what, 0)]
        /\ pc' = [pc EXCEPT ![h] = "answered"]
        /\ UNCHANGED <<files, call, overlapped>>
    BY DEF Closed, AlreadyDeleted, DropEntry, Report, Remember, Respond, Goto,
           Answers, clientVars, historyVars
<1>2. /\ pc[h] # "idle" /\ pc \in [Handler -> Places]
      /\ requests \in [Id -> Responses] /\ Response(what, 0) # None
    BY PlainResponse
    DEF Closed, AlreadyDeleted, DropEntry, Report, TypeInv, TypeOK
<1>3. Alone' /\ ExecutedOnce'
    BY <1>1, <1>2 DEF Once, Alone, ExecutedOnce
<1>4. Unanswered'
  <2> SUFFICES ASSUME NEW g \in Handler, pc'[g] \in Searching,
                      call[g].id \notin overlapped
               PROVE  requests'[call[g].id] = None
      BY <1>1 DEF Unanswered
  <2>1. g # h /\ pc[g] \in Searching
      BY <1>1, <1>2 DEF Searching
  <2>2. call[g].id # call[h].id
      BY <1>2, <2>1 DEF Once, Alone, Searching
  <2> QED
      BY <1>1, <1>2, <2>1, <2>2 DEF Once, Unanswered
<1>5. Remembered'
  <2> SUFFICES ASSUME NEW d \in 1..Len(files)
               PROVE  requests'[files[d].id] # None
      BY <1>1 DEF Remembered
  <2>1. files[d].id \in Id
      BY DescriptorIds
  <2> QED
      BY <1>1, <1>2, <2>1 DEF Once, Remembered
<1> QED
    BY <1>3, <1>4, <1>5 DEF Once

LEMMA RegisterOnce ==
    ASSUME TypeInv, Once, NEW h \in Handler, Register(h)
    PROVE  Once'
<1>1. pc[h] = "register" /\ call[h].id \in Id
    BY FileOfType DEF Register
<1>2. /\ pc \in [Handler -> Places] /\ requests \in [Id -> Responses]
      /\ Len(files) \in Nat /\ files \in Seq(Descriptor)
    BY DEF TypeInv, TypeOK
<1>3. CASE ~HasRoom
  <2>1. Calm
      BY <1>1, <1>2, <1>3
      DEF Register, Respond, Goto, Calm, SameIds, Searching, clientVars, historyVars
  <2> QED
      BY <2>1, CalmKeeps
<1>4. CASE HasRoom
  <2> DEFINE i == call[h].id
             n == Len(files) + 1
  <2>1. /\ files' = Append(files, [file |-> FileOf(h), id |-> i,
                                   client |-> ClientOf(h), open |-> TRUE])
        /\ requests' = [requests EXCEPT ![i] = Response("opened", Len(files))]
        /\ pc' = [pc EXCEPT ![h] = "answered"]
        /\ UNCHANGED <<call, overlapped>>
      BY <1>4 DEF Register, Remember, Respond, Goto, clientVars, historyVars
  <2>2. /\ Len(files') = n /\ files'[n].id = i
        /\ \A d \in 1..Len(files) : files'[d].id = files[d].id
      BY <1>2, <2>1
  <2>3. Response("opened", Len(files)) # None
    <3>1. "opened" \in Answers
        BY DEF Answers
    <3>2. Len(files) \in 0..MaxOpenFiles
        BY <1>2, SessionAssumption DEF TypeInv, TypeOK
    <3> QED
        BY <3>1, <3>2, ResponseType
  <2>4. i \notin overlapped => \A d \in 1..Len(files) : files[d].id # i
      BY <1>1 DEF Once, Unanswered, Remembered, Searching
  <2>5. \A d \in 1..n : d = n \/ d \in 1..Len(files)
      BY <1>2
  <2>6. Alone'
      BY <1>1, <1>2, <2>1 DEF Once, Alone
  <2>7. Unanswered'
    <3> SUFFICES ASSUME NEW g \in Handler, pc'[g] \in Searching,
                        call[g].id \notin overlapped
                 PROVE  requests'[call[g].id] = None
        BY <2>1 DEF Unanswered
    <3>1. g # h /\ pc[g] \in Searching
        BY <1>2, <2>1 DEF Searching
    <3>2. call[g].id # i
        BY <1>1, <3>1 DEF Once, Alone, Searching
    <3> QED
        BY <1>2, <2>1, <3>1, <3>2 DEF Once, Unanswered
  <2>8. Remembered'
    <3> SUFFICES ASSUME NEW d \in 1..n PROVE requests'[files'[d].id] # None
        BY <2>2 DEF Remembered
    <3>1. CASE d = n
        BY <1>1, <1>2, <2>1, <2>2, <2>3, <3>1
    <3>2. CASE d \in 1..Len(files)
      <4>1. files[d].id \in Id
          BY <3>2, DescriptorIds
      <4> QED
          BY <1>2, <2>1, <2>2, <2>3, <3>2, <4>1 DEF Once, Remembered
    <3> QED
        BY <2>5, <3>1, <3>2
  <2>9. ExecutedOnce'
      BY <2>1, <2>2, <2>4, <2>5 DEF Once, ExecutedOnce
  <2> QED
      BY <2>6, <2>7, <2>8, <2>9 DEF Once
<1> QED
    BY <1>3, <1>4

LEMMA IdsStay ==
    ASSUME TypeInv, NEW h \in Handler, Unregister(h) \/ ExpireLease(h)
    PROVE  Calm
<1>1. /\ UNCHANGED <<requests, overlapped, call>> /\ pc[h] # "idle"
      /\ \/ pc' = [pc EXCEPT ![h] = "unregistered"]
         \/ pc' = [pc EXCEPT ![h] = "answered"]
  <2>1. CASE Unregister(h)
      BY <2>1 DEF Unregister, Goto, clientVars, historyVars
  <2>2. CASE ExpireLease(h)
      BY <2>2 DEF ExpireLease, Respond, Goto
  <2> QED
      BY <2>1, <2>2
<1>2. SameIds
  <2>1. files \in Seq(Descriptor) /\ DOMAIN files = 1..Len(files)
      BY DEF TypeInv, TypeOK
  <2>2. ASSUME NEW d \in 1..Len(files), NEW b \in BOOLEAN,
               files' = [files EXCEPT ![d].open = b]
        PROVE  SameIds
      BY <2>1, <2>2, OpenFlag DEF SameIds
  <2>3. CASE Unregister(h)
    <3>1. call[h].fd + 1 \in 1..Len(files)
        BY <2>3, FileOfType DEF Unregister, TypeInv, Serving
    <3> QED
        BY <2>2, <2>3, <3>1 DEF Unregister
  <2>4. CASE ExpireLease(h)
      BY <2>2, <2>4, ExpiredIsDescriptor DEF ExpireLease
  <2> QED
      BY <2>3, <2>4
<1> QED
    BY <1>1, <1>2 DEF Calm, Searching, TypeInv, TypeOK

LEMMA OnceNext == TypeInv /\ Once /\ [Next]_vars => Once'
<1> SUFFICES ASSUME TypeInv, Once, [Next]_vars PROVE Once'
    OBVIOUS
<1>1. CASE UNCHANGED vars
    BY <1>1 DEF Once, Alone, Unanswered, Remembered, ExecutedOnce, vars,
                serverVars, memVars, handlerVars, clientVars, historyVars
<1>2. CASE \E h \in Handler : Step(h)
    BY <1>2, HandlersAreCalm, IdsStay, CalmKeeps, ReportOnce, RegisterOnce
    DEF Step
<1> QED
    BY <1>1, <1>2, ClientsAreCalm, CalmKeeps, DeliverOnce DEF Next

(* Types, and the limit on s.files, whatever clients do.                   *)
THEOREM SessionTypesCorrect == Spec => []TypeOK
<1>1. TypeInv => TypeOK
    BY DEF TypeInv
<1> QED
    BY <1>1, TypeInit, TypeNext, PTL DEF Spec

(* A request that is tried again is not executed again, unless a try       *)
(* arrives while another is in progress.                                   *)
THEOREM RetriesAreHarmless == Spec => []ExecutedOnce
<1>1. Init => Once
    BY DEF Init, Once, Alone, Unanswered, Remembered, ExecutedOnce, Searching
<1>2. Once => ExecutedOnce
    BY DEF Once
<1> QED
    BY <1>1, <1>2, TypeInit, TypeNext, OnceNext, PTL DEF Spec

-----------------------------------------------------------------------------
(* What makes LiveCanRead inductive.  All that follows is about any        *)
(* client; only Entrusted and Undisturbed need careful ones.               *)
Makes(k)  == k.op \in {"create", "open"}
Closing(h) == pc[h] \notin {"idle", "answered"} /\ call[h].op = "close"

(* Descriptor fd of s.files was made for client c and file f.              *)
Owned(descriptors, c, f, fd) == /\ fd \in 0..(Len(descriptors) - 1)
                                /\ descriptors[fd + 1].client = c
                                /\ descriptors[fd + 1].file = f

(* A response that can be meant for call k.                                *)
Suits(descriptors, r, k) ==
    /\ r.what = "opened" =>
            Makes(k) /\ Owned(descriptors, k.client, k.file, r.fd)
    /\ r.what \in {"closed", "refused"} => k.op = "close"

(* Which operations get to which place.                                    *)
Located ==
    \A h \in Handler :
        /\ pc[h] = "register" => Makes(call[h])
        /\ pc[h] \in {"on disk", "gone", "deleting", "removed"} =>
                call[h].op = "delete"
        /\ pc[h] = "reading" =>
                /\ call[h].op = "read"
                /\ Owned(files, ClientOf(h), call[h].file, entry[h])

(* An id is that of one call; a Close is sent once.                        *)
Identified ==
    /\ \A h \in Handler : pc[h] # "idle" => call[h] # None /\ call[h].id <= sent
    /\ \A c \in Client : want[c] # None =>
            want[c].id <= sent /\ want[c].client = c
    /\ \A h \in Handler, c \in Client :
            pc[h] # "idle" /\ want[c] # None /\ call[h].id = want[c].id =>
                call[h] = want[c] /\ tries[c] # 0
    /\ \A g, h \in Handler :
            pc[g] # "idle" /\ pc[h] # "idle" /\ call[g].id = call[h].id =>
                call[g] = call[h] /\ (call[h].op = "close" => g = h)
    /\ \A c, e \in Client :
            want[c] # None /\ want[e] # None /\ want[c].id = want[e].id => c = e
    /\ \A i \in Id : requests[i] # None => i <= sent /\ requests[i].what # "refused"

(* Answers belong to the calls they are for.                               *)
Fitting ==
    /\ \A h \in Handler : pc[h] # "idle" /\ requests[call[h].id] # None =>
            Suits(files, requests[call[h].id], call[h])
    /\ \A c \in Client : want[c] # None /\ requests[want[c].id] # None =>
            Suits(files, requests[want[c].id], want[c])
    /\ \A h \in Handler : pc[h] = "answered" =>
            /\ Suits(files, reply[h], call[h])
            /\ reply[h].what = "opened" =>
                    /\ requests[call[h].id] # None
                    /\ requests[call[h].id].what = "opened"
    /\ \A c \in Client, f \in File :
            openMap[<<c, f>>] # -1 => Owned(files, c, f, openMap[<<c, f>>])

(* Careful clients close descriptors of their own.                         *)
Entrusted ==
    Careful =>
        /\ \A c \in Client : \A f \in live[c] : Owned(files, c, f, fdOf[c][f])
        /\ \A c \in Client : want[c] # None /\ want[c].op = "close" =>
                /\ Owned(files, c, want[c].file, want[c].fd)
                /\ want[c].file \notin live[c]
                /\ fdOf[c][want[c].file] = want[c].fd
        /\ \A h \in Handler : pc[h] # "idle" /\ call[h].op = "close" =>
                Owned(files, ClientOf(h), call[h].file, call[h].fd)

(* The newest descriptor of c and f is open, and no Close in progress is   *)
(* about it, but for that of call i.                                       *)
Attached(c, f, i) ==
    /\ Registered(openMap[<<c, f>>], c)
    /\ \A h \in Handler : Closing(h) /\ call[h].id # i =>
            call[h].fd # openMap[<<c, f>>]

(* The lease on it has expired, or nothing is amiss with it.               *)
Standing(c, f, i) == Lapsed(c, f) \/ Attached(c, f, i)

(* The answer to the Close that client c waits for could be "refused".     *)
Refusable(h) == \/ pc[h] \in {"arrived", "missed", "found", "writing"}
                \/ pc[h] = "answered" /\ reply[h].what = "refused"

Undecided(c) == \/ tries[c] = 0
                \/ \E h \in Handler : /\ pc[h] # "idle" /\ call[h].id = want[c].id
                                      /\ Refusable(h)

Undisturbed ==
    Careful =>
        /\ \A c \in Client : \A f \in live[c] : Standing(c, f, 0)
        /\ \A c \in Client :
                (/\ want[c] # None /\ Makes(want[c])
                 /\ requests[want[c].id] # None
                 /\ requests[want[c].id].what = "opened") =>
                    Standing(c, want[c].file, 0)
        /\ \A c \in Client :
                want[c] # None /\ want[c].op = "close" /\ Undecided(c) =>
                    Standing(c, want[c].file, want[c].id)

LiveInv == Located /\ Identified /\ Fitting /\ Entrusted /\ Undisturbed

-----------------------------------------------------------------------------
SameOwners == /\ Len(files') \in Nat /\ Len(files) <= Len(files')
              /\ \A d \in 1..Len(files) : /\ files'[d].client = files[d].client
                                          /\ files'[d].file = files[d].file

LEMMA OwnedKept ==
    ASSUME TypeInv, SameOwners, NEW c, NEW f, NEW fd, Owned(files, c, f, fd)
    PROVE  Owned(files', c, f, fd)
<1>1. Len(files) \in Nat /\ fd \in 0..(Len(files) - 1)
    BY DEF TypeInv, TypeOK, Owned
<1>2. fd + 1 \in 1..Len(files) /\ fd \in 0..(Len(files') - 1)
    BY <1>1 DEF SameOwners
<1> QED
    BY <1>2 DEF SameOwners, Owned

LEMMA SuitsKept ==
    ASSUME TypeInv, SameOwners, NEW r, NEW k, Suits(files, r, k)
    PROVE  Suits(files', r, k)
BY OwnedKept DEF Suits

(* An expired lease stays so until the file is opened again.               *)
LEMMA LapsedKept ==
    ASSUME TypeInv, SameOwners, expired \subseteq expired', NEW c, NEW f,
           Lapsed(c, f), openMap'[<<c, f>>] = -1
    PROVE  Lapsed(c, f)'
<1>1. PICK fd \in expired : files[fd + 1].client = c /\ files[fd + 1].file = f
    BY DEF Lapsed
<1>2. fd \in 0..(Len(files) - 1) /\ Len(files) \in Nat
    BY DEF TypeInv, TypeOK
<1>3. fd + 1 \in 1..Len(files)
    BY <1>2
<1>4. files'[fd + 1].client = c /\ files'[fd + 1].file = f
    BY <1>1, <1>3 DEF SameOwners
<1> QED
    BY <1>1, <1>4 DEF Lapsed

(* A step of handler h that neither registers nor unregisters a client and *)
(* remembers no answer.                                                    *)
Quiet(h) ==
    /\ UNCHANGED <<files, openMap, requests, call, clientVars>>
    /\ pc[h] \notin {"idle", "answered"} /\ pc'[h] # "idle"
    /\ \A g \in Handler \ {h} :
            pc'[g] = pc[g] /\ reply'[g] = reply[g] /\ entry'[g] = entry[g]
    /\ call[h].op = "close" /\ Refusable(h)' => Refusable(h)
    /\ pc'[h] = "answered" =>
            \/ requests[call[h].id] # None /\ reply'[h] = requests[call[h].id]
            \/ reply'[h].what = "refused" /\ call[h].op = "close"
            \/ reply'[h].what \notin {"opened", "closed", "refused"}

LEMMA QuietKeeps ==
    ASSUME TypeInv, LiveInv, NEW h \in Handler, Quiet(h), Located'
    PROVE  LiveInv'
<1>1. /\ files' = files /\ openMap' = openMap /\ requests' = requests
      /\ call' = call /\ want' = want /\ tries' = tries /\ sent' = sent
      /\ fdOf' = fdOf /\ live' = live
      /\ \A g \in Handler : pc'[g] # "idle" <=> pc[g] # "idle"
    BY DEF Quiet, clientVars, historyVars
<1>2. SameOwners
    BY <1>1 DEF SameOwners, TypeInv, TypeOK
<1>3. Identified'
    BY <1>1 DEF LiveInv, Identified
<1>4. Fitting'
  <2>1. ASSUME NEW g \in Handler, pc'[g] = "answered"
        PROVE  /\ Suits(files, reply'[g], call[g])
               /\ reply'[g].what = "opened" =>
                    /\ requests[call[g].id] # None
                    /\ requests[call[g].id].what = "opened"
    <3>1. CASE g # h
        BY <2>1, <3>1 DEF Quiet, LiveInv, Fitting
    <3>2. CASE g = h /\ requests[call[h].id] # None /\ reply'[h] = requests[call[h].id]
        BY <3>2 DEF Quiet, LiveInv, Fitting
    <3>3. CASE g = h /\ reply'[h].what # "opened"
        BY <2>1, <3>3 DEF Quiet, LiveInv, Fitting, Suits
    <3> QED
        BY <2>1, <3>1, <3>2, <3>3 DEF Quiet
  <2> QED
    BY <1>1, <2>1 DEF LiveInv, Fitting, Suits, Owned
<1>5. Entrusted'
    BY <1>1 DEF LiveInv, Entrusted, Owned, ClientOf
<1>6. Undisturbed'
  <2>1. ASSUME NEW c, NEW f, NEW i, Standing(c, f, i) PROVE Standing(c, f, i)'
      BY <1>1, <2>1
      DEF Standing, Lapsed, Attached, Closing, Registered, Quiet, clientVars,
          historyVars
  <2>2. ASSUME NEW c \in Client, want[c] # None, want[c].op = "close", Undecided(c)'
        PROVE  Undecided(c)
    <3>1. CASE tries[c] = 0
        BY <3>1 DEF Undecided
    <3>2. ASSUME NEW g \in Handler, pc'[g] # "idle", call[g].id = want[c].id,
                 Refusable(g)'
          PROVE  Undecided(c)
      <4>1. CASE g # h
          BY <1>1, <3>2, <4>1 DEF Quiet, Refusable, Undecided
      <4>2. CASE g = h
          BY <1>1, <2>2, <3>2, <4>2 DEF Quiet, Undecided, LiveInv, Identified
      <4> QED
          BY <4>1, <4>2
    <3> QED
        BY <1>1, <2>2, <3>1, <3>2 DEF Undecided
  <2> QED
    BY <1>1, <2>1, <2>2 DEF LiveInv, Undisturbed
<1> QED
    BY <1>3, <1>4, <1>5, <1>6 DEF LiveInv

(* The steps of handlers that are quiet.                                   *)
LookingAround(h) ==
    \/ FromCache(h) \/ NotCached(h) \/ FindOpen(h) \/ GetFileEntry(h)
    \/ CreateFile(h) \/ OpenFile(h) \/ LockForClose(h) \/ Refuse(h)
    \/ StatFile(h) \/ LookUp(h) \/ TryLock(h) \/ RemoveFile(h)
    \/ FindRead(h) \/ ServeRead(h)

LEMMA LookingIsQuiet ==
    ASSUME TypeInv, LiveInv, NEW h \in Handler, LookingAround(h)
    PROVE  Quiet(h)
<1>1. /\ pc \in [Handler -> Places] /\ reply \in [Handler -> Responses]
      /\ entry \in [Handler -> Nat]
    BY DEF TypeInv, TypeOK
<1>2. /\ UNCHANGED <<files, openMap, requests, call, clientVars>>
      /\ pc[h] \notin {"idle", "answered"}
      /\ \A g \in Handler \ {h} :
            pc'[g] = pc[g] /\ reply'[g] = reply[g] /\ entry'[g] = entry[g]
  <2>1. CASE FromCache(h) \/ NotCached(h) \/ FindOpen(h)
      BY <1>1, <2>1 DEF FromCache, NotCached, FindOpen, Respond, Goto,
                        serverVars, memVars
  <2>2. CASE GetFileEntry(h) \/ LookUp(h) \/ FindRead(h) \/ ServeRead(h)
      BY <1>1, <2>2 DEF GetFileEntry, LookUp, FindRead, ServeRead, Respond, Goto,
                        serverVars, memVars
  <2>3. CASE \/ CreateFile(h) \/ OpenFile(h) \/ LockForClose(h) \/ Refuse(h)
             \/ StatFile(h) \/ TryLock(h) \/ RemoveFile(h)
      BY <1>1, <2>3 DEF CreateFile, OpenFile, LockForClose, Refuse, StatFile,
                        TryLock, RemoveFile, Respond, Goto, serverVars, memVars
  <2> QED
      BY <2>1, <2>2, <2>3 DEF LookingAround
<1>3. CASE FromCache(h)
  <2>1. /\ requests[call[h].id] # None /\ pc'[h] = "answered"
        /\ reply'[h] = requests[call[h].id]
      BY <1>1, <1>3 DEF FromCache, Cached, Respond, Goto
  <2>2. requests[call[h].id].what # "refused"
    <3>1. call[h].id \in Id
        BY <1>2 DEF TypeInv, Serving, Call
    <3> QED
        BY <2>1, <3>1 DEF LiveInv, Identified
  <2> QED
      BY <1>2, <2>1, <2>2 DEF Quiet, Refusable
<1>4. CASE \/ NotCached(h) \/ GetFileEntry(h) \/ LookUp(h) \/ StatFile(h)
           \/ LockForClose(h) \/ RemoveFile(h)
  <2>1. /\ pc'[h] # "idle" /\ pc'[h] # "answered"
        /\ call[h].op = "close" => Refusable(h)
      BY <1>1, <1>4 DEF NotCached, GetFileEntry, LookUp, StatFile, LockForClose,
                        RemoveFile, Goto, Refusable, LiveInv, Located
  <2> QED
      BY <1>2, <2>1 DEF Quiet
<1>5. CASE Refuse(h)
  <2>1. /\ pc[h] = "writing" /\ pc'[h] = "answered" /\ reply'[h].what = "refused"
        /\ call[h].op = "close"
      BY <1>1, <1>5 DEF Refuse, Respond, Goto, Response, TypeInv, Serving
  <2> QED
      BY <1>2, <2>1 DEF Quiet, Refusable
<1>6. CASE \/ FindOpen(h) \/ CreateFile(h) \/ OpenFile(h) \/ TryLock(h)
           \/ FindRead(h) \/ ServeRead(h)
  <2>1. /\ pc'[h] # "idle"
        /\ pc'[h] = "answered" =>
              reply'[h].what \notin {"opened", "closed", "refused"}
    <3>1. \/ \E what \in {"not found", "exists", "in use", "denied", "served"} :
                Respond(h, Response(what, 0))
          \/ \E place \in {"missed", "stuck", "register", "deleting", "reading"} :
                Goto(h, place)
        BY <1>6 DEF FindOpen, CreateFile, OpenFile, TryLock, FindRead, ServeRead
    <3>2. ASSUME NEW what, what \notin {"opened", "closed", "refused"},
                 Respond(h, Response(what, 0))
          PROVE  pc'[h] = "answered" /\ reply'[h].what = what
        BY <1>1, <3>2 DEF Respond, Goto, Response
    <3>3. ASSUME NEW place, place \notin {"idle", "answered"}, Goto(h, place)
          PROVE  pc'[h] \notin {"idle", "answered"}
        BY <1>1, <3>3 DEF Goto
    <3> QED
        BY <3>1, <3>2, <3>3
  <2>2. call[h].op = "close" => Refusable(h)
      BY <1>6 DEF FindOpen, CreateFile, OpenFile, TryLock, FindRead, ServeRead,
                  Refusable, LiveInv, Located
  <2> QED
      BY <1>2, <2>1, <2>2 DEF Quiet
<1> QED
    BY <1>3, <1>4, <1>5, <1>6 DEF LookingAround

LEMMA LookingLocated ==
    ASSUME TypeInv, LiveInv, NEW h \in Handler, LookingAround(h)
    PROVE  Located'
<1>1. /\ pc \in [Handler -> Places] /\ entry \in [Handler -> Nat]
    BY DEF TypeInv, TypeOK
<1>2. Quiet(h)
    BY LookingIsQuiet
<1>3. files' = files /\ call' = call
    BY <1>2 DEF Quiet
<1>4. pc'[h] = "register" => Makes(call[h])
    BY <1>1 DEF LookingAround, FromCache, NotCached, FindOpen, GetFileEntry,
           CreateFile, OpenFile, LockForClose, Refuse, StatFile, LookUp,
           TryLock, RemoveFile, FindRead, ServeRead, Respond, Goto, Makes
<1>5. pc'[h] \in {"on disk", "gone", "deleting", "removed"} => call[h].op = "delete"
    BY <1>1 DEF LookingAround, FromCache, NotCached, FindOpen, GetFileEntry,
           CreateFile, OpenFile, LockForClose, Refuse, StatFile, LookUp,
           TryLock, RemoveFile, FindRead, ServeRead, Respond, Goto, LiveInv, Located
<1>6. pc'[h] = "reading" => /\ call[h].op = "read"
                            /\ Owned(files, ClientOf(h), call[h].file, entry'[h])
  <2> SUFFICES ASSUME pc'[h] = "reading"
               PROVE  /\ call[h].op = "read"
                      /\ Owned(files, ClientOf(h), call[h].file, entry'[h])
      OBVIOUS
  <2>1. FindRead(h) /\ pc[h] = "arrived"
      BY <1>1 DEF LookingAround, FromCache, NotCached, FindOpen, GetFileEntry,
           CreateFile, OpenFile, LockForClose, Refuse, StatFile, LookUp,
           TryLock, RemoveFile, FindRead, ServeRead, Respond, Goto
  <2>2. /\ call[h].op = "read" /\ openMap[<<ClientOf(h), FileOf(h)>>] # -1
        /\ entry'[h] = openMap[<<ClientOf(h), FileOf(h)>>]
      BY <1>1, <2>1 DEF FindRead, Respond, Goto
  <2>3. FileOf(h) = call[h].file /\ FileOf(h) \in File /\ ClientOf(h) \in Client
      BY <2>1, <2>2 DEF FileOf, ClientOf, TypeInv, Serving, Call
  <2> QED
      BY <2>2, <2>3 DEF LiveInv, Fitting
<1> QED
    BY <1>2, <1>3, <1>4, <1>5, <1>6 DEF Located, Quiet, LiveInv, Owned, ClientOf, Makes

LEMMA LookingKeeps ==
    ASSUME TypeInv, LiveInv, NEW h \in Handler, LookingAround(h)
    PROVE  LiveInv'
BY LookingIsQuiet, LookingLocated, QuietKeeps

(* The step is by handler h, and clients are as they were.                 *)
ByHandler(h) ==
    /\ pc[h] \notin {"idle", "answered"} /\ pc'[h] # "idle"
    /\ \A g \in Handler \ {h} : /\ pc'[g] = pc[g] /\ reply'[g] = reply[g]
                                /\ entry'[g] = entry[g]
    /\ UNCHANGED <<call, want, tries, sent, fdOf>>

LEMMA IdentifiedByHandler ==
    ASSUME TypeInv, LiveInv, NEW h \in Handler, ByHandler(h),
           \A i \in Id : requests'[i] # None => \/ requests'[i] = requests[i]
                                                \/ /\ i = call[h].id
                                                   /\ requests'[i].what # "refused"
    PROVE  Identified'
<1>1. \A g \in Handler : pc'[g] # "idle" <=> pc[g] # "idle"
    BY DEF ByHandler
<1>2. \A i \in Id : requests'[i] # None => i <= sent /\ requests'[i].what # "refused"
    BY DEF LiveInv, Identified, ByHandler
<1> QED
    BY <1>1, <1>2 DEF LiveInv, Identified, ByHandler

(* A Close or a Delete that is reported gives no descriptor.               *)
LEMMA ReportKeeps ==
    ASSUME TypeInv, LiveInv, NEW h \in Handler,
           Closed(h) \/ AlreadyDeleted(h) \/ DropEntry(h)
    PROVE  LiveInv'
<1> DEFINE i == call[h].id
<1>1. /\ pc \in [Handler -> Places] /\ reply \in [Handler -> Responses]
      /\ requests \in [Id -> Responses] /\ files' = files /\ openMap' = openMap
      /\ live' = live /\ expired' = expired
    BY DEF TypeInv, TypeOK, Closed, AlreadyDeleted, DropEntry, Report, clientVars, historyVars
<1>2. PICK what \in {"closed", "deleted"} :
        /\ requests' = [requests EXCEPT ![i] = Response(what, 0)]
        /\ reply' = [reply EXCEPT ![h] = Response(what, 0)]
        /\ pc' = [pc EXCEPT ![h] = "answered"] /\ entry' = entry
        /\ what = "closed" => call[h].op = "close"
        /\ call[h].op \in {"close", "delete"}
    BY DEF Closed, AlreadyDeleted, DropEntry, Report, Remember, Respond, Goto,
           TypeInv, Serving, LiveInv, Located
<1>3. ByHandler(h) /\ call[h] \in Call /\ i \in Id
  <2>1. pc[h] \notin {"idle", "answered"}
      BY DEF Closed, AlreadyDeleted, DropEntry, Report
  <2>2. call[h] \in Call
      BY <2>1 DEF TypeInv, Serving
  <2> QED
      BY <1>1, <1>2, <2>1, <2>2
      DEF ByHandler, Closed, AlreadyDeleted, DropEntry, Report, clientVars, historyVars, Call
<1>4. /\ requests'[i].what = what /\ reply'[h].what = what
      /\ \A j \in Id : j # i => requests'[j] = requests[j]
    BY <1>1, <1>2, <1>3 DEF Response
<1>5. SameOwners
    BY <1>1 DEF SameOwners, TypeInv, TypeOK
<1>6. Located'
    BY <1>1, <1>2, <1>3 DEF LiveInv, Located, ByHandler, Owned, ClientOf, Makes
<1>7. Identified'
    BY <1>3, <1>4, IdentifiedByHandler
<1>8. \A k : Suits(files, requests'[i], k) <=> (what = "closed" => k.op = "close")
    BY <1>2, <1>4 DEF Suits
<1>9. Fitting'
  <2>1. \A r, k : Suits(files, r, k) => Suits(files', r, k)
      BY <1>5, SuitsKept
  <2>2. ASSUME NEW g \in Handler, pc'[g] # "idle", requests'[call[g].id] # None
        PROVE  Suits(files, requests'[call[g].id], call[g])
    <3>1. pc[g] # "idle" /\ call[g].id \in Id
        BY <1>3, <2>2 DEF ByHandler, TypeInv, Serving, Call
    <3>2. CASE call[g].id = i
        BY <1>2, <1>3, <1>8, <3>1, <3>2 DEF LiveInv, Identified, ByHandler
    <3>3. CASE call[g].id # i
        BY <1>4, <2>2, <3>1, <3>3 DEF LiveInv, Fitting
    <3> QED
        BY <3>2, <3>3
  <2>3. ASSUME NEW c \in Client, want[c] # None, requests'[want[c].id] # None
        PROVE  Suits(files, requests'[want[c].id], want[c])
    <3>1. want[c].id \in Id
        BY <2>3 DEF TypeInv, Asking, Call
    <3>2. CASE want[c].id = i
        BY <1>2, <1>3, <1>8, <2>3, <3>2 DEF LiveInv, Identified, ByHandler
    <3>3. CASE want[c].id # i
        BY <1>4, <2>3, <3>1, <3>3 DEF LiveInv, Fitting
    <3> QED
        BY <3>2, <3>3
  <2>4. ASSUME NEW g \in Handler, pc'[g] = "answered"
        PROVE  /\ Suits(files, reply'[g], call[g])
               /\ reply'[g].what = "opened" =>
                    /\ requests'[call[g].id] # None
                    /\ requests'[call[g].id].what = "opened"
    <3>1. CASE g = h
        BY <1>2, <1>4, <3>1 DEF Suits
    <3>2. CASE g # h
      <4>1. pc[g] = "answered" /\ reply'[g] = reply[g] /\ call[g].id \in Id
          BY <1>3, <2>4, <3>2 DEF ByHandler, TypeInv, Serving, Call
      <4>2. reply[g].what = "opened" => call[g].id # i
          BY <1>2, <1>3, <4>1
          DEF LiveInv, Fitting, Suits, Makes, Identified, ByHandler
      <4> QED
          BY <1>4, <4>1, <4>2 DEF LiveInv, Fitting
    <3> QED
        BY <3>1, <3>2
  <2> QED
      BY <1>1, <1>3, <2>1, <2>2, <2>3, <2>4 DEF Fitting, LiveInv, ByHandler, Owned
<1>10. Entrusted'
    BY <1>1, <1>3 DEF LiveInv, Entrusted, Owned, ClientOf, ByHandler
<1>11. Undisturbed'
  <2>1. \A c, f, j : Standing(c, f, j) => Standing(c, f, j)'
      BY <1>1, <1>2, <1>3
      DEF Standing, Lapsed, Attached, Closing, Registered, ByHandler
  <2>2. ASSUME NEW c \in Client, want[c] # None, requests'[want[c].id] # None,
               requests'[want[c].id].what = "opened"
        PROVE  requests[want[c].id] # None /\ requests[want[c].id].what = "opened"
    <3>1. want[c].id \in Id
        BY <2>2 DEF TypeInv, Asking, Call
    <3> QED
        BY <1>2, <1>4, <2>2, <3>1
  <2>3. \A g \in Handler : pc'[g] # "idle" /\ Refusable(g)' =>
                                pc[g] # "idle" /\ Refusable(g)
      BY <1>2, <1>3, <1>4 DEF Refusable, ByHandler
  <2>4. \A c \in Client : want[c] # None /\ Undecided(c)' => Undecided(c)
      BY <1>3, <2>3 DEF Undecided, ByHandler
  <2> QED
      BY <1>1, <1>3, <2>1, <2>2, <2>4 DEF LiveInv, Undisturbed, ByHandler
<1> QED
    BY <1>6, <1>7, <1>9, <1>10, <1>11 DEF LiveInv

LEMMA NoRoomKeeps ==
    ASSUME TypeInv, LiveInv, NEW h \in Handler, Register(h), ~HasRoom
    PROVE  LiveInv'
<1>1. /\ pc \in [Handler -> Places] /\ reply \in [Handler -> Responses]
      /\ pc[h] = "register" /\ Makes(call[h])
    BY DEF TypeInv, TypeOK, Register, LiveInv, Located
<1>2. UNCHANGED <<files, openMap, requests, call, entry, clientVars>>
    BY DEF Register
<1>3. \/ Respond(h, Response("exhausted", 0)) \/ UNCHANGED <<pc, reply>>
    BY DEF Register
<1>4. ASSUME NEW what, what \notin {"opened", "closed", "refused"},
             Respond(h, Response(what, 0))
      PROVE  pc'[h] = "answered" /\ reply'[h].what = what
    BY <1>1, <1>4 DEF Respond, Goto, Response
<1>5. \A g \in Handler \ {h} : pc'[g] = pc[g] /\ reply'[g] = reply[g]
    BY <1>1, <1>3 DEF Respond, Goto
<1>6. Quiet(h)
    BY <1>1, <1>2, <1>3, <1>4, <1>5 DEF Quiet, Makes
<1>7. Located'
    BY <1>1, <1>2, <1>3, <1>4, <1>5 DEF LiveInv, Located, Owned, ClientOf, Makes
<1> QED
    BY <1>6, <1>7, QuietKeeps

LEMMA RegisteredInRange ==
    ASSUME TypeInv, NEW fd, NEW c, Registered(fd, c)
    PROVE  /\ fd + 1 \in 1..Len(files)
           /\ files[fd + 1].client = c /\ files[fd + 1].open
<1>1. DOMAIN files = 1..Len(files)
    BY DEF TypeInv, TypeOK
<1> QED
    BY <1>1 DEF Registered

LEMMA RegisterKeeps ==
    ASSUME TypeInv, LiveInv, NEW h \in Handler, Register(h), HasRoom
    PROVE  LiveInv'
<1> DEFINE i   == call[h].id
           n   == Len(files)
           key == <<ClientOf(h), call[h].file>>
           new == [file |-> call[h].file, id |-> i, client |-> ClientOf(h),
                   open |-> TRUE]
           r   == Response("opened", n)
<1>1. /\ pc[h] = "register" /\ Makes(call[h]) /\ call[h] \in Call
      /\ FileOf(h) = call[h].file /\ i \in Id /\ ClientOf(h) \in Client
      /\ call[h].file \in File
    BY FileOfType DEF Register, LiveInv, Located, FileOf, Makes
<1>2. /\ files' = Append(files, new)
      /\ openMap' = [openMap EXCEPT ![key] = n]
      /\ requests' = [requests EXCEPT ![i] = r]
      /\ pc' = [pc EXCEPT ![h] = "answered"]
      /\ reply' = [reply EXCEPT ![h] = r]
      /\ UNCHANGED <<call, entry, clientVars>>
    BY <1>1 DEF Register, NewestKept, Remember, Respond, Goto
<1>3. /\ pc \in [Handler -> Places] /\ reply \in [Handler -> Responses]
      /\ requests \in [Id -> Responses] /\ n \in Nat /\ files \in Seq(Descriptor)
      /\ openMap \in [Client \X File -> -1..(n - 1)]
    BY DEF TypeInv, TypeOK
<1>4. /\ Len(files') = n + 1 /\ files'[n + 1] = new
      /\ DOMAIN files' = 1..(n + 1)
      /\ \A d \in 1..n : files'[d] = files[d]
    BY <1>2, <1>3
<1>5. SameOwners
    BY <1>3, <1>4 DEF SameOwners
<1>6. Owned(files', ClientOf(h), call[h].file, n)
    BY <1>1, <1>2, <1>3, <1>4 DEF Owned, ClientOf
<1>7. /\ r.what = "opened" /\ r.fd = n
      /\ requests'[i] = r /\ reply'[h] = r /\ r # None /\ pc'[h] = "answered"
      /\ \A j \in Id \ {i} : requests'[j] = requests[j]
      /\ openMap'[key] = n
      /\ \A c \in Client, f \in File :
            <<c, f>> # key => openMap'[<<c, f>>] = openMap[<<c, f>>]
  <2>1. r # None
    <3>1. "opened" \in Answers /\ n \in 0..MaxOpenFiles
        BY <1>3, SessionAssumption DEF Answers, TypeInv, TypeOK
    <3> QED
        BY <3>1, ResponseType
  <2> QED
      BY <1>1, <1>2, <1>3, <2>1 DEF Response
<1>8. ByHandler(h)
    BY <1>1, <1>2, <1>3 DEF ByHandler, clientVars, historyVars
<1> HIDE DEF i, n, key, new, r
<1>9. \A g \in Handler : pc[g] # "idle" => call[g].id \in Id
    BY DEF TypeInv, Serving, Call
<1>10. \A c \in Client : want[c] # None => want[c].id \in Id /\ want[c].file \in File
    BY DEF TypeInv, Asking, Call
<1>11. live' = live /\ expired' = expired
    BY <1>2 DEF clientVars, historyVars
<1>12. Located'
  <2> SUFFICES ASSUME NEW g \in Handler
               PROVE  /\ pc'[g] = "register" => Makes(call[g])
                      /\ pc'[g] \in {"on disk", "gone", "deleting", "removed"} =>
                              call[g].op = "delete"
                      /\ pc'[g] = "reading" => /\ call[g].op = "read"
                              /\ Owned(files', ClientOf(g), call[g].file, entry[g])
      BY <1>2 DEF Located, ClientOf, Makes, Owned
  <2>1. CASE g = h
      BY <1>7, <2>1
  <2>2. CASE g # h
      BY <1>5, <1>8, <2>2, OwnedKept DEF ByHandler, LiveInv, Located
  <2> QED
      BY <2>1, <2>2
<1>13. Identified'
    BY <1>7, <1>8, IdentifiedByHandler DEF i
<1>14. ASSUME NEW k, k.client = ClientOf(h), k.file = call[h].file, Makes(k)
       PROVE  Suits(files', r, k)
    BY <1>6, <1>7, <1>14 DEF Suits, Makes, Owned
<1>15. \A s, k : Suits(files, s, k) => Suits(files', s, k)
    BY <1>5, SuitsKept
<1>16. Suits(files', r, call[h])
    BY <1>1, <1>8, <1>14 DEF ClientOf, ByHandler, Makes
<1>17. ASSUME NEW g \in Handler, pc'[g] # "idle", requests'[call[g].id] # None
       PROVE  Suits(files', requests'[call[g].id], call[g])
  <2>1. pc[g] # "idle"
      BY <1>1, <1>8, <1>17 DEF ByHandler
  <2>2. CASE call[g].id = i
      BY <1>1, <1>7, <1>8, <1>16, <2>1, <2>2 DEF LiveInv, Identified, ByHandler, i
  <2>3. CASE call[g].id # i
      BY <1>7, <1>8, <1>9, <1>15, <1>17, <2>1, <2>3 DEF LiveInv, Fitting, ByHandler
  <2> QED
      BY <2>2, <2>3
<1>18. ASSUME NEW c \in Client, want[c] # None, want[c].id = i
       PROVE  want[c] = call[h] /\ c = ClientOf(h)
    BY <1>1, <1>18 DEF LiveInv, Identified, ClientOf, i
<1>19. ASSUME NEW c \in Client, want[c] # None, requests'[want[c].id] # None
       PROVE  Suits(files', requests'[want[c].id], want[c])
  <2>1. CASE want[c].id = i
      BY <1>7, <1>8, <1>16, <1>18, <1>19, <2>1 DEF ByHandler
  <2>2. CASE want[c].id # i
      BY <1>7, <1>8, <1>10, <1>15, <1>19, <2>2 DEF LiveInv, Fitting, ByHandler
  <2> QED
      BY <2>1, <2>2
<1>20. ASSUME NEW g \in Handler, pc'[g] = "answered"
       PROVE  /\ Suits(files', reply'[g], call[g])
              /\ reply'[g].what = "opened" =>
                    /\ requests'[call[g].id] # None
                    /\ requests'[call[g].id].what = "opened"
  <2>1. CASE g = h
      BY <1>7, <1>16, <2>1 DEF i
  <2>2. CASE g # h
    <3>1. pc[g] = "answered" /\ reply'[g] = reply[g] /\ call[g].id \in Id
        BY <1>8, <1>9, <1>20, <2>2 DEF ByHandler
    <3>2. Suits(files', reply[g], call[g])
        BY <1>8, <1>15, <3>1 DEF LiveInv, Fitting, ByHandler
    <3> QED
        BY <1>7, <1>8, <3>1, <3>2 DEF LiveInv, Fitting, ByHandler
  <2> QED
      BY <2>1, <2>2
<1>21. ASSUME NEW c \in Client, NEW f \in File, openMap'[<<c, f>>] # -1
       PROVE  Owned(files', c, f, openMap'[<<c, f>>])
  <2>1. CASE <<c, f>> = key
      BY <1>2, <1>6, <1>7, <2>1 DEF key, Owned, ClientOf
  <2>2. CASE <<c, f>> # key
      BY <1>5, <1>7, <1>21, <2>2, OwnedKept DEF LiveInv, Fitting
  <2> QED
      BY <2>1, <2>2
<1>22. Fitting'
    BY <1>8, <1>17, <1>19, <1>20, <1>21 DEF Fitting, ByHandler
<1>23. Entrusted'
    BY <1>1, <1>5, <1>8, <1>11, OwnedKept DEF LiveInv, Entrusted, ByHandler, ClientOf
<1>24. Undisturbed'
  <2> SUFFICES ASSUME Careful PROVE Undisturbed'
      BY DEF Undisturbed
  <2>1. \A g \in Handler : Closing(g)' => Closing(g) /\ call'[g] = call[g]
      BY <1>1, <1>7, <1>8 DEF Closing, ByHandler
  <2>2. ASSUME NEW g \in Handler, Closing(g) PROVE call[g].fd # n
      BY <2>2, <1>3 DEF LiveInv, Entrusted, Owned, Closing, n
  <2>3. ASSUME NEW c \in Client, NEW f \in File, NEW j, <<c, f>> = key
        PROVE  Standing(c, f, j)'
    <3>1. \E d \in {n + 1} \cap DOMAIN files' :
                files'[d].client = c /\ files'[d].open
        BY <1>3, <1>4, <2>3 DEF key, new, n
    <3>2. openMap'[<<c, f>>] = n
        BY <1>7, <2>3
    <3>3. \A g \in Handler : Closing(g)' => call'[g].fd # n
        BY <2>1, <2>2
    <3> QED
        BY <3>1, <3>2, <3>3 DEF Standing, Attached, Registered
  <2>4. ASSUME NEW c \in Client, NEW f \in File, NEW j, Standing(c, f, j)
        PROVE  Standing(c, f, j)'
    <3>1. CASE <<c, f>> = key
        BY <2>3, <3>1
    <3>2. CASE <<c, f>> # key /\ Lapsed(c, f)
      <4>1. openMap'[<<c, f>>] = -1
          BY <1>7, <3>2 DEF Lapsed
      <4> QED
          BY <1>5, <1>11, <3>2, <4>1, LapsedKept DEF Standing
    <3>3. CASE <<c, f>> # key /\ Attached(c, f, j)
      <4>1. openMap'[<<c, f>>] = openMap[<<c, f>>]
          BY <1>7, <3>3
      <4>2. Registered(openMap[<<c, f>>], c)
          BY <3>3 DEF Attached
      <4>3. /\ openMap[<<c, f>>] + 1 \in 1..n
            /\ files[openMap[<<c, f>>] + 1].client = c
            /\ files[openMap[<<c, f>>] + 1].open
          BY <4>2, RegisteredInRange DEF n
      <4>4. \E d \in {openMap[<<c, f>>] + 1} \cap DOMAIN files' :
                files'[d].client = c /\ files'[d].open
          BY <1>3, <1>4, <4>3 DEF n
      <4> QED
          BY <2>1, <3>3, <4>1, <4>4 DEF Standing, Attached, Registered
    <3> QED
        BY <2>4, <3>1, <3>2, <3>3 DEF Standing
  <2>5. \A c \in Client : \A f \in live'[c] : Standing(c, f, 0)'
      BY <1>11, <2>4 DEF LiveInv, Undisturbed, TypeInv, TypeOK
  <2>6. ASSUME NEW c \in Client, NEW f \in File, want[c] # None, Makes(want[c]),
               f = want[c].file,
               requests'[want[c].id] # None, requests'[want[c].id].what = "opened"
        PROVE  Standing(c, f, 0)'
    <3>1. CASE want[c].id = i
        BY <1>1, <1>18, <2>3, <2>6, <3>1 DEF key
    <3>2. CASE want[c].id # i
        BY <1>7, <1>10, <2>4, <2>6, <3>2 DEF LiveInv, Undisturbed
    <3> QED
        BY <3>1, <3>2
  <2>7. ASSUME NEW c \in Client, NEW f \in File, NEW j, want[c] # None,
               want[c].op = "close", f = want[c].file, j = want[c].id, Undecided(c)'
        PROVE  Standing(c, f, j)'
    <3>1. \A g \in Handler : pc'[g] # "idle" /\ Refusable(g)' =>
                                pc[g] # "idle" /\ Refusable(g)
        BY <1>7, <1>8 DEF Refusable, ByHandler
    <3>2. Undecided(c)
        BY <1>8, <2>7, <3>1 DEF Undecided, ByHandler
    <3> QED
        BY <2>4, <2>7, <3>2 DEF LiveInv, Undisturbed
  <2> QED
      BY <1>8, <1>10, <2>5, <2>6, <2>7
      DEF Undisturbed, ByHandler, Makes, Standing, Lapsed, Attached, Closing
<1> QED
    BY <1>12, <1>13, <1>22, <1>23, <1>24 DEF LiveInv

(* Taking the client out of descriptor d disturbs no other descriptor.     *)
LEMMA FlagKeeps ==
    ASSUME TypeInv, NEW d \in 1..Len(files),
           files' = [files EXCEPT ![d].open = FALSE]
    PROVE  /\ SameOwners /\ Len(files') = Len(files)
           /\ DOMAIN files' = DOMAIN files /\ DOMAIN files = 1..Len(files)
           /\ \A e \in 1..Len(files) \ {d} : files'[e] = files[e]
<1>1. files \in Seq(Descriptor) /\ Len(files) \in Nat
    BY DEF TypeInv, TypeOK
<1>2. files[d] \in Descriptor
    BY <1>1, ElementOfSeq
<1>3. /\ [files[d] EXCEPT !.open = FALSE].client = files[d].client
      /\ [files[d] EXCEPT !.open = FALSE].file = files[d].file
    BY <1>2 DEF Descriptor
<1>4. files' = [files EXCEPT ![d] = [files[d] EXCEPT !.open = FALSE]]
    OBVIOUS
<1>5. Len(files') = Len(files)
    BY <1>1, OpenFlag
<1>6. DOMAIN files = 1..Len(files) /\ DOMAIN files' = DOMAIN files
    BY <1>1, <1>4
<1>7. \A e \in 1..Len(files) :
        files'[e] = IF e = d THEN [files[d] EXCEPT !.open = FALSE] ELSE files[e]
    BY <1>4, <1>6
<1> QED
    BY <1>1, <1>3, <1>5, <1>6, <1>7 DEF SameOwners

LEMMA AttachedKept ==
    ASSUME TypeInv, NEW c, NEW f, NEW i, Attached(c, f, i), NEW d \in 1..Len(files),
           d # openMap[<<c, f>>] + 1, openMap'[<<c, f>>] = openMap[<<c, f>>],
           files' = [files EXCEPT ![d].open = FALSE],
           \A g \in Handler : Closing(g)' => Closing(g) /\ call'[g] = call[g]
    PROVE  Attached(c, f, i)'
<1>1. Registered(openMap[<<c, f>>], c)
    BY DEF Attached
<1>2. /\ openMap[<<c, f>>] + 1 \in 1..Len(files)
      /\ files[openMap[<<c, f>>] + 1].client = c
      /\ files[openMap[<<c, f>>] + 1].open
    BY <1>1, RegisteredInRange
<1>3. files'[openMap[<<c, f>>] + 1] = files[openMap[<<c, f>>] + 1]
      /\ DOMAIN files' = 1..Len(files)
    BY <1>2, FlagKeeps
<1> QED
    BY <1>2, <1>3 DEF Attached, Registered

(* A step of a handler that takes the client out of descriptor d.          *)
LEMMA OutKeeps ==
    ASSUME TypeInv, LiveInv, NEW h \in Handler, ByHandler(h), NEW d \in 1..Len(files),
           files' = [files EXCEPT ![d].open = FALSE], requests' = requests,
           entry' = entry,
           pc'[h] \in {"unregistered", "answered"},
           pc'[h] = "answered" =>
                reply'[h].what \notin {"opened", "closed", "refused"},
           \A c \in Client, f \in File : openMap'[<<c, f>>] \in {openMap[<<c, f>>], -1}
    PROVE  /\ Located' /\ Identified' /\ Fitting'
           /\ \A g \in Handler : Closing(g)' => Closing(g) /\ call'[g] = call[g]
           /\ \A c \in Client : want[c] # None /\ Undecided(c)' => Undecided(c)
<1>1. SameOwners
    BY FlagKeeps
<1>2. \A c, f, fd : Owned(files, c, f, fd) => Owned(files', c, f, fd)
    BY <1>1, OwnedKept
<1>3. \A r, k : Suits(files, r, k) => Suits(files', r, k)
    BY <1>1, SuitsKept
<1>4. Located'
    BY <1>2 DEF LiveInv, Located, ByHandler, ClientOf, Makes
<1>5. Identified'
    BY IdentifiedByHandler
<1>6. Fitting'
  <2>1. Suits(files', reply'[h], call[h]) \/ pc'[h] # "answered"
      BY DEF Suits
  <2>2. ASSUME NEW g \in Handler, pc'[g] = "answered"
        PROVE  /\ Suits(files', reply'[g], call[g])
               /\ reply'[g].what = "opened" =>
                    /\ requests[call[g].id] # None
                    /\ requests[call[g].id].what = "opened"
      BY <1>3, <2>1, <2>2 DEF LiveInv, Fitting, ByHandler
  <2>3. \A c \in Client, f \in File :
            openMap'[<<c, f>>] # -1 => Owned(files', c, f, openMap'[<<c, f>>])
      BY <1>2 DEF LiveInv, Fitting
  <2> QED
      BY <1>3, <2>2, <2>3 DEF LiveInv, Fitting, ByHandler
<1>7. \A g \in Handler : Closing(g)' => Closing(g) /\ call'[g] = call[g]
    BY DEF Closing, ByHandler
<1>8. \A g \in Handler : pc'[g] # "idle" /\ Refusable(g)' =>
                            pc[g] # "idle" /\ Refusable(g)
    BY DEF Refusable, ByHandler
<1>9. \A c \in Client : want[c] # None /\ Undecided(c)' => Undecided(c)
    BY <1>8 DEF Undecided, ByHandler
<1> QED
    BY <1>4, <1>5, <1>6, <1>7, <1>9

LEMMA UnregisterKeeps ==
    ASSUME TypeInv, LiveInv, NEW h \in Handler, Unregister(h)
    PROVE  LiveInv'
<1>1. /\ pc[h] = "writing" /\ call[h].op = "close"
      /\ call[h].fd + 1 \in 1..Len(files) /\ call[h].fd \in Int
    BY FileOfType DEF Unregister, TypeInv, Serving, Call
<1>2. /\ files' = [files EXCEPT ![call[h].fd + 1].open = FALSE]
      /\ pc' = [pc EXCEPT ![h] = "unregistered"]
      /\ UNCHANGED <<openMap, requests, call, entry, reply, clientVars>>
    BY DEF Unregister, Goto
<1>3. pc \in [Handler -> Places] /\ openMap \in [Client \X File -> -1..(Len(files) - 1)]
    BY DEF TypeInv, TypeOK
<1>4. ByHandler(h) /\ live' = live /\ pc'[h] = "unregistered"
    BY <1>1, <1>2, <1>3 DEF ByHandler, clientVars, historyVars
<1>5. /\ Located' /\ Identified' /\ Fitting'
      /\ \A g \in Handler : Closing(g)' => Closing(g) /\ call'[g] = call[g]
      /\ \A c \in Client : want[c] # None /\ Undecided(c)' => Undecided(c)
    BY <1>1, <1>2, <1>4, OutKeeps
<1>6. SameOwners
    BY <1>1, <1>2, FlagKeeps
<1>7. Entrusted'
    BY <1>4, <1>6, OwnedKept DEF LiveInv, Entrusted, ByHandler, ClientOf
<1>8. Undisturbed'
  <2> SUFFICES ASSUME Careful PROVE Undisturbed'
      BY DEF Undisturbed
  <2>1. ASSUME NEW c \in Client, NEW f \in File, NEW i, Standing(c, f, i),
               call[h].id # i
        PROVE  Standing(c, f, i)'
    <3>1. CASE Lapsed(c, f)
      <4>1. openMap'[<<c, f>>] = -1 /\ expired' = expired
          BY <1>2, <3>1 DEF Lapsed, clientVars, historyVars
      <4> QED
          BY <1>6, <3>1, <4>1, LapsedKept DEF Standing
    <3>2. CASE Attached(c, f, i)
      <4>1. openMap[<<c, f>>] \in Int
          BY <1>3
      <4>2. call[h].fd # openMap[<<c, f>>]
          BY <1>1, <2>1, <3>2 DEF Attached, Closing
      <4>3. call[h].fd + 1 # openMap[<<c, f>>] + 1
          BY <1>1, <4>1, <4>2
      <4> QED
          BY <1>1, <1>2, <1>5, <3>2, <4>3, AttachedKept DEF Standing
    <3> QED
        BY <2>1, <3>1, <3>2 DEF Standing
  <2>2. call[h].id # 0
      BY <1>1 DEF TypeInv, Serving, Call, Id
  <2>3. \A c \in Client : \A f \in live[c] : Standing(c, f, 0)'
      BY <2>1, <2>2 DEF LiveInv, Undisturbed, TypeInv, TypeOK
  <2>4. ASSUME NEW c \in Client, NEW f \in File, want[c] # None, Makes(want[c]),
               f = want[c].file, requests[want[c].id] # None,
               requests[want[c].id].what = "opened"
        PROVE  Standing(c, f, 0)'
      BY <2>1, <2>2, <2>4 DEF LiveInv, Undisturbed
  <2>5. ASSUME NEW c \in Client, NEW f \in File, NEW i, want[c] # None,
               want[c].op = "close", f = want[c].file, i = want[c].id, Undecided(c)'
        PROVE  Standing(c, f, i)'
    <3>1. call[h].id # i
      <4> SUFFICES ASSUME call[h].id = i PROVE FALSE
          OBVIOUS
      <4>1. tries[c] # 0
          BY <1>1, <2>5 DEF LiveInv, Identified
      <4>2. PICK g \in Handler : pc'[g] # "idle" /\ call[g].id = i /\ Refusable(g)'
          BY <1>4, <2>5, <4>1 DEF Undecided, ByHandler
      <4>3. g = h
          BY <1>1, <1>4, <4>2 DEF LiveInv, Identified, ByHandler
      <4> QED
          BY <1>4, <4>2, <4>3 DEF Refusable
    <3>2. Standing(c, f, i)
        BY <1>5, <2>5 DEF LiveInv, Undisturbed
    <3> QED
        BY <2>1, <3>1, <3>2
  <2>6. \A c \in Client : want[c] # None => want[c].file \in File
      BY DEF TypeInv, Asking, Call
  <2> QED
      BY <1>2, <1>4, <2>3, <2>4, <2>5, <2>6
      DEF Undisturbed, ByHandler, Makes, Standing, Lapsed, Attached, Closing
<1> QED
    BY <1>5, <1>7, <1>8 DEF LiveInv

LEMMA ExpireKeeps ==
    ASSUME TypeInv, LiveInv, NEW h \in Handler, ExpireLease(h)
    PROVE  LiveInv'
<1> DEFINE key == <<ClientOf(h), call[h].file>>
<1>1. /\ pc[h] = "reading" /\ call[h].op = "read" /\ call[h] \in Call
      /\ ClientOf(h) \in Client /\ call[h].file \in File
      /\ Owned(files, ClientOf(h), call[h].file, entry[h])
      /\ FileOf(h) = call[h].file /\ entry[h] \in Nat
    BY DEF ExpireLease, LiveInv, Located, TypeInv, TypeOK, Serving, Call, ClientOf,
           FileOf
<1>2. /\ files' = [files EXCEPT ![entry[h] + 1].open = FALSE]
      /\ openMap' = [openMap EXCEPT ![key] = -1]
      /\ expired' = expired \cup {entry[h]}
      /\ pc' = [pc EXCEPT ![h] = "answered"]
      /\ reply' = [reply EXCEPT ![h] = Response("denied", 0)]
      /\ UNCHANGED <<requests, call, entry, want, tries, sent, fdOf, live>>
    BY <1>1 DEF ExpireLease, Respond, Goto
<1>3. /\ pc \in [Handler -> Places] /\ reply \in [Handler -> Responses]
      /\ openMap \in [Client \X File -> -1..(Len(files) - 1)]
      /\ live \in [Client -> SUBSET File]
    BY DEF TypeInv, TypeOK
<1>4. entry[h] + 1 \in 1..Len(files)
    BY ExpiredIsDescriptor
<1>5. /\ ByHandler(h) /\ pc'[h] = "answered" /\ reply'[h].what = "denied"
      /\ openMap'[key] = -1
      /\ \A c \in Client, f \in File :
            <<c, f>> # key => openMap'[<<c, f>>] = openMap[<<c, f>>]
    BY <1>1, <1>2, <1>3 DEF ByHandler, Response
<1>6. /\ Located' /\ Identified' /\ Fitting'
      /\ \A g \in Handler : Closing(g)' => Closing(g) /\ call'[g] = call[g]
      /\ \A c \in Client : want[c] # None /\ Undecided(c)' => Undecided(c)
  <2>1. \A c \in Client, f \in File : openMap'[<<c, f>>] \in {openMap[<<c, f>>], -1}
      BY <1>5
  <2> QED
      BY <1>2, <1>4, <1>5, <2>1, OutKeeps
<1>7. SameOwners
    BY <1>2, <1>4, FlagKeeps
<1>8. Entrusted'
    BY <1>2, <1>5, <1>7, OwnedKept DEF LiveInv, Entrusted, ByHandler, ClientOf
<1>9. ASSUME NEW c \in Client, NEW f \in File, NEW i, Standing(c, f, i)
      PROVE  Standing(c, f, i)'
  <2>1. CASE <<c, f>> = key
    <3>1. files'[entry[h] + 1].client = c /\ files'[entry[h] + 1].file = f
        BY <1>1, <1>4, <1>7, <2>1 DEF SameOwners, Owned
    <3> QED
        BY <1>2, <1>5, <2>1, <3>1 DEF Standing, Lapsed
  <2>2. CASE <<c, f>> # key /\ Lapsed(c, f)
    <3>1. openMap'[<<c, f>>] = -1
        BY <1>5, <2>2 DEF Lapsed
    <3> QED
        BY <1>2, <1>7, <2>2, <3>1, LapsedKept DEF Standing
  <2>3. CASE <<c, f>> # key /\ Attached(c, f, i)
    <3>1. Registered(openMap[<<c, f>>], c)
        BY <2>3 DEF Attached
    <3>2. openMap[<<c, f>>] \in Int /\ openMap[<<c, f>>] + 1 \in 1..Len(files)
        BY <1>3, <3>1, RegisteredInRange
    <3>3. openMap[<<c, f>>] # -1
        BY <3>2
    <3>4. Owned(files, c, f, openMap[<<c, f>>])
        BY <3>3 DEF LiveInv, Fitting
    <3>5. entry[h] # openMap[<<c, f>>]
        BY <1>1, <2>3, <3>4 DEF Owned
    <3>6. entry[h] + 1 # openMap[<<c, f>>] + 1
        BY <1>1, <3>2, <3>5
    <3> QED
        BY <1>2, <1>4, <1>5, <1>6, <2>3, <3>6, AttachedKept DEF Standing
  <2> QED
      BY <1>9, <2>1, <2>2, <2>3 DEF Standing
<1>10. Undisturbed'
  <2> SUFFICES ASSUME Careful PROVE Undisturbed'
      BY DEF Undisturbed
  <2>1. ASSUME NEW c \in Client, NEW f \in live[c] PROVE Standing(c, f, 0)'
      BY <1>3, <1>9, <2>1 DEF LiveInv, Undisturbed
  <2>2. \A c \in Client : want[c] # None => want[c].file \in File
      BY DEF TypeInv, Asking, Call
  <2>3. ASSUME NEW c \in Client, NEW f \in File, want[c] # None, Makes(want[c]),
               f = want[c].file, requests[want[c].id] # None,
               requests[want[c].id].what = "opened"
        PROVE  Standing(c, f, 0)'
      BY <1>9, <2>3 DEF LiveInv, Undisturbed
  <2>4. ASSUME NEW c \in Client, NEW f \in File, NEW i, want[c] # None,
               want[c].op = "close", f = want[c].file, i = want[c].id, Undecided(c)'
        PROVE  Standing(c, f, i)'
      BY <1>6, <1>9, <2>4 DEF LiveInv, Undisturbed
  <2> QED
      BY <1>2, <2>1, <2>2, <2>3, <2>4
      DEF Undisturbed, Makes, Standing, Lapsed, Attached, Closing
<1> QED
    BY <1>6, <1>8, <1>10 DEF LiveInv

(* The steps of clients.                                                   *)
LEMMA RequestKeeps ==
    ASSUME TypeInv, LiveInv, NEW c \in Client, Request(c)
    PROVE  LiveInv'
<1>1. PICK op \in Op, f \in File, dirty \in BOOLEAN :
        /\ op \in {"read", "close"} => fdOf[c][f] # -1
        /\ op = "close" /\ Careful => f \in live[c]
        /\ want' = [want EXCEPT ![c] =
                      [id |-> sent + 1, client |-> c, op |-> op, file |-> f,
                       fd |-> fdOf[c][f], dirty |-> dirty]]
        /\ fdOf' = [fdOf EXCEPT ![c][f] = IF op = "delete" THEN -1 ELSE @]
        /\ live' = [live EXCEPT ![c] =
                      IF op \in {"close", "delete"} THEN @ \ {f} ELSE @]
    BY DEF Request
<1>2. /\ sent' = sent + 1 /\ sent < MaxCalls /\ want[c] = None
      /\ tries' = [tries EXCEPT ![c] = 0]
      /\ UNCHANGED <<files, openMap, requests, pc, call, entry, reply, expired>>
    BY DEF Request, serverVars, memVars, handlerVars, historyVars
<1>3. /\ want \in [Client -> Call \cup {None}] /\ sent \in Nat
      /\ fdOf \in [Client -> [File -> -1..MaxOpenFiles]]
      /\ live \in [Client -> SUBSET File] /\ tries \in [Client -> 0..maxTries]
    BY SessionAssumption DEF TypeInv, TypeOK
<1> DEFINE k == [id |-> sent + 1, client |-> c, op |-> op, file |-> f,
                 fd |-> fdOf[c][f], dirty |-> dirty]
<1>4. /\ want'[c] = k /\ tries'[c] = 0
      /\ \A e \in Client \ {c} : want'[e] = want[e] /\ tries'[e] = tries[e]
                                 /\ live'[e] = live[e] /\ fdOf'[e] = fdOf[e]
      /\ live'[c] \subseteq live[c]
      /\ op \in {"close", "delete"} => f \notin live'[c]
      /\ \A g \in File : g # f \/ op # "delete" => fdOf'[c][g] = fdOf[c][g]
    BY <1>1, <1>2, <1>3
<1>5. /\ k.id = sent + 1 /\ k.client = c /\ k.op = op /\ k.file = f
      /\ k.fd = fdOf[c][f] /\ k.id \in Id
    BY <1>2, <1>3, SessionAssumption DEF Id
<1> HIDE DEF k
<1>6. requests[k.id] = None
    BY <1>3, <1>5 DEF LiveInv, Identified
<1>7. /\ \A h \in Handler : pc[h] # "idle" => call[h].id # k.id
      /\ \A e \in Client : want[e] # None => want[e].id # k.id
  <2>1. \A h \in Handler : pc[h] # "idle" => call[h].id \in Nat
      BY DEF TypeInv, Serving, Call, Id
  <2>2. \A e \in Client : want[e] # None => want[e].id \in Nat
      BY DEF TypeInv, Asking, Call, Id
  <2> QED
      BY <1>3, <1>5, <2>1, <2>2 DEF LiveInv, Identified
<1>8. Located'
    BY <1>2 DEF LiveInv, Located, Owned, ClientOf, Makes
<1>9. Identified'
  <2>1. \A n \in Id : n <= sent => n <= sent + 1
      BY <1>3 DEF Id
  <2>2. \A h \in Handler : pc'[h] # "idle" =>
                call'[h] # None /\ call'[h].id <= sent'
      BY <1>2, <2>1 DEF LiveInv, Identified, TypeInv, Serving, Call
  <2>3. \A e \in Client : want'[e] # None => want'[e].id <= sent' /\ want'[e].client = e
      BY <1>2, <1>3, <1>4, <1>5, <2>1 DEF LiveInv, Identified, TypeInv, Asking, Call
  <2>4. \A h \in Handler, e \in Client :
            pc'[h] # "idle" /\ want'[e] # None /\ call'[h].id = want'[e].id =>
                call'[h] = want'[e] /\ tries'[e] # 0
      BY <1>2, <1>4, <1>7 DEF LiveInv, Identified
  <2>5. \A d, e \in Client :
            want'[d] # None /\ want'[e] # None /\ want'[d].id = want'[e].id => d = e
      BY <1>4, <1>7 DEF LiveInv, Identified
  <2>6. \A i \in Id : requests'[i] # None => i <= sent' /\ requests'[i].what # "refused"
      BY <1>2, <2>1 DEF LiveInv, Identified
  <2> QED
      BY <1>2, <2>2, <2>3, <2>4, <2>5, <2>6 DEF LiveInv, Identified
<1>10. Fitting'
  <2>1. \A e \in Client : want'[e] # None /\ requests[want'[e].id] # None =>
            Suits(files, requests[want'[e].id], want'[e])
      BY <1>4, <1>6 DEF LiveInv, Fitting
  <2> QED
      BY <1>2, <2>1 DEF LiveInv, Fitting
<1>11. Entrusted'
  <2> SUFFICES ASSUME Careful PROVE Entrusted'
      BY DEF Entrusted
  <2>1. ASSUME NEW e \in Client, NEW g \in live'[e]
        PROVE  Owned(files, e, g, fdOf'[e][g])
    <3>1. g \in live[e] /\ g \in File
        BY <1>3, <1>4, <2>1
    <3>2. fdOf'[e][g] = fdOf[e][g]
        BY <1>4, <2>1, <3>1
    <3> QED
        BY <3>1, <3>2 DEF LiveInv, Entrusted
  <2>2. ASSUME NEW e \in Client, want'[e] # None, want'[e].op = "close"
        PROVE  /\ Owned(files, e, want'[e].file, want'[e].fd)
               /\ want'[e].file \notin live'[e]
               /\ fdOf'[e][want'[e].file] = want'[e].fd
    <3>1. CASE e = c
        BY <1>1, <1>4, <1>5, <2>2, <3>1 DEF LiveInv, Entrusted
    <3>2. CASE e # c
        BY <1>4, <2>2, <3>2 DEF LiveInv, Entrusted
    <3> QED
        BY <3>1, <3>2
  <2> QED
      BY <1>2, <2>1, <2>2 DEF LiveInv, Entrusted, ClientOf
<1>12. Undisturbed'
  <2> SUFFICES ASSUME Careful PROVE Undisturbed'
      BY DEF Undisturbed
  <2>1. \A e, g, i : Standing(e, g, i) => Standing(e, g, i)'
      BY <1>2 DEF Standing, Lapsed, Attached, Registered, Closing
  <2>2. \A e \in Client : \A g \in live'[e] : Standing(e, g, 0)'
      BY <1>4, <2>1 DEF LiveInv, Undisturbed
  <2>3. ASSUME NEW e \in Client, NEW g, want'[e] # None, Makes(want'[e]),
               g = want'[e].file, requests[want'[e].id] # None,
               requests[want'[e].id].what = "opened"
        PROVE  Standing(e, g, 0)'
      BY <1>4, <1>6, <2>1, <2>3 DEF LiveInv, Undisturbed
  <2>4. ASSUME NEW e \in Client, NEW g, NEW i, want'[e] # None,
               want'[e].op = "close", g = want'[e].file, i = want'[e].id, Undecided(e)'
        PROVE  Standing(e, g, i)'
    <3>1. CASE e = c
      <4>1. Standing(c, f, 0)
          BY <1>1, <1>4, <1>5, <2>4, <3>1 DEF LiveInv, Undisturbed
      <4>2. \A h \in Handler : Closing(h) => call[h].id # 0
          BY DEF Closing, TypeInv, Serving, Call, Id
      <4>3. Standing(c, f, i)
          BY <4>1, <4>2 DEF Standing, Lapsed, Attached
      <4> QED
          BY <1>4, <1>5, <2>1, <2>4, <3>1, <4>3
    <3>2. CASE e # c
      <4>1. Undecided(e)
          BY <1>2, <1>4, <2>4, <3>2 DEF Undecided, Refusable
      <4> QED
          BY <1>4, <2>1, <2>4, <3>2, <4>1 DEF LiveInv, Undisturbed
    <3> QED
        BY <3>1, <3>2
  <2> QED
      BY <1>2, <2>2, <2>3, <2>4
      DEF Undisturbed, Makes, Standing, Lapsed, Attached, Closing
<1> QED
    BY <1>8, <1>9, <1>10, <1>11, <1>12 DEF LiveInv

LEMMA DeliverKeeps ==
    ASSUME TypeInv, LiveInv, NEW c \in Client, NEW h \in Handler, Deliver(c, h)
    PROVE  LiveInv'
<1>1. /\ pc' = [pc EXCEPT ![h] = "arrived"] /\ call' = [call EXCEPT ![h] = want[c]]
      /\ tries' = [tries EXCEPT ![c] = @ + 1]
      /\ want[c] # None /\ pc[h] = "idle" /\ tries[c] < MaxTries(want[c])
      /\ UNCHANGED <<files, openMap, requests, entry, reply, want, sent, fdOf, live,
                     expired>>
    BY DEF Deliver, serverVars, memVars
<1>2. /\ pc \in [Handler -> Places] /\ call \in [Handler -> Call \cup {None}]
      /\ tries \in [Client -> 0..maxTries] /\ want[c] \in Call
    BY <1>1 DEF TypeInv, TypeOK, Asking
<1>3. /\ pc'[h] = "arrived" /\ call'[h] = want[c] /\ tries'[c] # 0
      /\ \A g \in Handler \ {h} : pc'[g] = pc[g] /\ call'[g] = call[g]
      /\ \A e \in Client \ {c} : tries'[e] = tries[e]
    BY <1>1, <1>2, SessionAssumption
<1>4. want[c].op = "close" => tries[c] = 0
    BY <1>1, <1>2, SessionAssumption DEF MaxTries
<1>5. Located'
    BY <1>1, <1>3 DEF LiveInv, Located, Owned, ClientOf, Makes
<1>6. Identified'
  <2>1. \A g \in Handler, e \in Client :
            pc'[g] # "idle" /\ want[e] # None /\ call'[g].id = want[e].id =>
                call'[g] = want[e] /\ tries'[e] # 0
      BY <1>1, <1>3 DEF LiveInv, Identified
  <2>2. ASSUME NEW g \in Handler, g # h, pc[g] # "idle", call[g].id = want[c].id
        PROVE  call[g] = want[c] /\ want[c].op # "close"
      BY <1>1, <1>4, <2>2 DEF LiveInv, Identified
  <2>3. \A g, d \in Handler :
            pc'[g] # "idle" /\ pc'[d] # "idle" /\ call'[g].id = call'[d].id =>
                call'[g] = call'[d] /\ (call'[d].op = "close" => g = d)
      BY <1>3, <2>2 DEF LiveInv, Identified
  <2>4. \A g \in Handler : pc'[g] # "idle" =>
                call'[g] # None /\ call'[g].id <= sent
      BY <1>1, <1>3 DEF LiveInv, Identified
  <2> QED
      BY <1>1, <2>1, <2>3, <2>4 DEF LiveInv, Identified
<1>7. Fitting'
  <2>1. \A g \in Handler : pc'[g] # "idle" /\ requests[call'[g].id] # None =>
            Suits(files, requests[call'[g].id], call'[g])
      BY <1>1, <1>3 DEF LiveInv, Fitting
  <2>2. \A g \in Handler : pc'[g] = "answered" =>
            pc[g] = "answered" /\ call'[g] = call[g]
      BY <1>3
  <2> QED
      BY <1>1, <2>1, <2>2 DEF LiveInv, Fitting
<1>8. Entrusted'
  <2>1. want[c].client = c
      BY <1>1 DEF LiveInv, Identified
  <2>2. Careful => \A g \in Handler : pc'[g] # "idle" /\ call'[g].op = "close" =>
                      Owned(files, call'[g].client, call'[g].file, call'[g].fd)
      BY <1>1, <1>3, <2>1 DEF LiveInv, Entrusted, ClientOf
  <2> QED
      BY <1>1, <2>2 DEF LiveInv, Entrusted, ClientOf
<1>9. Undisturbed'
  <2> SUFFICES ASSUME Careful PROVE Undisturbed'
      BY DEF Undisturbed
  <2>1. ASSUME NEW e \in Client, NEW f \in File, NEW i, Standing(e, f, i),
               want[c].op = "close" /\ i # want[c].id => e # c \/ f # want[c].file
        PROVE  Standing(e, f, i)'
    <3>1. ASSUME Attached(e, f, i), NEW g \in Handler, Closing(g)', call'[g].id # i
          PROVE  call'[g].fd # openMap[<<e, f>>]
      <4>1. CASE g # h
          BY <1>3, <3>1, <4>1 DEF Attached, Closing
      <4>2. CASE g = h
        <5>1. /\ want[c].op = "close" /\ (e # c \/ f # want[c].file)
              /\ call'[h].fd = want[c].fd
            BY <1>3, <2>1, <3>1, <4>2 DEF Closing
        <5>2. Owned(files, c, want[c].file, want[c].fd)
            BY <1>1, <5>1 DEF LiveInv, Entrusted
        <5>3. openMap[<<e, f>>] # -1 => Owned(files, e, f, openMap[<<e, f>>])
            BY DEF LiveInv, Fitting
        <5> QED
            BY <4>2, <5>1, <5>2, <5>3 DEF Owned
      <4> QED
          BY <4>1, <4>2
    <3> QED
        BY <1>1, <2>1, <3>1 DEF Standing, Lapsed, Attached, Registered
  <2>2. ASSUME NEW e \in Client, NEW f \in live[e] PROVE Standing(e, f, 0)'
    <3>1. f \in File
        BY DEF TypeInv, TypeOK
    <3>2. want[c].op = "close" => e # c \/ f # want[c].file
        BY <1>1 DEF LiveInv, Entrusted
    <3> QED
        BY <2>1, <3>1, <3>2 DEF LiveInv, Undisturbed
  <2>3. \A e \in Client : want[e] # None => want[e].file \in File
      BY DEF TypeInv, Asking, Call
  <2>4. ASSUME NEW e \in Client, NEW f \in File, want[e] # None, Makes(want[e]),
               f = want[e].file, requests[want[e].id] # None,
               requests[want[e].id].what = "opened"
        PROVE  Standing(e, f, 0)'
    <3>1. want[e].op # "close"
        BY <2>4 DEF Makes
    <3> QED
        BY <2>1, <2>4, <3>1 DEF LiveInv, Undisturbed
  <2>5. ASSUME NEW e \in Client, NEW f \in File, NEW i, want[e] # None,
               want[e].op = "close", f = want[e].file, i = want[e].id, Undecided(e)'
        PROVE  Standing(e, f, i)'
    <3>1. Undecided(e)
      <4>1. CASE e = c
          BY <1>4, <2>5, <4>1 DEF Undecided
      <4>2. CASE e # c
        <5>1. call'[h].id # want[e].id
            BY <1>1, <1>3, <2>5, <4>2 DEF LiveInv, Identified
        <5>2. tries'[e] = tries[e] /\ want' = want /\ reply' = reply
            BY <1>1, <1>3, <4>2
        <5>3. \A g \in Handler \ {h} : Refusable(g)' => Refusable(g)
            BY <1>3, <5>2 DEF Refusable
        <5> QED
            BY <1>3, <2>5, <5>1, <5>2, <5>3 DEF Undecided
      <4> QED
          BY <4>1, <4>2
    <3>2. Standing(e, f, i)
        BY <2>5, <3>1 DEF LiveInv, Undisturbed
    <3> QED
        BY <2>1, <2>5, <3>2
  <2> QED
      BY <1>1, <2>2, <2>3, <2>4, <2>5
      DEF Undisturbed, Makes, Standing, Lapsed, Attached, Closing
<1> QED
    BY <1>5, <1>6, <1>7, <1>8, <1>9 DEF LiveInv

(* A client that stops waiting, and a step that changes nothing of this.   *)
LEMMA ForgettingKeeps ==
    ASSUME TypeInv, LiveInv,
           UNCHANGED <<files, openMap, requests, pc, call, entry, reply, tries, sent,
                       fdOf, live, expired>>,
           \A e \in Client : want'[e] # None => want'[e] = want[e]
    PROVE  LiveInv'
<1>1. Located'
    BY DEF LiveInv, Located, Owned, ClientOf, Makes
<1>2. Identified'
    BY DEF LiveInv, Identified
<1>3. Fitting'
  <2>1. \A r, k : Suits(files, r, k) => Suits(files', r, k)
      OBVIOUS
  <2>2. \A e, f, fd : Owned(files, e, f, fd) => Owned(files', e, f, fd)
      OBVIOUS
  <2> QED
      BY <2>1, <2>2 DEF LiveInv, Fitting
<1>4. Entrusted'
  <2>1. \A e, f, fd : Owned(files, e, f, fd) => Owned(files', e, f, fd)
      OBVIOUS
  <2> QED
      BY <2>1 DEF LiveInv, Entrusted, ClientOf
<1>5. Undisturbed'
  <2>1. \A e, f, i : Standing(e, f, i) => Standing(e, f, i)'
      BY DEF Standing, Lapsed, Attached, Closing, Registered
  <2>2. \A e \in Client : want'[e] # None /\ Undecided(e)' => Undecided(e)
      BY DEF Undecided, Refusable
  <2>3. ASSUME Careful, NEW e \in Client, NEW f \in live[e]
        PROVE  Standing(e, f, 0)'
      BY <2>1, <2>3 DEF LiveInv, Undisturbed
  <2>4. ASSUME Careful, NEW e \in Client, NEW f, want'[e] # None, Makes(want'[e]),
               f = want'[e].file, requests[want'[e].id] # None,
               requests[want'[e].id].what = "opened"
        PROVE  Standing(e, f, 0)'
      BY <2>1, <2>4 DEF LiveInv, Undisturbed
  <2>5. ASSUME Careful, NEW e \in Client, NEW f, NEW i, want'[e] # None,
               want'[e].op = "close", f = want'[e].file, i = want'[e].id,
               Undecided(e)'
        PROVE  Standing(e, f, i)'
      BY <2>1, <2>2, <2>5 DEF LiveInv, Undisturbed
  <2> QED
      BY <2>3, <2>4, <2>5
      DEF Undisturbed, Makes, Standing, Lapsed, Attached, Closing
<1> QED
    BY <1>1, <1>2, <1>3, <1>4, <1>5 DEF LiveInv

LEMMA GiveUpKeeps ==
    ASSUME TypeInv, LiveInv, NEW c \in Client, GiveUp(c)
    PROVE  LiveInv'
<1>1. /\ want' = [want EXCEPT ![c] = None]
      /\ UNCHANGED <<files, openMap, requests, pc, call, entry, reply, tries, sent,
                     fdOf, live, expired>>
    BY DEF GiveUp, serverVars, memVars, handlerVars, historyVars
<1>2. \A e \in Client : want'[e] # None => want'[e] = want[e]
    BY <1>1 DEF TypeInv, TypeOK
<1> QED
    BY <1>1, <1>2, ForgettingKeeps

LEMMA ReturnKeeps ==
    ASSUME TypeInv, LiveInv, NEW h \in Handler, NEW heard \in BOOLEAN,
           Return(h, heard)
    PROVE  LiveInv'
<1> DEFINE c == ClientOf(h)
           k == call[h]
           r == reply[h]
<1>1. /\ pc[h] = "answered" /\ k \in Call /\ c \in Client /\ k.file \in File
      /\ k # None
      /\ pc' = [pc EXCEPT ![h] = "idle"] /\ call' = [call EXCEPT ![h] = None]
      /\ reply' = [reply EXCEPT ![h] = None] /\ entry' = [entry EXCEPT ![h] = 0]
      /\ UNCHANGED <<files, openMap, requests, tries, sent, expired>>
    BY DEF Return, TypeInv, Serving, Call, ClientOf, serverVars, memVars, historyVars,
           LiveInv, Identified
<1>2. /\ pc \in [Handler -> Places] /\ want \in [Client -> Call \cup {None}]
      /\ fdOf \in [Client -> [File -> -1..MaxOpenFiles]]
      /\ live \in [Client -> SUBSET File]
      /\ call \in [Handler -> Call \cup {None}] /\ entry \in [Handler -> Nat]
      /\ reply \in [Handler -> Responses]
    BY DEF TypeInv, TypeOK
<1>3. /\ pc'[h] = "idle"
      /\ \A g \in Handler : pc'[g] # "idle" =>
            /\ g # h /\ pc'[g] = pc[g] /\ call'[g] = call[g]
            /\ entry'[g] = entry[g] /\ reply'[g] = reply[g]
    BY <1>1, <1>2
<1>4. \/ UNCHANGED <<want, fdOf, live>>
      \/ want[c] = k /\ Hear(c, k, r)
    BY DEF Return
<1>5. /\ \A e \in Client : want'[e] # None => want'[e] = want[e]
      /\ \A e \in Client \ {c} : live'[e] = live[e] /\ fdOf'[e] = fdOf[e]
    BY <1>2, <1>4 DEF Hear
<1> HIDE DEF c, k, r
<1>6. Located' /\ Identified' /\ Fitting'
  <2>1. \A q, m : Suits(files, q, m) => Suits(files', q, m)
      BY <1>1
  <2>2. \A e, f, fd : Owned(files, e, f, fd) => Owned(files', e, f, fd)
      BY <1>1
  <2>3. Located'
      BY <1>3, <2>2 DEF LiveInv, Located, ClientOf, Makes
  <2>4. Identified'
      BY <1>1, <1>3, <1>5 DEF LiveInv, Identified
  <2>5. Fitting'
      BY <1>1, <1>3, <1>5, <2>1, <2>2 DEF LiveInv, Fitting
  <2> QED
      BY <2>3, <2>4, <2>5
<1>7. \A e, f, i : Standing(e, f, i) => Standing(e, f, i)'
    BY <1>1, <1>3 DEF Standing, Lapsed, Attached, Closing, Registered
<1>8. \A e \in Client : want'[e] # None /\ Undecided(e)' => Undecided(e)
    BY <1>1, <1>3, <1>5 DEF Undecided, Refusable
<1>9. ASSUME Careful
      PROVE  /\ \A e \in Client : \A f \in live'[e] : Owned(files, e, f, fdOf'[e][f])
             /\ \A e \in Client, f \in File : f \in live'[e] => Standing(e, f, 0)'
             /\ \A e \in Client : want'[e] # None /\ want'[e].op = "close" =>
                    /\ want'[e].file \notin live'[e]
                    /\ fdOf'[e][want'[e].file] = want'[e].fd
  <2>1. CASE UNCHANGED <<want, fdOf, live>>
      BY <1>7, <1>9, <2>1 DEF LiveInv, Entrusted, Undisturbed
  <2>2. CASE want[c] = k /\ Hear(c, k, r)
    <3>1. /\ want'[c] = None
          /\ fdOf'[c] = [fdOf[c] EXCEPT ![k.file] = CASE r.what = "opened" -> r.fd
                                                      [] r.what = "closed" -> 0
                                                      [] OTHER -> @]
          /\ live'[c] = CASE r.what \in {"opened", "refused"} ->
                                live[c] \cup {k.file}
                          [] r.what = "denied" -> live[c] \ {k.file}
                          [] OTHER -> live[c]
        BY <1>1, <1>2, <2>2 DEF Hear
    <3>2. /\ Suits(files, r, k) /\ k.client = c
          /\ r.what = "opened" => /\ requests[k.id] # None
                                  /\ requests[k.id].what = "opened"
        BY <1>1 DEF LiveInv, Fitting, ClientOf, c, k, r
    <3>3. \A f \in File : f # k.file => fdOf'[c][f] = fdOf[c][f]
        BY <1>1, <1>2, <3>1
    <3>4. CASE r.what = "opened"
      <4>1. fdOf'[c][k.file] = r.fd /\ Owned(files, c, k.file, r.fd) /\ Makes(k)
          BY <1>1, <1>2, <3>1, <3>2, <3>4 DEF Suits
      <4>2. Standing(c, k.file, 0)
          BY <1>1, <1>9, <2>2, <3>2, <3>4, <4>1 DEF LiveInv, Undisturbed, TypeInv
      <4>3. \A f \in live'[c] : f \in File /\ (f = k.file \/ f \in live[c])
          BY <1>1, <1>2, <3>1
      <4>4. \A f \in live'[c] : Owned(files, c, f, fdOf'[c][f]) /\ Standing(c, f, 0)
          BY <1>1, <1>9, <3>3, <4>1, <4>2, <4>3 DEF LiveInv, Entrusted, Undisturbed
      <4> QED
          BY <1>1, <1>5, <1>7, <1>9, <3>1, <4>4 DEF LiveInv, Entrusted, Undisturbed
    <3>5. CASE r.what = "refused"
      <4>1. k.op = "close" /\ fdOf'[c] = fdOf[c]
          BY <1>1, <1>2, <3>1, <3>2, <3>5 DEF Suits
      <4>2. Owned(files, c, k.file, fdOf[c][k.file])
          BY <1>1, <1>9, <2>2, <4>1 DEF LiveInv, Entrusted, TypeInv
      <4>3. Undecided(c)
          BY <1>1, <2>2, <3>5 DEF Undecided, Refusable, k, r
      <4>4. Standing(c, k.file, k.id)
          BY <1>1, <1>9, <2>2, <4>1, <4>3 DEF LiveInv, Undisturbed, TypeInv
      <4>5. \A g \in Handler : pc[g] # "idle" /\ call[g].id = k.id => g = h
          BY <1>1, <4>1 DEF LiveInv, Identified, k
      <4>6. \A g \in Handler : Closing(g) => call[g].id # k.id
          BY <1>1, <4>5 DEF Closing
      <4>7. Standing(c, k.file, 0)
          BY <4>4, <4>6 DEF Standing, Lapsed, Attached
      <4>8. \A f \in live'[c] : f \in File /\ (f = k.file \/ f \in live[c])
          BY <1>1, <1>2, <3>1
      <4>9. \A f \in live'[c] : Owned(files, c, f, fdOf'[c][f]) /\ Standing(c, f, 0)
          BY <1>1, <1>9, <4>1, <4>2, <4>7, <4>8 DEF LiveInv, Entrusted, Undisturbed
      <4> QED
          BY <1>1, <1>5, <1>7, <1>9, <3>1, <4>9 DEF LiveInv, Entrusted, Undisturbed
    <3>6. CASE r.what \notin {"opened", "refused"}
      <4>1. live'[c] \subseteq live[c]
          BY <3>1, <3>6
      <4>2. \A f \in live[c] : f \in File /\ fdOf'[c][f] = fdOf[c][f]
        <5>1. CASE r.what = "closed"
          <6>1. k.op = "close"
              BY <3>2, <5>1 DEF Suits
          <6>2. k.file \notin live[c]
              BY <1>1, <1>9, <2>2, <6>1 DEF LiveInv, Entrusted, TypeInv
          <6> QED
              BY <1>1, <1>2, <3>3, <6>2
        <5>2. CASE r.what # "closed"
            BY <1>1, <1>2, <3>1, <3>6, <5>2
        <5> QED
            BY <5>1, <5>2
      <4> QED
          BY <1>1, <1>5, <1>7, <1>9, <3>1, <4>1, <4>2
          DEF LiveInv, Entrusted, Undisturbed
    <3> QED
        BY <3>4, <3>5, <3>6
  <2> QED
      BY <1>4, <2>1, <2>2
<1>10. Entrusted'
    BY <1>1, <1>3, <1>5, <1>9 DEF LiveInv, Entrusted, ClientOf
<1>11. Undisturbed'
  <2> SUFFICES ASSUME Careful PROVE Undisturbed'
      BY DEF Undisturbed
  <2>1. \A e \in Client : \A f \in live'[e] : Standing(e, f, 0)'
    <3>1. \A e \in Client : live'[e] \subseteq File
        BY <1>1, <1>2, <1>4 DEF Hear
    <3> QED
        BY <1>9, <3>1
  <2>2. ASSUME NEW e \in Client, NEW f, want'[e] # None, Makes(want'[e]),
               f = want'[e].file, requests[want'[e].id] # None,
               requests[want'[e].id].what = "opened"
        PROVE  Standing(e, f, 0)'
      BY <1>5, <1>7, <2>2 DEF LiveInv, Undisturbed
  <2>3. ASSUME NEW e \in Client, NEW f, NEW i, want'[e] # None,
               want'[e].op = "close", f = want'[e].file, i = want'[e].id, Undecided(e)'
        PROVE  Standing(e, f, i)'
      BY <1>5, <1>7, <1>8, <2>3 DEF LiveInv, Undisturbed
  <2> QED
      BY <1>1, <2>1, <2>2, <2>3
      DEF Undisturbed, Makes, Standing, Lapsed, Attached, Closing
<1> QED
    BY <1>6, <1>10, <1>11 DEF LiveInv

LEMMA LiveInit == Init => LiveInv
BY DEF Init, LiveInv, Located, Identified, Fitting, Entrusted, Undisturbed, Id

LEMMA LiveNext == TypeInv /\ LiveInv /\ [Next]_vars => LiveInv'
<1> SUFFICES ASSUME TypeInv, LiveInv, [Next]_vars PROVE LiveInv'
    OBVIOUS
<1>1. CASE UNCHANGED vars
  <2>1. UNCHANGED <<files, openMap, requests, pc, call, entry, reply, want, tries,
                    sent, fdOf, live, expired>>
      BY <1>1 DEF vars, serverVars, memVars, handlerVars, clientVars, historyVars
  <2> QED
      BY <2>1, ForgettingKeeps
<1>2. CASE \E h \in Handler : Step(h)
    BY <1>2, LookingKeeps, RegisterKeeps, NoRoomKeeps, UnregisterKeeps, ReportKeeps,
       ExpireKeeps
    DEF Step, LookingAround
<1> QED
    BY <1>1, <1>2, RequestKeeps, GiveUpKeeps, DeliverKeeps, ReturnKeeps DEF Next

(* A careful client can read what it has open until its lease expires,     *)
(* whatever its late attempts and the late Closes of its earlier calls do. *)
THEOREM OpenFilesStayReadable == Spec => []LiveCanRead
<1>1. TypeInv /\ LiveInv => LiveCanRead
    BY DEF LiveInv, Undisturbed, Standing, Lapsed, Attached, LiveCanRead
<1> QED
    BY <1>1, TypeInit, TypeNext, LiveInit, LiveNext, PTL DEF Spec
=============================================================================
