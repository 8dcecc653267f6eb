------------------------------ MODULE Workers -------------------------------
(***************************************************************************)
(* The programs of the repository: each dials the cluster, reads an input  *)
(* file, keeps its primes, and adds them to one output file.               *)
(*   test_client_1/simple_client.go   test_client_2/client_2.go            *)
(*   test_client_3/client_3.go        test_throughput/client/worker.go     *)
(* A program is a script of library calls, one after the other; a call     *)
(* that fails ends it (log.Fatalf) or is only logged.  The calls are those *)
(* of ClientCache, with every failure it has.                              *)
(***************************************************************************)
EXTENDS ClientCache, Primes

CONSTANTS
    ProgramOf,      \* which of the programs each client runs
    InputOf,        \* the input file it reads
    Output          \* outputName, the same in all of them

ASSUME WorkerAssumption ==
    /\ Number \subseteq Int
    /\ ProgramOf \in [Client -> {"client_1", "client_2", "worker"}]
    /\ InputOf \in [Client -> Input]
    /\ Output \in File \ Input /\ \A n \in Number : HomeOf[n] = Output

VARIABLES
    step,       \* the call each program is at
    found       \* its primes: primeResult

workerVars == <<step, found>>

Appends == <<"dial", "openInput", "read", "create", "open", "append", "close">>

Script(c) ==
    CASE ProgramOf[c] = "client_1" ->
           <<"dial", "createInput", "openToWrite", "openInput", "read",
             "create", "open", "write", "close", "reopen", "check">>
      [] ProgramOf[c] = "client_2" -> Appends \o <<"reopen", "check">>
      [] ProgramOf[c] = "worker"   -> Appends

Tolerated == {"createInput", "openToWrite", "openInput", "create"}

Failed == 0
At(c, call)  == step[c] \in DOMAIN Script(c) /\ Script(c)[step[c]] = call
Done(c)      == step[c] > Len(Script(c))
Closed(c)    == Done(c) \/ At(c, "reopen") \/ At(c, "check")

Proceed(c) == step' = [step EXCEPT ![c] = @ + 1]
Stop(c)    == step' = [step EXCEPT ![c] = Failed]
Fail(c)    == IF Script(c)[step[c]] \in Tolerated THEN Proceed(c) ELSE Stop(c)

WorkersInit ==
    /\ Init
    /\ step  = [c \in Client |-> 1]
    /\ found = [c \in Client |-> {}]

-----------------------------------------------------------------------------
(* DialClient asks the servers in turn who leads (GetLeader), and connects *)
(* to the one the first to answer names: the primary, or one that was.     *)
Leaders == 1 .. primary

Dial(c) ==
    /\ At(c, "dial")
    /\ \/ /\ \E s \in Leaders : conn' = [conn EXCEPT ![c] = s]
          /\ Proceed(c)
       \/ UNCHANGED conn /\ Stop(c)
    /\ UNCHANGED <<serverVars, cache, lru, opening, historyVars, boundVars,
                   found>>

CreateStep(c) ==
    /\ \/ /\ At(c, "create")
          /\ \/ Create(c, Output, TRUE) /\ Proceed(c)
             \/ (Create(c, Output, FALSE) \/ CreateFails(c, Output)) /\ Fail(c)
       \/ At(c, "createInput") /\ CreateFails(c, InputOf[c]) /\ Fail(c)
    /\ UNCHANGED found

OpenArgs(c) ==
    CASE At(c, "openInput")   -> <<InputOf[c], READ>>
      [] At(c, "openToWrite") -> <<InputOf[c], WRITE>>
      [] At(c, "open")        -> <<Output, WRITE>>
      [] At(c, "reopen")      -> <<Output, READ>>

OpenStep(c) ==
    /\ \E call \in {"openInput", "openToWrite", "open", "reopen"} : At(c, call)
    /\ LET f == OpenArgs(c)[1]  mode == OpenArgs(c)[2]
       IN  \/ TestAuth(c, f, mode) /\ UNCHANGED step
           \/ (Open(c, f, mode, TRUE) \/ OpenValid(c, f, TRUE)) /\ Proceed(c)
           \/ /\ \/ Open(c, f, mode, FALSE) \/ OpenValid(c, f, FALSE)
                 \/ OpenFails(c, f, mode) \/ OpenValidFails(c, f)
                 \/ AuthFails(c, f)
              /\ Fail(c)
    /\ UNCHANGED found

(* Read refuses a file that is not in the cache; else the call can be      *)
(* lost, or not be answered in time.                                       *)
ReadFails(c, f) == ~(f \in InCache(c) /\ cache[c][f].valid) /\ UNCHANGED vars

Unfiltered(numbers) == {n \in numbers : Parses(n)}     \* mutant: no IsPrime
PrimesIn(numbers)   == {n \in numbers : Parses(n) /\ IsPrime(n)}

ReadStep(c) ==
    \/ /\ At(c, "read")
       /\ LET f == InputOf[c]
          IN  \/ /\ Read(c, f) \/ ReadFile(c, f)
                 /\ found' = [found EXCEPT ![c] = PrimesIn(cache'[c][f].data)]
                 /\ Proceed(c)
              \/ /\ LeaseExpires(c, f) \/ ReadFails(c, f)
                 /\ Fail(c) /\ UNCHANGED found
    \/ /\ At(c, "check") /\ UNCHANGED found
       /\ \/ (Read(c, Output) \/ ReadFile(c, Output)) /\ Proceed(c)
          \/ (LeaseExpires(c, Output) \/ ReadFails(c, Output)) /\ Fail(c)

WriteStep(c) ==
    /\ \/ At(c, "write")  /\ WriteFile(c, Output, found[c])
       \/ At(c, "append") /\ AppendFile(c, Output, found[c])
    /\ Proceed(c)
    /\ UNCHANGED found

CloseLost(c) == Closes(c, Output) /\ MaybeRedirected(c)
                /\ UNCHANGED <<serverVars, cache, lru, opening, historyVars,
                               boundVars>>

CloseStep(c) ==
    /\ At(c, "close")
    /\ \/ Close(c, Output, TRUE) /\ Proceed(c)
       \/ /\ \/ Close(c, Output, FALSE) \/ Refused(c, Output)
             \/ Freezes(c, Output) \/ CloseLost(c)
          /\ Fail(c)
    /\ UNCHANGED found

Work(c) == \/ Dial(c) \/ CreateStep(c) \/ OpenStep(c)
           \/ ReadStep(c) \/ WriteStep(c) \/ CloseStep(c)

WorkersNext == \/ \E c \in Client : Work(c)
               \/ Failover /\ UNCHANGED workerVars

WorkersSpec == WorkersInit /\ [][WorkersNext]_<<vars, workerVars>>

(***************************************************************************)
(* Properties                                                              *)
(***************************************************************************)
(* The variables have their types.                                         *)
WorkersTypeOK ==
    /\ TypeOK
    /\ \A c \in Client : step[c] \in 0 .. Len(Script(c)) + 1
    /\ found \in [Client -> SUBSET Number]

(* The output file holds primes of the input files and nothing else,       *)
(* whichever programs ran and wherever they failed.                        *)
OnlyPrimesStored ==
    \A n \in content[Output] : Prime(n) /\ \E c \in Client : n \in found[c]

(* While the primary stays, what a program saved with an acknowledged      *)
(* Close is in the output file: no other program's Close takes it out.     *)
SavedTogether ==
    primary = 1 =>
        \A c \in Client : Closed(c) => found[c] \subseteq content[Output]
=============================================================================
