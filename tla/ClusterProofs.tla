--------------------------- MODULE ClusterProofs ---------------------------
(***************************************************************************)
(* What the servers together keep of the promises of their parts, whatever *)
(* flags the cluster maps start them with: the cluster is a commit path,   *)
(* its elections are those of Election, and what a server committed while  *)
(* no other was called outlives it.  The facts about elections are those   *)
(* of ElectionProofs, with up, there, read as the status of Replication.   *)
(***************************************************************************)
EXTENDS PromiseProofs, Cluster

EP == INSTANCE ElectionProofs WITH
        up <- [s \in Server |-> status[s] = "up"]

-----------------------------------------------------------------------------
(* The assumptions of Election hold of the instance, and the lemmas of     *)
(* ElectionProofs speak of the Election that Cluster is composed of.       *)
LEMMA ElectionAssumptions ==
    ASSUME ClusterConstants
    PROVE  /\ Server \subseteq Nat \ {0} /\ EP!IsFiniteSet(Server)
           /\ Flagged \subseteq SUBSET Server
           /\ MaxCrashes \in Nat /\ MaxLate \in Nat /\ Timely \in BOOLEAN
<1>1. EP!IsFiniteSet(Server)
    BY ServerAssumption DEF IsFiniteSet, EP!IsFiniteSet
<1> QED
    BY <1>1, FailureAssumption DEF ClusterConstants

LEMMA SameAbandon ==
    ASSUME NEW s, E!Abandon(s) PROVE EP!Abandon(s)
<1>1. \A S : E!Cardinality(S) = EP!Cardinality(S)
    BY DEF E!Cardinality, EP!Cardinality
<1>2. E!Late = EP!Late
    BY DEF E!Late, EP!Late
<1> QED
    BY <1>1, <1>2 DEF E!Abandon, EP!Abandon, E!NoOne, EP!NoOne

LEMMA SameBeating ==
    ASSUME NEW s, E!Beating(s) PROVE EP!Beating(s)
<1>1. CASE E!StartHeartbeat(s)
    BY <1>1 DEF E!StartHeartbeat, EP!StartHeartbeat, EP!Beating, E!NoOne,
                EP!NoOne, E!Peers, EP!Peers
<1>2. CASE E!CallPeer(s)
    BY <1>2 DEF E!CallPeer, EP!CallPeer, EP!Beating, E!NoOne, EP!NoOne
<1>3. CASE E!Return(s)
    BY <1>3, SameAbandon DEF E!Return, EP!Return, EP!Beating, E!NoOne, EP!NoOne
<1> QED
    BY <1>1, <1>2, <1>3 DEF E!Beating

LEMMA SameHandling ==
    ASSUME NEW s, NEW p, E!Handling(s, p) PROVE EP!Handling(s, p)
BY DEF E!Handling, EP!Handling, E!SendHeartbeat, EP!SendHeartbeat, E!Rejects,
       EP!Rejects, E!NoOne, EP!NoOne

LEMMA SameMonitor ==
    ASSUME NEW s, E!MonitorPrimary(s) PROVE EP!MonitorPrimary(s)
BY DEF E!MonitorPrimary, EP!MonitorPrimary, E!WithoutLeader, EP!WithoutLeader,
       E!TimedOut, EP!TimedOut, E!Leads, EP!Leads, E!electPrimary,
       EP!electPrimary, E!NoOne, EP!NoOne, E!Lowest, EP!Lowest, E!RoleOf,
       EP!RoleOf, E!netVars, EP!netVars

LEMMA SameStop ==
    ASSUME NEW s, E!Stop(s) PROVE EP!Stop(s)
BY SameAbandon DEF E!Stop, EP!Stop, E!NoOne, EP!NoOne

-----------------------------------------------------------------------------
(* The cluster does what the commit path may do, without restarts.         *)
LEMMA ClusterRuns == [ClusterNext]_clusterVars => [Running]_vars
<1> SUFFICES ASSUME [ClusterNext]_clusterVars PROVE [Running]_vars
    OBVIOUS
<1>1. CASE Commits
    BY <1>1 DEF Commits, Call, Running
<1>2. CASE Elects
    BY <1>2 DEF Elects
<1>3. CASE Dies
    BY <1>3 DEF Dies, Running
<1>4. CASE UNCHANGED clusterVars
    BY <1>4 DEF clusterVars
<1> QED
    BY <1>1, <1>2, <1>3, <1>4 DEF ClusterNext

(* The invariant of elections holds of the cluster, whose processes also   *)
(* die of a panic.                                                         *)
LEMMA ElectionInit == ClusterConstants /\ ClusterInit => EP!Inv
<1> SUFFICES ASSUME ClusterConstants, ClusterInit PROVE EP!Inv
    OBVIOUS
<1> DEFINE leader(s) == EP!electPrimary(alive[s])
<1>1. \A s \in Server : s \in Nat \ {0}
    BY DEF ClusterConstants
<1>2. PICK flags \in [Server -> Flagged] :
          alive = [s \in Server |-> flags[s] \cup {s}]
    BY DEF ClusterInit
<1>3. \A s \in Server : alive[s] \in SUBSET Server /\ s \in alive[s]
    BY <1>2 DEF ClusterConstants
<1>4. \A s \in Server : leader(s) \in Server /\ leader(s) <= s
    BY <1>3, ElectionAssumptions, EP!Elects
<1>5. /\ status = [s \in Server |-> "up"] /\ crashes = 0
      /\ primaryID = [s \in Server |-> leader(s)]
      /\ role = [s \in Server |-> IF s = leader(s) THEN "Primary" ELSE "Backup"]
      /\ round = [s \in Server |-> {}] /\ calling = [s \in Server |-> 0]
      /\ rejected = [s \in Server |-> FALSE] /\ beats = {}
    BY DEF ClusterInit, Init, E!RoleOf, E!NoOne, E!electPrimary, E!Lowest,
           EP!electPrimary, EP!Lowest, EP!NoOne
<1>6. \A s \in Server : s = EP!Lowest(Server) => leader(s) = s
    <2> SUFFICES ASSUME NEW s \in Server, s = EP!Lowest(Server)
                 PROVE  leader(s) = s
        OBVIOUS
    <2>1. \A q \in Server : s <= q
        <3>1. Server \in SUBSET Server /\ Server # {}
            BY ServerAssumption
        <3> QED
            BY <3>1, ElectionAssumptions, EP!LowestIs
    <2> HIDE DEF leader
    <2> QED
        BY <1>1, <1>4, <2>1
<1> HIDE DEF leader
<1>7. EP!TypeOK
    <2>1. alive \in [Server -> SUBSET Server]
        BY <1>2, <1>3
    <2> QED
        BY <1>1, <1>3, <1>4, <1>5, <2>1 DEF EP!TypeOK, EP!NoOne
<1>8. EP!FollowsLower /\ EP!LowestServes
    BY <1>4, <1>5, <1>6 DEF EP!FollowsLower, EP!LowestServes
<1>9. EP!NotToItself /\ EP!RejectedIsHigher
    BY <1>5 DEF EP!NotToItself, EP!RejectedIsHigher
<1> QED
    BY <1>7, <1>8, <1>9 DEF EP!Inv

LEMMA CommitsKeepElection ==
    ASSUME NEW r \in Request, Open(r) \/ CloseArrives(r) \/ Handler(r)
    PROVE  UNCHANGED <<status, crashes>>
BY DEF Open, CloseArrives, Handler, BeginClose, Conflict, AppendLog,
       SendAppends, Commit, Timeout, Finish

LEMMA ElectionNext ==
    ASSUME ClusterConstants, TypeInv, EP!Inv, [ClusterNext]_clusterVars
    PROVE  EP!Inv'
<1>1. ASSUME UNCHANGED <<status, crashes, electionVars>> PROVE EP!Inv'
    <2>1. UNCHANGED EP!vars
        BY <1>1 DEF EP!vars, EP!netVars, electionVars
    <2> QED
        BY <2>1, ElectionAssumptions, EP!InvNext
<1>2. CASE Commits
    <2>1. UNCHANGED <<status, crashes>>
        BY <1>2, CommitsKeepElection DEF Commits, Call, Network, AppendEntries
    <2> QED
        BY <1>1, <1>2, <2>1 DEF Commits
<1>3. CASE Elects
    <2>1. ASSUME NEW s \in Server, E!Beating(s) PROVE EP!Inv'
        BY <2>1, SameBeating, ElectionAssumptions, EP!BeatingKeeps
    <2>2. ASSUME NEW s \in Server, E!MonitorPrimary(s) PROVE EP!Inv'
        BY <2>2, SameMonitor, ElectionAssumptions, EP!MonitorKeeps
    <2>3. ASSUME NEW s \in Server, NEW p \in Server, E!Handling(s, p)
          PROVE  EP!Inv'
        BY <2>3, SameHandling, ElectionAssumptions, EP!HandlingKeeps
    <2> QED
        BY <1>3, <2>1, <2>2, <2>3 DEF Elects
<1>4. CASE Dies
    <2>1. PICK s \in Server : E!Stop(s)
        BY <1>4 DEF Dies
    <2>2. crashes' \in Nat
        BY TypeNext, ClusterRuns, RunningNext DEF TypeInv, TypeOK
    <2> QED
        BY <2>1, <2>2, SameStop, ElectionAssumptions, EP!StopKeeps
<1>5. CASE UNCHANGED clusterVars
    BY <1>1, <1>5 DEF clusterVars, vars, electionVars
<1> QED
    BY <1>2, <1>3, <1>4, <1>5 DEF ClusterNext

-----------------------------------------------------------------------------
(* Nobody but p has been called, while p runs.                             *)
SoleServer(p) == status[p] = "up" => Alone(p)

(* Then the commit path is, for so long, what it is with one primary.      *)
InTerm(p) == status[p] = "up" => CommitInv(p)

DurableFor(p) ==
    \A r \in Request : Committed(r) /\ ServedBy[r] = p
                      => Cardinality(Holders(ent[r])) >= Majority

TermInv(p) == TypeInv /\ InTerm(p) /\ DurableFor(p)

(* A step of p's term, the last one of it included.                        *)
LEMMA TermStep ==
    ASSUME NEW p, Ground(p), Alone(p), CommitInv(p), [Running]_vars
    PROVE  InTerm(p)' /\ DurableFor(p)'
<1>1. CommitInv(p)'
    BY CommitRunning
<1> QED
    BY <1>1 DEF InTerm, CommitInv, AckedDurable, DurableFor

(* A step after it: what p has committed is settled, and no disk loses an  *)
(* entry.                                                                  *)
LEMMA LaterStep ==
    ASSUME NEW p \in Server, TypeInv, DurableFor(p), status[p] # "up",
           [Running]_vars
    PROVE  InTerm(p)' /\ DurableFor(p)'
<1>1. /\ pc \in [Request -> CallState] /\ msgs \subseteq Message
      /\ status \in [Server -> {"up", "down", "panicked"}]
      /\ ent \in [Request ->
                    [index : Nat, file : File, content : SUBSET Request]]
      /\ \A r \in Request : pc[r] = "prepared" => ent[r] \in Entry
    BY DEF TypeInv, TypeOK, Holding
<1>2. ASSUME UNCHANGED <<status, disk>>,
             \A r \in Request : ServedBy[r] = p
                 => UNCHANGED ent[r] /\ (Committed(r)' => Committed(r))
      PROVE  InTerm(p)' /\ DurableFor(p)'
    BY <1>2 DEF InTerm, DurableFor, Holders
<1>3. ASSUME status'[p] = status[p], UNCHANGED ent,
             \A r \in Request : Committed(r)' /\ ServedBy[r] = p => Committed(r),
             NEW s \in Server, NEW e \in Entry,
             \/ disk' = disk
             \/ disk' = [disk EXCEPT ![s] = Append(disk[s], e)]
      PROVE  InTerm(p)' /\ DurableFor(p)'
    <2>1. \A x : Holders(x) \subseteq Holders(x)'
        BY <1>3, DisksGrow DEF TypeInv
    <2>2. ASSUME NEW r \in Request, Committed(r)', ServedBy[r] = p
          PROVE  Cardinality(Holders(ent[r])') >= Majority
        <3>1. ent'[r] = ent[r] /\ Cardinality(Holders(ent[r])) >= Majority
            BY <1>3, <2>2 DEF DurableFor
        <3> QED
            BY <2>1, <3>1, StaysHeld
    <2> QED
        BY <1>3, <2>2 DEF InTerm, DurableFor
<1>4. ASSUME NEW r \in Request, Open(r) \/ CloseArrives(r) \/ Handler(r)
      PROVE  InTerm(p)' /\ DurableFor(p)'
    <2>1. ServedBy[r] # p /\ UNCHANGED status
        BY <1>4 DEF Open, CloseArrives, Handler, BeginClose, Conflict, AppendLog,
                    SendAppends, Commit, Timeout, Finish
    <2>2. \A o \in Request : o # r => pc'[o] = pc[o] /\ ent'[o] = ent[o]
        BY <1>1, <1>4
        DEF Open, CloseArrives, Handler, BeginClose, Conflict, AppendLog,
            SendAppends, Commit, Timeout, Finish, callVars
    <2>3. CASE \E ok \in BOOLEAN : AppendLog(r, ok)
        <3>1. PICK ok \in BOOLEAN : AppendLog(r, ok)
            BY <2>3
        <3>2. /\ ent[r] \in Entry /\ ServedBy[r] \in Server /\ UNCHANGED ent
              /\ \/ disk' = disk
                 \/ disk' = [disk EXCEPT ![ServedBy[r]] =
                               Append(disk[ServedBy[r]], ent[r])]
            BY <1>1, <3>1, RequestAssumption DEF AppendLog
        <3>3. \A o \in Request : Committed(o)' /\ ServedBy[o] = p => Committed(o)
            BY <2>1, <2>2 DEF Committed
        <3> QED
            BY <1>3, <2>1, <3>2, <3>3
    <2>4. CASE ~ \E ok \in BOOLEAN : AppendLog(r, ok)
        <3>1. UNCHANGED disk
            BY <1>4, <2>4 DEF Open, CloseArrives, Handler, BeginClose, Conflict,
                              SendAppends, Commit, Timeout, Finish
        <3> QED
            BY <1>2, <2>1, <2>2, <3>1 DEF Committed
    <2> QED
        BY <2>3, <2>4
<1>5. ASSUME NEW m \in msgs, NEW ok \in BOOLEAN
      PROVE  /\ m.dest \in Server /\ m.entry \in Entry
             /\ \/ DiskAfter(m, ok) = disk
                \/ DiskAfter(m, ok) =
                     [disk EXCEPT ![m.dest] = Append(disk[m.dest], m.entry)]
    BY <1>1 DEF Message, DiskAfter
<1>6. ASSUME NEW m \in msgs, NEW ok \in BOOLEAN, NEW heard \in BOOLEAN,
             AppendEntries(m, ok, heard)
      PROVE  InTerm(p)' /\ DurableFor(p)'
    <2>1. UNCHANGED <<status, pc, ent>> /\ disk' = DiskAfter(m, ok)
        BY <1>6 DEF AppendEntries
    <2>2. \A r \in Request : Committed(r)' => Committed(r)
        BY <2>1 DEF Committed
    <2> QED
        BY <1>3, <1>5, <2>1, <2>2
<1>7. ASSUME NEW s \in Server, NEW how, Halt(s, how), s # p
      PROVE  /\ status'[p] = status[p] /\ UNCHANGED ent
             /\ \A r \in Request : Committed(r)' /\ ServedBy[r] = p => Committed(r)
    BY <1>1, <1>7 DEF Halt, Committed
<1>8. ASSUME NEW m \in msgs, NEW ok \in BOOLEAN, AppendEntriesPanics(m, ok)
      PROVE  InTerm(p)' /\ DurableFor(p)'
    <2>1. Halt(m.dest, "panicked") /\ m.dest # p /\ disk' = DiskAfter(m, ok)
        BY <1>8 DEF AppendEntriesPanics
    <2> QED
        BY <1>3, <1>5, <1>7, <2>1
<1>9. ASSUME NEW s \in Server, Crash(s) PROVE InTerm(p)' /\ DurableFor(p)'
    <2>1. Halt(s, "down") /\ s # p /\ UNCHANGED disk
        BY <1>9 DEF Crash
    <2>2. /\ status'[p] = status[p] /\ UNCHANGED ent
          /\ \A r \in Request : Committed(r)' /\ ServedBy[r] = p => Committed(r)
        BY <1>7, <2>1
    <2> QED
        BY <2>1, <2>2 DEF InTerm, DurableFor, Holders
<1>10. CASE UNCHANGED vars
    <2>1. UNCHANGED <<status, disk, pc, ent>>
        BY <1>10 DEF vars, callVars
    <2> QED
        BY <1>2, <2>1 DEF Committed
<1> QED
    BY <1>4, <1>6, <1>8, <1>9, <1>10 DEF Running, Network, Ends

LEMMA TermNext ==
    ASSUME NEW p, Ground(p), TermInv(p), SoleServer(p), [ClusterNext]_clusterVars
    PROVE  TermInv(p)'
<1>1. [Running]_vars /\ TypeInv /\ TypeInv' /\ p \in Server
    BY ClusterRuns, RunningNext, TypeNext DEF TermInv, Ground
<1>2. InTerm(p)' /\ DurableFor(p)'
    <2>1. CASE status[p] = "up"
        BY <1>1, <2>1, TermStep DEF TermInv, InTerm, SoleServer
    <2>2. CASE status[p] # "up"
        BY <1>1, <2>2, LaterStep DEF TermInv
    <2> QED
        BY <2>1, <2>2
<1> QED
    BY <1>1, <1>2 DEF TermInv

-----------------------------------------------------------------------------
(* What a server commits while no other is called stays on a majority of   *)
(* the disks when it dies, and under the entries and the commits of all    *)
(* who lead after it.  Two servers that serve at once break the hypothesis. *)
THEOREM SoleTermIsDurable ==
    ASSUME NEW p, Ground(p)
    PROVE  ClusterSpec /\ []SoleServer(p) => []DurableFor(p)
<1>1. ClusterInit => TermInv(p)
    <2> SUFFICES ASSUME ClusterInit PROVE TermInv(p)
        OBVIOUS
    <2>1. Init /\ p \in Server
        BY DEF ClusterInit, Ground
    <2>2. CommitInv(p) /\ TypeInv
        BY <2>1, CommitInit, TypeInit
    <2> QED
        BY <2>1, <2>2 DEF TermInv, InTerm, DurableFor, Init, Committed
<1>2. TermInv(p) /\ SoleServer(p) /\ [ClusterNext]_clusterVars => TermInv(p)'
    BY TermNext
<1>3. TermInv(p) => DurableFor(p)
    BY DEF TermInv
<1> QED
    BY <1>1, <1>2, <1>3, PTL DEF ClusterSpec

(* Whatever the network and the disks do, every behaviour of the cluster   *)
(* is one of the commit path: what is proved of Replication for these      *)
(* constants holds of the cluster.                                         *)
THEOREM ClusterImplementsReplication == ClusterSpec => Spec
<1>1. ClusterInit => Init
    BY DEF ClusterInit
<1>2. [ClusterNext]_clusterVars => [Next]_vars
    BY ClusterRuns, RunningNext
<1> QED
    BY <1>1, <1>2, PTL DEF ClusterSpec, Spec

(* Whatever the network, the disks and the elections do and whoever dies,  *)
(* of the calls that opened one version on one server one at most is       *)
(* answered with success: here nobody restarts a server, and its table of  *)
(* versions is not forgotten.                                              *)
THEOREM FirstCommitterWinsInCluster == ClusterSpec => []FirstCommitterWins
<1>1. ClusterInit => TypeInv /\ VersionInv
    BY TypeInit, VersionInit DEF ClusterInit
<1>2. TypeInv /\ VersionInv /\ [ClusterNext]_clusterVars
        => (TypeInv /\ VersionInv)'
    BY ClusterRuns, RunningNext, TypeNext, VersionRunning
<1>3. VersionInv => FirstCommitterWins
    BY DEF VersionInv
<1> QED
    BY <1>1, <1>2, <1>3, PTL DEF ClusterSpec

(* In the cluster, too, nobody follows a higher server and the lowest one  *)
(* serves whenever it runs, whatever is late or lost.                      *)
THEOREM ElectionOfTheCluster ==
    ASSUME ClusterConstants
    PROVE  ClusterSpec => [](E!TypeOK /\ E!FollowsLower /\ E!LowestServes)
<1>1. ClusterInit => TypeInv /\ EP!Inv
    BY TypeInit, ElectionInit DEF ClusterInit
<1>2. TypeInv /\ EP!Inv /\ [ClusterNext]_clusterVars => (TypeInv /\ EP!Inv)'
    BY ClusterRuns, RunningNext, TypeNext, ElectionNext
<1>3. EP!Inv => E!TypeOK /\ E!FollowsLower /\ E!LowestServes
    BY DEF EP!Inv, EP!TypeOK, EP!FollowsLower, EP!LowestServes, EP!NoOne,
           EP!Lowest, E!TypeOK, E!FollowsLower, E!LowestServes, E!NoOne, E!Lowest
<1> QED
    BY <1>1, <1>2, <1>3, PTL DEF ClusterSpec
=============================================================================
