--------------------------- MODULE ElectionProofs ---------------------------
(***************************************************************************)
(* Type correctness of Election, that nobody follows a higher id, and that *)
(* the lowest server serves, for any servers and any bounds.               *)
(***************************************************************************)
EXTENDS Election, WellFoundedInduction, TLAPS

(* A server is not in its own round, and it is not the lowest that was     *)
(* told of a better leader.                                                *)
NotToItself ==
    \A s \in Server : s \notin round[s]

RejectedIsHigher ==
    \A s \in Server : rejected[s] => s # Lowest(Server)

Inv == TypeOK /\ FollowsLower /\ NotToItself /\ RejectedIsHigher /\ LowestServes

LEMMA LowestIs ==
    ASSUME NEW S \in SUBSET Server, S # {}
    PROVE  /\ Lowest(S) \in S
           /\ \A q \in S : Lowest(S) <= q
<1>1. S \in SUBSET Nat
    BY ServerAssumption
<1>2. \E n \in S : \A q \in S : n <= q
    <2> DEFINE Less == {ss \in Nat \X Nat : ss[1] < ss[2]}
    <2>1. \A q, n \in Nat : <<q, n>> \in Less <=> q < n
        OBVIOUS
    <2>2. IsWellFoundedOn(Less, Nat)
        BY NatLessThanWellFounded, Zenon DEF OpToRel
    <2> HIDE DEF Less
    <2>3. PICK n \in S : \A q \in S : ~(<<q, n>> \in Less)
        BY <1>1, <2>2, WFMin
    <2>4. ASSUME NEW q \in S PROVE n <= q
        <3>1. n \in Nat /\ q \in Nat
            BY <1>1
        <3>2. ~(q < n)
            BY <2>1, <2>3, <3>1
        <3> QED
            BY <3>1, <3>2
    <2> QED
        BY <2>4
<1> QED
    BY <1>2 DEF Lowest

(* electPrimary on flags that hold s's own: a server, no higher than s.    *)
LEMMA Elects ==
    ASSUME NEW S \in SUBSET Server, NEW s \in S
    PROVE  /\ electPrimary(S) \in S
           /\ electPrimary(S) <= s
BY LowestIs DEF electPrimary

LEMMA InvInit == Init => Inv
BY DEF Init, Inv, TypeOK, FollowsLower, NotToItself, RejectedIsHigher,
       LowestServes

(* The parts of the invariant that speak of the leaders hold if they hold  *)
(* for the server that moved.                                              *)
LEMMA StartKeeps ==
    ASSUME Inv, NEW s \in Server, NEW flags \in Flagged, StartServer(s, flags)
    PROVE  Inv'
<1> DEFINE leader == electPrimary(flags \cup {s})
<1>1. /\ flags \cup {s} \in SUBSET Server
      /\ leader \in flags \cup {s} /\ leader \in Server /\ leader <= s
    <2>1. flags \cup {s} \in SUBSET Server
        BY FlagAssumption
    <2> QED
        BY <2>1, Elects
<1>2. s = Lowest(Server) => leader = s
    <2>1. Lowest(Server) <= leader
        BY <1>1, LowestIs
    <2>2. leader \in Nat /\ s \in Nat
        BY <1>1, ServerAssumption
    <2> HIDE DEF leader
    <2> QED
        BY <1>1, <2>1, <2>2
<1>3. TypeOK'
    BY <1>1, ServerAssumption
    DEF Inv, TypeOK, StartServer, RoleOf, netVars, NoOne
<1>4. FollowsLower' /\ LowestServes'
    BY <1>1, <1>2, ServerAssumption
    DEF Inv, TypeOK, StartServer, RoleOf, FollowsLower, LowestServes
<1>5. NotToItself' /\ RejectedIsHigher'
    BY DEF Inv, NotToItself, RejectedIsHigher, StartServer, netVars
<1> QED
    BY <1>3, <1>4, <1>5 DEF Inv

LEMMA StopKeeps ==
    ASSUME Inv, NEW s \in Server, Stop(s), crashes' \in Nat
    PROVE  Inv'
<1>1. TypeOK'
    <2>1. beats' \subseteq Server \X Server
        BY DEF Inv, TypeOK, Stop, Abandon
    <2> QED
        BY <2>1 DEF Inv, TypeOK, Stop
<1>2. FollowsLower' /\ LowestServes'
    BY DEF Inv, TypeOK, Stop, FollowsLower, LowestServes
<1>3. NotToItself' /\ RejectedIsHigher'
    BY DEF Inv, TypeOK, NotToItself, RejectedIsHigher, Stop
<1> QED
    BY <1>1, <1>2, <1>3 DEF Inv

LEMMA CrashKeeps ==
    ASSUME Inv, NEW s \in Server, Crash(s)
    PROVE  Inv'
<1>1. Stop(s) /\ crashes' \in Nat
    BY DEF Inv, TypeOK, Crash
<1> QED
    BY <1>1, StopKeeps

LEMMA BeatingKeeps ==
    ASSUME Inv, NEW s \in Server, Beating(s)
    PROVE  Inv'
<1>1. CASE StartHeartbeat(s)
    <2>1. TypeOK' /\ NotToItself'
        BY <1>1 DEF Inv, TypeOK, NotToItself, StartHeartbeat, Peers
    <2>2. FollowsLower' /\ LowestServes' /\ RejectedIsHigher'
        BY <1>1 DEF Inv, StartHeartbeat, FollowsLower, LowestServes, RejectedIsHigher
    <2> QED
        BY <2>1, <2>2 DEF Inv
<1>2. CASE CallPeer(s)
    <2>1. TypeOK' /\ NotToItself'
        BY <1>2 DEF Inv, TypeOK, NotToItself, CallPeer
    <2>2. FollowsLower' /\ LowestServes' /\ RejectedIsHigher'
        BY <1>2 DEF Inv, CallPeer, FollowsLower, LowestServes, RejectedIsHigher
    <2> QED
        BY <2>1, <2>2 DEF Inv
<1>3. CASE Return(s)
    <2>1. TypeOK'
        BY <1>3 DEF Inv, TypeOK, Return, Abandon
    <2>2. NotToItself' /\ FollowsLower' /\ RejectedIsHigher'
        BY <1>3 DEF Inv, TypeOK, Return, NotToItself, FollowsLower, RejectedIsHigher
    <2>3. LowestServes'
        BY <1>3 DEF Inv, TypeOK, Return, LowestServes, RejectedIsHigher
    <2> QED
        BY <2>1, <2>2, <2>3 DEF Inv
<1> QED
    BY <1>1, <1>2, <1>3 DEF Beating

LEMMA HandlingKeeps ==
    ASSUME Inv, NEW s \in Server, NEW p \in Server, Handling(s, p)
    PROVE  Inv'
<1>1. PICK heard \in BOOLEAN : SendHeartbeat(s, p, heard)
    BY DEF Handling
<1>2. /\ up[s] /\ primaryID[s] \in Server /\ s \in Nat /\ p \in Nat
      /\ primaryID[s] \in Nat /\ primaryID[s] <= s
    BY <1>1, ServerAssumption DEF Inv, TypeOK, FollowsLower, SendHeartbeat
<1>3. TypeOK'
    BY <1>1, ServerAssumption DEF Inv, TypeOK, SendHeartbeat, NoOne, Rejects
<1>4. NotToItself'
    BY <1>1 DEF Inv, NotToItself, SendHeartbeat
<1>5. ~Rejects(s, p) => p <= primaryID[s]
    BY <1>2, ServerAssumption DEF Rejects, NoOne
<1>6. FollowsLower'
    <2>1. CASE Rejects(s, p)
        BY <1>1, <2>1 DEF Inv, SendHeartbeat, FollowsLower
    <2>2. CASE ~Rejects(s, p)
        <3>1. p <= s
            BY <1>2, <1>5, <2>2
        <3> QED
            BY <1>1, <2>2, <3>1 DEF Inv, TypeOK, SendHeartbeat, FollowsLower
    <2> QED
        BY <2>1, <2>2
<1>7. Rejects(s, p) => p # Lowest(Server)
    BY <1>2, LowestIs DEF Rejects
<1>8. RejectedIsHigher'
    BY <1>1, <1>7 DEF Inv, TypeOK, SendHeartbeat, RejectedIsHigher
<1>9. LowestServes'
    <2>1. s = Lowest(Server) /\ ~Rejects(s, p) => p = s
        BY <1>2, <1>5, LowestIs
    <2> QED
        BY <1>1, <2>1 DEF Inv, TypeOK, SendHeartbeat, LowestServes
<1> QED
    BY <1>3, <1>4, <1>6, <1>8, <1>9 DEF Inv

LEMMA MonitorKeeps ==
    ASSUME Inv, NEW s \in Server, MonitorPrimary(s)
    PROVE  Inv'
<1>1. /\ WithoutLeader(s) \in SUBSET Server /\ s \in WithoutLeader(s)
      /\ up[s] /\ primaryID[s] # s
    BY DEF Inv, TypeOK, MonitorPrimary, WithoutLeader
<1> DEFINE leader == electPrimary(WithoutLeader(s))
<1>2. leader \in Server /\ leader <= s
    BY <1>1, Elects
<1>3. s # Lowest(Server)
    BY <1>1 DEF Inv, LowestServes
<1>4. TypeOK'
    BY <1>1, <1>2, ServerAssumption
    DEF Inv, TypeOK, MonitorPrimary, RoleOf, netVars, NoOne
<1>5. FollowsLower' /\ LowestServes'
    BY <1>1, <1>2, <1>3 DEF Inv, TypeOK, MonitorPrimary, FollowsLower, LowestServes
<1>6. NotToItself' /\ RejectedIsHigher'
    BY DEF Inv, NotToItself, RejectedIsHigher, MonitorPrimary, netVars
<1> QED
    BY <1>4, <1>5, <1>6 DEF Inv

LEMMA InvNext == Inv /\ [Next]_vars => Inv'
<1> SUFFICES ASSUME Inv, [Next]_vars PROVE Inv'
    OBVIOUS
<1>1. CASE UNCHANGED vars
    BY <1>1 DEF Inv, TypeOK, FollowsLower, NotToItself, RejectedIsHigher,
                LowestServes, vars, netVars
<1>2. CASE Next
    BY <1>2, StartKeeps, CrashKeeps, BeatingKeeps, HandlingKeeps, MonitorKeeps
    DEF Next
<1> QED
    BY <1>1, <1>2

(* A server that runs knows a leader and flags itself alive, always.       *)
THEOREM ElectionTypeCorrect == Spec => []TypeOK
<1>1. Inv => TypeOK
    BY DEF Inv
<1> QED
    BY <1>1, InvInit, InvNext, PTL DEF Spec

(* Nobody follows a server with a higher id than its own: heartbeats,      *)
(* electPrimary and MonitorPrimary agree on the order.                     *)
THEOREM NobodyFollowsHigher == Spec => []FollowsLower
<1>1. Inv => FollowsLower
    BY DEF Inv
<1> QED
    BY <1>1, InvInit, InvNext, PTL DEF Spec

(* The server with the lowest id is primary whenever it runs: no answer to *)
(* its heartbeats and no monitor takes the role from it.                   *)
THEOREM LowestAlwaysServes == Spec => []LowestServes
<1>1. Inv => LowestServes
    BY DEF Inv
<1> QED
    BY <1>1, InvInit, InvNext, PTL DEF Spec
=============================================================================
