------------------------------ MODULE Election ------------------------------
(***************************************************************************)
(* Who is primary: StartServer's election, the heartbeats of the server    *)
(* that leads and the monitor of the servers that follow                   *)
(* (server_replication.go, connection.go).  A server keeps a role, which   *)
(* decides whether it serves clients, and primaryID, which decides whether *)
(* it sends heartbeats or watches for them.                                *)
(*                                                                         *)
(* Ids are compared as "1" < "2" < "3" in the code, as numbers here.  Of   *)
(* time only its effect is kept: the last heartbeat of a follower may be   *)
(* older than PrimaryFailedTimeout whenever its monitor looks, or, in a    *)
(* timely network, whenever its leader has stopped to send them.           *)
(***************************************************************************)
EXTENDS Naturals, FiniteSets

CONSTANTS
    Server,         \* the ids of the cluster map
    Flagged,        \* the peers it may flag alive: {{}} as shipped
    MaxCrashes,     \* bound: crashes in a behaviour
    MaxLate,        \* bound: requests on their way that nobody waits for
    Timely          \* are running servers heard and answered in time?

ASSUME ServerAssumption == Server \subseteq Nat \ {0} /\ IsFiniteSet(Server)
ASSUME FlagAssumption   == Flagged \subseteq SUBSET Server
ASSUME BoundAssumption  == /\ MaxCrashes \in Nat /\ MaxLate \in Nat
                           /\ Timely \in BOOLEAN

VARIABLES
    up,             \* is the process running
    role,           \* s.role
    primaryID,      \* s.primaryID, NoOne for ""
    alive,          \* the peers whose Alive flag is set in s.servers
    round,          \* the peers StartHeartbeat has still to call
    calling,        \* the peer sendHeartbeat waits for, or NoOne
    rejected,       \* its answer was Success = false
    beats,          \* heartbeat requests sent and not handled
    crashes         \* crashes so far

netVars == <<round, calling, rejected, beats>>
vars    == <<up, role, primaryID, alive, netVars, crashes>>

NoOne == 0

Peers(s)  == Server \ {s}
Lowest(S) == CHOOSE l \in S : \A q \in S : l <= q

Init ==
    /\ up        = [s \in Server |-> FALSE]
    /\ role      = [s \in Server |-> "Backup"]
    /\ primaryID = [s \in Server |-> NoOne]
    /\ alive     = [s \in Server |-> {}]
    /\ round     = [s \in Server |-> {}]
    /\ calling   = [s \in Server |-> NoOne]
    /\ rejected  = [s \in Server |-> FALSE]
    /\ beats     = {}
    /\ crashes   = 0

(* The lowest id among those flagged alive.                                *)
electPrimary(flags) == IF flags = {} THEN NoOne ELSE Lowest(flags)

RoleOf(s, leader) == IF s = leader THEN "Primary" ELSE "Backup"

(* StartServer: the server flags itself in the cluster map it was given.   *)
StartServer(s, flags) ==
    LET leader == electPrimary(flags \cup {s})
    IN  /\ ~up[s]
        /\ up' = [up EXCEPT ![s] = TRUE]
        /\ alive' = [alive EXCEPT ![s] = flags \cup {s}]
        /\ primaryID' = [primaryID EXCEPT ![s] = leader]
        /\ role' = [role EXCEPT ![s] = RoleOf(s, leader)]
        /\ UNCHANGED <<netVars, crashes>>

(* s waits no longer for its call: the request is lost, or has reached a   *)
(* running server that has yet to handle it.                               *)
Late == {b \in beats : calling[b[1]] # b[2]}

Abandon(s) == \/ beats' = beats \ {<<s, calling[s]>>}
              \/ /\ calling[s] # NoOne /\ up[calling[s]]
                 /\ Cardinality(Late) < MaxLate
                 /\ UNCHANGED beats

(* A process ends: its memory is gone, and its loops with it.              *)
Stop(s) ==
    /\ up'        = [up EXCEPT ![s] = FALSE]
    /\ role'      = [role EXCEPT ![s] = "Backup"]
    /\ primaryID' = [primaryID EXCEPT ![s] = NoOne]
    /\ alive'     = [alive EXCEPT ![s] = {}]
    /\ round'     = [round EXCEPT ![s] = {}]
    /\ calling'   = [calling EXCEPT ![s] = NoOne]
    /\ rejected'  = [rejected EXCEPT ![s] = FALSE]
    /\ Abandon(s)

Crash(s) ==
    /\ up[s] /\ crashes < MaxCrashes
    /\ crashes' = crashes + 1
    /\ Stop(s)

-----------------------------------------------------------------------------
(* StartHeartbeat asks once per round whether this server leads.           *)
StartHeartbeat(s) ==
    /\ up[s] /\ primaryID[s] = s
    /\ round[s] = {} /\ calling[s] = NoOne
    /\ round' = [round EXCEPT ![s] = Peers(s)]
    /\ UNCHANGED <<up, role, primaryID, alive, calling, rejected,
                   beats, crashes>>

(* sendHeartbeat, up to the call: one peer at a time, in any order.        *)
CallPeer(s) ==
    /\ up[s] /\ calling[s] = NoOne
    /\ \E q \in round[s] :
          /\ round' = [round EXCEPT ![s] = @ \ {q}]
          /\ calling' = [calling EXCEPT ![s] = q]
          /\ beats' = beats \cup {<<s, q>>}
    /\ UNCHANGED <<up, role, primaryID, alive, rejected, crashes>>

AcceptsHigher(s, p) == primaryID[s] # NoOne /\ p < primaryID[s] \* mutant: <
Rejects(s, p)       == primaryID[s] # NoOne /\ p > primaryID[s]

(* SendHeartbeat at s, called by p: the flag of p is set, a leader with a  *)
(* higher id than the current one is rejected, any other is followed.  The *)
(* role stays what it was.  The answer counts if p still waits for it.     *)
SendHeartbeat(s, p, heard) ==
    /\ <<p, s>> \in beats /\ up[s]
    /\ beats' = beats \ {<<p, s>>}
    /\ alive' = [alive EXCEPT ![s] = @ \cup {p}]
    /\ primaryID' = IF Rejects(s, p) THEN primaryID
                    ELSE [primaryID EXCEPT ![s] = p]
    /\ rejected' = IF heard /\ calling[p] = s
                   THEN [rejected EXCEPT ![p] = Rejects(s, p)] ELSE rejected
    /\ UNCHANGED <<up, role, round, calling, crashes>>

(* sendHeartbeat returns, answered or after two seconds, and steps down    *)
(* when rejected: primaryID stays what it was.                             *)
Return(s) ==
    /\ up[s] /\ calling[s] # NoOne
    /\ Timely /\ up[calling[s]] => <<s, calling[s]>> \notin beats
    /\ Abandon(s)
    /\ calling' = [calling EXCEPT ![s] = NoOne]
    /\ role' = IF rejected[s] THEN [role EXCEPT ![s] = "Backup"] ELSE role
    /\ rejected' = [rejected EXCEPT ![s] = FALSE]
    /\ UNCHANGED <<up, primaryID, alive, round, crashes>>

-----------------------------------------------------------------------------
Leads(s) == up[s] /\ primaryID[s] = s

(* The flags once the old leader is taken for dead.                        *)
StillTrusted(s)   == alive[s]                       \* mutant: keeps its flag
TrustsNobody(s)   == {}                             \* mutant: clears the map
WithoutLeader(s)  == alive[s] \ {primaryID[s]}

(* Five seconds without a heartbeat: a running leader sends one every two. *)
TimedOut(s)   == Timely => ~Leads(primaryID[s])

(* MonitorPrimary: a server that does not lead, and has had no heartbeat   *)
(* for too long, elects another leader.  lastHeartbeat is not renewed.     *)
MonitorPrimary(s) ==
    LET leader == electPrimary(WithoutLeader(s))
    IN  /\ up[s] /\ primaryID[s] # s /\ TimedOut(s)
        /\ alive' = [alive EXCEPT ![s] = WithoutLeader(s)]
        /\ primaryID' = [primaryID EXCEPT ![s] = leader]
        /\ role' = [role EXCEPT ![s] = RoleOf(s, leader)]
        /\ UNCHANGED <<up, netVars, crashes>>

-----------------------------------------------------------------------------
Beating(s) == StartHeartbeat(s) \/ CallPeer(s) \/ Return(s)

Handling(s, p) == \E heard \in BOOLEAN : SendHeartbeat(s, p, heard)

Next == \E s \in Server : \/ \E flags \in Flagged : StartServer(s, flags)
                          \/ Crash(s)
                          \/ Beating(s) \/ MonitorPrimary(s)
                          \/ \E p \in Server : Handling(s, p)

Spec == Init /\ [][Next]_vars

(* The loops of a running server go round, time passes, and requests to a  *)
(* running server arrive.  Nobody has to start a server again.             *)
FairSpec == /\ Spec
            /\ \A s \in Server : /\ WF_vars(Beating(s))
                                 /\ \A p \in Server : WF_vars(Handling(s, p))
                                 /\ WF_vars(MonitorPrimary(s))

(***************************************************************************)
(* Properties                                                              *)
(***************************************************************************)
(* The variables have their types, and a server that runs always knows a   *)
(* leader: primaryID does not become "" again, its own flag stays set.     *)
TypeOK ==
    /\ up \in [Server -> BOOLEAN]
    /\ role \in [Server -> {"Primary", "Backup"}]
    /\ primaryID \in [Server -> Server \cup {NoOne}]
    /\ alive \in [Server -> SUBSET Server]
    /\ round \in [Server -> SUBSET Server]
    /\ calling \in [Server -> Server \cup {NoOne}]
    /\ rejected \in [Server -> BOOLEAN]
    /\ beats \subseteq Server \X Server
    /\ crashes \in Nat
    /\ \A s \in Server : up[s] => s \in alive[s] /\ primaryID[s] # NoOne

(* No running server follows one with a higher id than its own, whatever   *)
(* it has been told and whomever it has given up.                          *)
FollowsLower == \A s \in Server : up[s] => primaryID[s] <= s

(* The server with the lowest id serves as primary whenever it runs: no    *)
(* heartbeat, late answer or timeout makes it step down.                   *)
LowestServes ==
    \A s \in Server :
        up[s] /\ s = Lowest(Server) => role[s] = "Primary" /\ primaryID[s] = s

(* The running servers come to follow the lowest of them, and stay so.     *)
Running   == {s \in Server : up[s]}
Agreement == <>[](\A s \in Running : primaryID[s] = Lowest(Running))
=============================================================================
