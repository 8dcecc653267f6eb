------------------------------ MODULE Cluster -------------------------------
(***************************************************************************)
(* The servers as a whole: the commit path of Replication on servers whose *)
(* role is decided by Election (connection.go, server_basics.go,           *)
(* server_replication.go).  The two share nothing but the process: a       *)
(* server serves clients while its role is Primary, takes the entries of   *)
(* anybody who sends some, whatever its primaryID, and loses both halves   *)
(* of its memory when it dies.                                             *)
(*                                                                         *)
(* All servers have been started, each from a cluster map of its own, and  *)
(* the backups are past their start-up recovery.  Nobody restarts a server *)
(* that has died.                                                          *)
(***************************************************************************)
EXTENDS Replication

CONSTANTS
    Flagged,        \* the peers a map may flag alive: {{}} as shipped
    MaxLate,        \* bound: heartbeats on their way that nobody waits for
    Timely          \* are running servers heard and answered in time?

ClusterConstants == /\ Server \subseteq Nat \ {0}
                    /\ Flagged \subseteq SUBSET Server
                    /\ MaxLate \in Nat /\ Timely \in BOOLEAN

VARIABLES role, primaryID, alive, round, calling, rejected, beats

E == INSTANCE Election WITH up <- [s \in Server |-> status[s] = "up"]

electionVars == <<role, primaryID, alive, round, calling, rejected, beats>>

(* StartServer on every server: its own flag is set, and it elects among   *)
(* those that its map flags.                                               *)
ClusterInit ==
    /\ Init
    /\ \E flags \in [Server -> Flagged] :
          alive = [s \in Server |-> flags[s] \cup {s}]
    /\ primaryID = [s \in Server |-> E!electPrimary(alive[s])]
    /\ role      = [s \in Server |-> E!RoleOf(s, primaryID[s])]
    /\ round     = [s \in Server |-> {}]
    /\ calling   = [s \in Server |-> E!NoOne]
    /\ rejected  = [s \in Server |-> FALSE]
    /\ beats     = {}

(* Open, Close and Write begin by asking for the role, and never again.    *)
Serves(r) == role[ServedBy[r]] = "Primary"

Call(r) == /\ Serves(r)
           /\ Open(r) \/ CloseArrives(r)

(* What the commit path does leaves the election alone, and conversely.    *)
Commits == /\ \/ \E r \in Request : Call(r) \/ Handler(r)
              \/ Network
           /\ UNCHANGED electionVars

Elects == /\ UNCHANGED vars
          /\ \E s \in Server : \/ E!Beating(s) \/ E!MonitorPrimary(s)
                               \/ \E p \in Server : E!Handling(s, p)

(* A process ends with both its halves.                                    *)
Dies == \E s \in Server : Ends(s) /\ E!Stop(s)

ClusterNext == Commits \/ Elects \/ Dies

clusterVars == <<vars, electionVars>>

ClusterSpec == ClusterInit /\ [][ClusterNext]_clusterVars
=============================================================================
