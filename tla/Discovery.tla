------------------------------ MODULE Discovery ------------------------------
(***************************************************************************)
(* How the nodes of uav_comm find each other's topics (runtime/Node.cpp,   *)
(* core/TopicGraph.cpp).  A node announces its topics when it makes them   *)
(* and every three seconds, sends a heartbeat every second, and every two  *)
(* seconds forgets the topics of those it has not heard of for five.  It   *)
(* receives what it sends.  All topics of a node are one here.             *)
(*                                                                         *)
(* The handlers run on the Reactor's thread and are one step each.  Time   *)
(* is only what it does to a node: that it has been silent for too long.   *)
(* Announcements come in any order, may be late or lost; a heartbeat comes *)
(* while its sender runs, or not at all.  Nodes crash and start again with *)
(* an empty graph.                                                         *)
(***************************************************************************)
CONSTANT Peers     \* the nodes of one domain

VARIABLES
    up,        \* the nodes that run
    known,     \* known[n]: whose topics are in n's TopicGraph
    alive,     \* alive[n][m]: node_alive_ of n: no entry, a recent or an old one
    announced  \* announced[n]: whose announcements are on their way to n

discoveryVars == <<up, known, alive, announced>>

Unknown == [m \in Peers |-> "none"]

DiscoveryInit ==
    /\ up = {}
    /\ known = [n \in Peers |-> {}]
    /\ alive = [n \in Peers |-> Unknown]
    /\ announced = [n \in Peers |-> {}]

-----------------------------------------------------------------------------

\* An announcement of n, with those already on their way, to all that run.
Spread(n) ==
    [m \in Peers |-> IF m \in up THEN announced[m] \cup {n} ELSE announced[m]]

StartNode(n) ==
    /\ n \notin up
    /\ up' = up \cup {n}
    /\ UNCHANGED <<known, alive, announced>>

\* create_publisher or create_subscription: into the graph, then broadcast.
CreateTopic(n) ==
    /\ n \in up
    /\ n \notin known[n]
    /\ known' = [known EXCEPT ![n] = @ \cup {n}]
    /\ announced' = Spread(n)
    /\ UNCHANGED <<up, alive>>

\* Mutant of BroadcastAll: the test for the node's own topics is turned round.
BroadcastOthers(n) ==
    /\ n \in up
    /\ announced' = [m \in Peers |-> IF m \in up THEN announced[m] \cup (known[n] \ {n})
                                                 ELSE announced[m]]
    /\ UNCHANGED <<up, known, alive>>

\* A node announces of its own topics those its own graph has.
BroadcastAll(n) ==
    /\ n \in up
    /\ n \in known[n]
    /\ announced' = Spread(n)
    /\ UNCHANGED <<up, known, alive>>

HandleDiscovery(n, m) ==
    /\ m \in announced[n]
    /\ announced' = [announced EXCEPT ![n] = @ \ {m}]
    /\ known' = [known EXCEPT ![n] = @ \cup {m}]
    /\ alive' = [alive EXCEPT ![n][m] = "recent"]
    /\ UNCHANGED <<up>>

\* A heartbeat of m, perhaps before n knows anything of m.
HandleBeat(n, m) ==
    /\ n \in up /\ m \in up
    /\ alive' = [alive EXCEPT ![n][m] = "recent"]
    /\ UNCHANGED <<up, known, announced>>

Dead(n) == {m \in Peers : alive[n][m] = "old"}

CleanupNode(n) ==
    /\ n \in up
    /\ Dead(n) # {}
    /\ alive' = [alive EXCEPT ![n] = [m \in Peers |-> IF m \in Dead(n) THEN "none" ELSE @[m]]]
    /\ known' = [known EXCEPT ![n] = @ \ Dead(n)]
    /\ UNCHANGED <<up, announced>>

-----------------------------------------------------------------------------

\* Five seconds have gone by since n last heard of m.
GrowOld(n, m) ==
    /\ n \in up
    /\ alive[n][m] = "recent"
    /\ alive' = [alive EXCEPT ![n][m] = "old"]
    /\ UNCHANGED <<up, known, announced>>

LoseAnnouncement(n, m) ==
    /\ m \in announced[n]
    /\ announced' = [announced EXCEPT ![n] = @ \ {m}]
    /\ UNCHANGED <<up, known, alive>>

\* The process is gone, with its graph and what was on its way to it.
CrashNode(n) ==
    /\ n \in up
    /\ up' = up \ {n}
    /\ known' = [known EXCEPT ![n] = {}]
    /\ alive' = [alive EXCEPT ![n] = Unknown]
    /\ announced' = [announced EXCEPT ![n] = {}]

-----------------------------------------------------------------------------

Hear(n, m) == HandleDiscovery(n, m) \/ HandleBeat(n, m)

DiscoveryNext ==
    \E n \in Peers :
        \/ StartNode(n) \/ CreateTopic(n) \/ BroadcastAll(n)
        \/ CleanupNode(n) \/ CrashNode(n)
        \/ \E m \in Peers : Hear(n, m) \/ GrowOld(n, m) \/ LoseAnnouncement(n, m)

DiscoverySpec == DiscoveryInit /\ [][DiscoveryNext]_discoveryVars

-----------------------------------------------------------------------------

DiscoveryTypeOK ==
    /\ up \subseteq Peers
    /\ known \in [Peers -> SUBSET Peers]
    /\ alive \in [Peers -> [Peers -> {"none", "recent", "old"}]]
    /\ announced \in [Peers -> SUBSET Peers]

\* A node that runs knows again and again of the topics of every other node
\* that goes on running and has not forgotten its own, however many messages are
\* lost and however often it takes the other for dead (broadcast_all,
\* handle_discovery, cleanup_node).
Rediscovered ==
    \A n \in Peers : \A m \in Peers \ {n} :
        <>[](n \in up /\ m \in known[m]) => []<>(m \in known[n])

=============================================================================
