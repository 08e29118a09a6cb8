--------------------------- MODULE NetworkTopology ---------------------------
(***************************************************************************)
(* The master's view of the network (uplink_phase/topology/network_        *)
(* topology.{h,cpp} and network_graph.{h,cpp}): the graph of strong links, *)
(* the graph of weak links, and what it takes to tell the scheduler that a *)
(* change matters for the current schedule.  The MAC thread applies the    *)
(* topology elements that the uplink phase collects; the scheduler thread  *)
(* copies the graph, may write a pruned copy back, and reports at the end  *)
(* of a run which links the schedule relies on.  graph_mutex is held over  *)
(* each operation.                                                         *)
(*                                                                         *)
(* A graph is a set of links and a link a set of two nodes: the code keeps *)
(* both (a,b) and (b,a) in the adjacency bitsets and orders the pairs of   *)
(* its link sets (orderLink).                                              *)
(***************************************************************************)
EXTENDS Naturals, FiniteSets

CONSTANTS
    Nodes,                \* node ids; the master is node 0
    ChannelSpatialReuse,  \* two transmissions may share a slot if they do not interfere
    UseWeakTopologies,    \* interference is judged on the weak graph
    InitialLinks,         \* the strong links known at the start of the model
    MaxTopologies         \* bound on the number of topology elements received

ASSUME TopologyAssumption ==
    /\ Nodes \subseteq Nat
    /\ 0 \in Nodes
    /\ ChannelSpatialReuse \in BOOLEAN
    /\ UseWeakTopologies \in BOOLEAN
    /\ InitialLinks \subseteq SUBSET Nodes
    /\ \A l \in InitialLinks : \E a, b \in Nodes : a # b /\ l = {a, b}
    /\ MaxTopologies \in Nat

VARIABLES
    graph, weakGraph,
    possiblyNotConnected,     \* possiblyNotConnected_flag of graph
    topologyModified,         \* NetworkTopology::modified_flag
    scheduleInProgress,
    usedLinks,                \* links of the schedule in force
    newLinksCausingReschedule,
    removedWhileScheduling, addedWhileScheduling,
    topologiesReceived        \* capped by MaxTopologies

pendingVars == <<removedWhileScheduling, addedWhileScheduling>>
relianceVars == <<usedLinks, newLinksCausingReschedule>>
topologyVars == <<graph, weakGraph, possiblyNotConnected, topologyModified,
                  scheduleInProgress, relianceVars, pendingVars, topologiesReceived>>

-----------------------------------------------------------------------------
Links == {l \in SUBSET Nodes : \E a, b \in Nodes : a # b /\ l = {a, b}}

TopologyTypeOK ==
    /\ graph \subseteq Links
    /\ weakGraph \subseteq Links
    /\ possiblyNotConnected \in BOOLEAN
    /\ topologyModified \in BOOLEAN
    /\ scheduleInProgress \in BOOLEAN
    /\ usedLinks \subseteq Links
    /\ newLinksCausingReschedule \subseteq Links
    /\ removedWhileScheduling \subseteq Links
    /\ addedWhileScheduling \subseteq Links
    /\ topologiesReceived \in Nat

TopologyInit ==
    /\ graph = InitialLinks
    /\ weakGraph = IF UseWeakTopologies THEN InitialLinks ELSE {}
    /\ possiblyNotConnected = FALSE
    /\ topologyModified = FALSE
    /\ scheduleInProgress = FALSE
    /\ usedLinks = {}
    /\ newLinksCausingReschedule = {}
    /\ removedWhileScheduling = {}
    /\ addedWhileScheduling = {}
    /\ topologiesReceived = 0

-----------------------------------------------------------------------------
Touching(n) == {l \in Links : n \in l}

\* Mutant: a node is taken for a neighbor of itself.
LinksOf_AutoArcs(n, neighbors) == {{n, m} : m \in neighbors}

LinksOf(n, neighbors) == {{n, m} : m \in neighbors \ {n}}

\* doReceivedTopology(): node src reports its strong and weak neighbors.  The
\* graph is updated in any case; whether the change matters is decided at once
\* when the link sets describe the schedule in force, and is left for the end
\* of the run when the scheduler is at work.
ReceiveTopology(src, neighbors, weakNeighbors) ==
    LET reported == LinksOf(src, neighbors)
        removed == (graph \cap Touching(src)) \ reported
        reportedWeak == LinksOf(src, weakNeighbors)
        added == CASE UseWeakTopologies -> reportedWeak \ weakGraph
                   [] ChannelSpatialReuse /\ ~UseWeakTopologies -> reported \ graph
                   [] OTHER -> {}
    IN
    /\ topologiesReceived < MaxTopologies
    /\ topologiesReceived' = topologiesReceived + 1
    /\ graph' = (graph \ removed) \cup reported
    /\ weakGraph' = IF UseWeakTopologies
                    THEN (weakGraph \ Touching(src)) \cup reportedWeak
                    ELSE weakGraph
    /\ possiblyNotConnected' = (possiblyNotConnected \/ removed # {})
    /\ \/ /\ scheduleInProgress
          /\ removedWhileScheduling' = removedWhileScheduling \cup removed
          /\ addedWhileScheduling' = addedWhileScheduling \cup added
          /\ UNCHANGED topologyModified
       \/ /\ ~scheduleInProgress
          /\ topologyModified' = \/ topologyModified
                                 \/ removed \cap usedLinks # {}
                                 \/ added \cap newLinksCausingReschedule # {}
          /\ UNCHANGED pendingVars
    /\ UNCHANGED <<scheduleInProgress, relianceVars>>

-----------------------------------------------------------------------------
(***************************************************************************)
(* The scheduler's operations.                                             *)
(***************************************************************************)
\* The side effect of updateSchedulerNetworkGraph(), which hands out a copy of
\* the graphs and the value of the flag.
StartScheduling ==
    /\ scheduleInProgress' = TRUE
    /\ topologyModified' = FALSE
    /\ UNCHANGED <<graph, weakGraph, possiblyNotConnected, relianceVars, pendingVars,
                   topologiesReceived>>

\* Nodes that a walk of the graph g from the master reaches.
Reachable(g) ==
    {n \in Nodes : \A S \in SUBSET Nodes :
        (0 \in S /\ \A l \in g : l \cap S # {} => l \subseteq S) => n \in S}

\* removeUnreachableNodes()
Prune(g) == {l \in g : l \subseteq Reachable(g)}

\* writeBackNetworkGraph()
WriteBack(pruned) ==
    /\ IF topologyModified
       THEN UNCHANGED <<graph, possiblyNotConnected>>
       ELSE graph' = pruned /\ possiblyNotConnected' = FALSE
    /\ UNCHANGED <<weakGraph, topologyModified, scheduleInProgress, relianceVars,
                   pendingVars, topologiesReceived>>

\* Mutant: the sets collected during the run are not emptied.
DelayedChangesChecks_KeepsSets(used, newLinks) ==
    /\ scheduleInProgress' = FALSE
    /\ topologyModified' = \/ topologyModified
                           \/ removedWhileScheduling \cap used # {}
                           \/ addedWhileScheduling \cap newLinks # {}
    /\ UNCHANGED <<graph, weakGraph, possiblyNotConnected, topologiesReceived, pendingVars>>

\* performDelayedChangesChecks(), against the link sets that are now in force.
DelayedChangesChecks(used, newLinks) ==
    /\ scheduleInProgress' = FALSE
    /\ topologyModified' = \/ topologyModified
                           \/ removedWhileScheduling \cap used # {}
                           \/ addedWhileScheduling \cap newLinks # {}
    /\ removedWhileScheduling' = {}
    /\ addedWhileScheduling' = {}
    /\ UNCHANGED <<graph, weakGraph, possiblyNotConnected, topologiesReceived>>

ScheduleNotChanged ==
    /\ DelayedChangesChecks(usedLinks, newLinksCausingReschedule)
    /\ UNCHANGED relianceVars

\* Mutant: the checks come first and see the links of the previous schedule.
ScheduleChanged_ChecksFirst(used, newLinks) ==
    /\ usedLinks' = used
    /\ newLinksCausingReschedule' = newLinks
    /\ DelayedChangesChecks(usedLinks, newLinksCausingReschedule)

ScheduleChanged(used, newLinks) ==
    /\ usedLinks' = used
    /\ newLinksCausingReschedule' = newLinks
    /\ DelayedChangesChecks(used, newLinks)

=============================================================================
