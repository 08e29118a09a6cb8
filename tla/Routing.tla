------------------------------- MODULE Routing -------------------------------
(***************************************************************************)
(* The Router of the master (scheduler/schedule_computation.cpp): from a   *)
(* graph and a stream to the blocks of transmissions that carry it, one    *)
(* block for every redundant copy.                                         *)
(*                                                                         *)
(* A graph is a set of links, a link a set of two nodes; nodes are numbers *)
(* because the adjacency of a node is visited in their order.  The two     *)
(* searches are modelled by the paths they find: the breadth first search  *)
(* returns the first in the order of the numbers among the shortest paths, *)
(* the depth first search all paths within its budget.                     *)
(***************************************************************************)
EXTENDS Integers, SequencesExt, FiniteSetsExt

CONSTANTS
    Nodes,     \* the numbers of the nodes
    MaxHops    \* the longest route the configuration allows

ASSUME RoutingAssumption ==
    /\ Nodes \subseteq Nat
    /\ IsFiniteSet(Nodes)
    /\ MaxHops \in Nat

Links == {l \in SUBSET Nodes : Cardinality(l) = 2}

Redundancies == {"NONE", "DOUBLE", "DOUBLE_SPATIAL", "TRIPLE", "TRIPLE_SPATIAL"}

\* The hops that the redundant path may have beyond those of the primary.
MoreHops == 1

Adjacent(graph, a) == {b \in Nodes : {a, b} \in graph}

\* The paths from a to z that visit no node twice.
Paths(graph, a, z) ==
    {p \in UNION {[1..n -> Nodes] : n \in 1..Cardinality(Nodes)} :
        /\ p[1] = a /\ Last(p) = z
        /\ \A i \in 1..(Len(p) - 1) : p[i + 1] \in Adjacent(graph, p[i])
        /\ \A i, j \in DOMAIN p : i < j => p[i] # p[j]}

\* The order in which both searches meet paths: shorter ones first, those of the
\* same length in the order of their nodes.
Before(p, q) ==
    \/ Len(p) < Len(q)
    \/ /\ Len(p) = Len(q)
       /\ \E i \in DOMAIN p : p[i] < q[i] /\ \A j \in 1..(i - 1) : p[j] = q[j]

ShortestPath(paths) == CHOOSE p \in paths : \A q \in paths \ {p} : Before(p, q)

\* Each recursion of the search gets what its parent has not used up, and the
\* parent uses up one for every neighbour it looks at, visited or not.
SearchCost(graph, p) ==
    SumFunction([i \in 1..(Len(p) - 1) |->
                    Cardinality({b \in Adjacent(graph, p[i]) : b <= p[i + 1]})])

DepthFirstSearch(graph, s, limit) ==
    {p \in Paths(graph, s.src, s.dst) : SearchCost(graph, p) <= limit + 1}

IndependentPaths(paths, primary) ==
    LET between == {primary[i] : i \in 2..(Len(primary) - 1)}
    IN {p \in paths : ToSet(p) \cap between = {}}

\* The path of the copy with spatial redundancy; the primary once more where there
\* is no other.
SecondaryPath(graph, s, primary) ==
    LET extra == DepthFirstSearch(graph, s, Len(primary) + MoreHops) \ {primary}
        independent == IndependentPaths(extra, primary)
    IN IF extra = {} THEN primary
       ELSE ShortestPath(IF independent # {} THEN independent ELSE extra)

PathToSchedule(path, s) ==
    [i \in 1..(Len(path) - 1) |-> [stream |-> s, tx |-> path[i], rx |-> path[i + 1]]]

PrimaryCopies(redundancy) ==
    CASE redundancy \in {"NONE", "DOUBLE_SPATIAL"} -> 1
      [] redundancy \in {"DOUBLE", "TRIPLE_SPATIAL"} -> 2
      [] redundancy = "TRIPLE" -> 3

IsSpatial(redundancy) == redundancy \in {"DOUBLE_SPATIAL", "TRIPLE_SPATIAL"}

\* A stream between neighbours: spatial redundancy becomes temporal.  Otherwise a
\* stream without a path, or with one too long, is left out.
Route(graph, s) ==
    LET paths == Paths(graph, s.src, s.dst)
        primary == ShortestPath(paths)
        secondary == IF Len(primary) = 2 THEN primary ELSE SecondaryPath(graph, s, primary)
        copies == [i \in 1..PrimaryCopies(s.redundancy) |-> PathToSchedule(primary, s)]
    IN IF paths = {} THEN <<>>
       ELSE IF Len(primary) - 1 > MaxHops /\ Len(primary) > 2 THEN <<>>
       ELSE IF IsSpatial(s.redundancy) THEN Append(copies, PathToSchedule(secondary, s))
       ELSE copies

=============================================================================
