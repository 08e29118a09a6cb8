----------------------- MODULE MCScheduleComputation -----------------------
(***************************************************************************)
(* Small instances of ScheduleComputation.                                 *)
(***************************************************************************)
EXTENDS ScheduleComputation

CONSTANTS s1, s2, srv

Parameter(period, direction) ==
    [redundancy |-> 1, period |-> period, payloadSize |-> 8, direction |-> direction]

\* One direction and two periods; one period and two directions.
MCPeriods == {Parameter(1, "TX"), Parameter(2, "TX")}
MCDirections == {Parameter(1, "TX"), Parameter(1, "RX")}
MCSingle == {Parameter(1, "TX")}

MCServerOf == [s \in Streams |-> srv]

\* Two nodes and their link.
MCPair == {0, 1}
MCPairLinks == {{0, 1}}
MCPairRoutes == [s \in Streams |-> {{{0, 1}}}]

\* Three nodes; a stream from node 1 to the master can go directly or through
\* node 2.
MCTriangle == {0, 1, 2}
MCTriangleLinks == {{0, 1}, {0, 2}, {1, 2}}
MCTriangleRoutes == [s \in Streams |-> {{{0, 1}}, {{0, 2}, {1, 2}}}]

=============================================================================
