----------------------------- MODULE MCDataPhase -----------------------------
(***************************************************************************)
(* Schedules for DataPhase as SlotAllocation makes them: a stream of two   *)
(* hops on two paths; one twice over the same path; two streams of one and *)
(* two hops with different periods; one of one hop.  Callbacks take so     *)
(* long that a data slot has the length of a control slot, and four of     *)
(* them fit in a tile.                                                     *)
(***************************************************************************)
EXTENDS DataPhase

Config == INSTANCE NetworkConfiguration

MCConfiguration ==
    [Config!DefaultConfiguration EXCEPT !.maxHops = 2, !.callbacksExecutionTime = 3000,
                                        !.tileDuration = 50000]

ASSUME MCConfigurationIsValid ==
    /\ MCConfiguration \in Config!Configurations
    /\ Config!Valid(MCConfiguration)
    /\ Config!ValidStructure(Config!Structure(MCConfiguration))
    /\ \A control \in {"downlink", "uplink"} : ~Config!TooLarge(MCConfiguration, control)

MCSuperframe == Config!TileKinds(MCConfiguration)
MCSlotsPerTile == Config!NumSlotInTile(MCConfiguration)
MCReservedSlots ==
    [control \in {"downlink", "uplink"} |-> Config!ControlSlots(MCConfiguration, control)]

MCStream(i, a, b, p, r) == [id |-> i, src |-> a, dst |-> b, period |-> p, redundancy |-> r]
MCHop(s, a, b, o, c) == [stream |-> s, tx |-> a, rx |-> b, offset |-> o, copy |-> c]

MCSpatial ==
    LET s == MCStream(1, 0, 3, 2, "DOUBLE_SPATIAL")
    IN [elements |-> <<MCHop(s, 0, 1, 1, 1), MCHop(s, 1, 3, 2, 1),
                       MCHop(s, 0, 2, 3, 2), MCHop(s, 2, 3, 5, 2)>>, tiles |-> 4]

MCTwice ==
    LET s == MCStream(1, 0, 3, 2, "DOUBLE")
    IN [elements |-> <<MCHop(s, 0, 1, 1, 1), MCHop(s, 1, 3, 3, 1),
                       MCHop(s, 0, 1, 5, 2), MCHop(s, 1, 3, 6, 2)>>, tiles |-> 4]

\* The hops of the first copy are in different superframes.
MCLong ==
    LET s == MCStream(1, 0, 3, 4, "DOUBLE")
    IN [elements |-> <<MCHop(s, 0, 1, 1, 1), MCHop(s, 1, 3, 9, 1),
                       MCHop(s, 0, 1, 10, 2), MCHop(s, 1, 3, 13, 2)>>, tiles |-> 4]

MCTwoStreams ==
    LET s == MCStream(1, 0, 1, 1, "NONE")
        r == MCStream(2, 3, 0, 2, "NONE")
    IN [elements |-> <<MCHop(s, 0, 1, 1, 1), MCHop(r, 3, 1, 2, 1), MCHop(r, 1, 0, 6, 1)>>,
        tiles |-> 2]

MCOneHop ==
    LET s == MCStream(1, 0, 1, 1, "NONE")
    IN [elements |-> <<MCHop(s, 0, 1, 2, 1)>>, tiles |-> 1]

MCScenario(sched, secure, used, callbacks, mayFail) ==
    [schedule |-> sched, authenticated |-> secure, used |-> used, callbacks |-> callbacks,
     mayFail |-> mayFail]

MCScenarios ==
    <<MCScenario(MCTwice, FALSE, {1}, {}, {}), MCScenario(MCTwoStreams, FALSE, {2}, {2}, {}),
      MCScenario(MCOneHop, TRUE, {1}, {1}, {1}),
      MCScenario(MCSpatial, TRUE, {1}, {}, {0, 3}), MCScenario(MCLong, TRUE, {1}, {}, {1})>>

ASSUME MCScenariosAreSound == SchedulesAreWhole /\ CopiesStayApart /\ FailuresAreDetected

=============================================================================
