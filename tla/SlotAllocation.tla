--------------------------- MODULE SlotAllocation ---------------------------
(***************************************************************************)
(* How the scheduler finds slots (scheduleEstablishedStreams(),            *)
(* scheduleAcceptedStreams(), scheduleStreams() and the conflict checks of *)
(* scheduler/schedule_computation.cpp), one transmission at a time.        *)
(*                                                                         *)
(* A run starts from the schedule in force, or from nothing if the         *)
(* topology changed or a stream was closed; it then serves the established *)
(* streams again and after them the accepted ones.  Each stream is routed  *)
(* into blocks; a transmission takes the first slot after that of the      *)
(* transmission before it where it meets no conflict.  Streams are routed  *)
(* when their turn comes: the graph of a run does not change, so that it   *)
(* makes no difference.                                                    *)
(***************************************************************************)
EXTENDS Routing

CONSTANTS
    Requests,             \* the streams that can be asked for: records of their
                          \* id, src, dst, period and redundancy
    Graphs,               \* the graphs that the network can have
    Superframe,           \* sequence of "downlink" and "uplink"
    SlotsPerTile,
    ReservedSlots,        \* slots at the start of a tile that the control takes, per kind
    ChannelSpatialReuse,  \* transmissions that do not interfere may share a slot
    UseWeakTopologies,
    MaxRuns               \* bound: runs of the scheduler

ASSUME AllocationAssumption ==
    /\ Requests \subseteq [id : Nat, src : Nodes, dst : Nodes, period : Nat \ {0},
                           redundancy : Redundancies]
    /\ \A s \in Requests : s.src # s.dst
    /\ Graphs \subseteq SUBSET Links
    /\ Superframe \in Seq({"downlink", "uplink"}) /\ Superframe # <<>>
    /\ SlotsPerTile \in Nat \ {0}
    /\ ReservedSlots \in [{"downlink", "uplink"} -> Nat]
    /\ ChannelSpatialReuse \in BOOLEAN
    /\ UseWeakTopologies \in BOOLEAN
    /\ MaxRuns \in Nat

VARIABLES
    graph, weakGraph,       \* network_graph, weak_graph: the copies of the run
    established, accepted,  \* of the snapshot of the stream collection
    schedule,               \* the schedule in force
    newSchedule,
    round,                  \* which streams the run is serving, or "idle"
    todo,                   \* the streams of the round that are not routed yet
    blocks,                 \* routed_streams, for the stream whose turn it is
    block,                  \* transmissions of the block that are left to schedule
    fresh,                  \* scheduled_transmissions
    blockSize, streamErr, lastOffset, lastSize, newSize,
    runs

networkVars == <<graph, weakGraph, established, accepted, schedule>>
blockVars == <<blockSize, streamErr, lastOffset, lastSize>>
vars == <<networkVars, newSchedule, round, todo, blocks, block, fresh, blockVars, newSize, runs>>

-----------------------------------------------------------------------------
EmptySchedule == [elements |-> <<>>, tiles |-> Len(Superframe), links |-> {}]

Lcm(a, b) == Min({n \in 1..(a * b) : n % a = 0 /\ n % b = 0})

Nothing == <<>>

(***************************************************************************)
(* Conflicts of the transmission t at offset o with an element e.          *)
(***************************************************************************)
\* The tile of the offset only: what follows one period later is not looked at.
CheckDataSlot(o) ==
    LET kind == Superframe[((o \div SlotsPerTile) % Len(Superframe)) + 1]
    IN o % SlotsPerTile >= ReservedSlots[kind]

SlotConflictPossible(e, o) == o % SlotsPerTile = e.offset % SlotsPerTile

\* Mutant: slots are compared in the first period only.
CheckSlotConflict_FirstPeriod(t, e, o) == o = e.offset

CheckSlotConflict(t, e, o) ==
    LET uses(slot, first, period) == /\ slot >= first
                                     /\ (slot - first) % (period * SlotsPerTile) = 0
    IN \E slot \in 0..(Lcm(t.stream.period, e.stream.period) * SlotsPerTile - 1) :
            uses(slot, o, t.stream.period) /\ uses(slot, e.offset, e.stream.period)

ShareSlot(t, e, o) == SlotConflictPossible(e, o) /\ CheckSlotConflict(t, e, o)

CheckUnicityConflict(t, e) == {t.tx, t.rx} \cap {e.tx, e.rx} # {}

\* Where each transmitter would disturb the other's receiver.
CrossLinks(t, e) == {{t.tx, e.rx}, {t.rx, e.tx}}

\* Mutant: only the new transmitter is checked.
CheckInterferenceConflict_OneWay(t, e) ==
    {t.tx, e.rx} \in (IF UseWeakTopologies THEN weakGraph ELSE graph)

CheckInterferenceConflict(t, e) ==
    CrossLinks(t, e) \cap (IF UseWeakTopologies THEN weakGraph ELSE graph) # {}

InConflict(t, e, o) ==
    /\ ShareSlot(t, e, o)
    /\ \/ ~ChannelSpatialReuse
       \/ CheckUnicityConflict(t, e)
       \/ CheckInterferenceConflict(t, e)

CheckAllConflicts(elements, t, o) == \E e \in ToSet(elements) : InConflict(t, e, o)

\* linksCausingInterference: a list without a conflict leaves its links behind even
\* if the other list then refuses the offset.
LinksCausingInterference(elements, t, o) ==
    IF CheckAllConflicts(elements, t, o) \/ ~ChannelSpatialReuse THEN {}
    ELSE UNION {CrossLinks(t, e) : e \in {f \in ToSet(elements) : ShareSlot(t, f, o)}}

UsedLinks(elements) == {{e.tx, e.rx} : e \in ToSet(elements)}
Served(elements) == {e.stream : e \in ToSet(elements)}

-----------------------------------------------------------------------------
Init ==
    /\ graph \in Graphs
    /\ weakGraph = graph
    /\ established = {} /\ accepted = {}
    /\ schedule = EmptySchedule /\ newSchedule = EmptySchedule
    /\ round = "idle"
    /\ todo = {} /\ blocks = <<>> /\ block = Nothing /\ fresh = <<>>
    /\ blockSize = 0 /\ streamErr = FALSE /\ lastOffset = 0
    /\ lastSize = Len(Superframe) /\ newSize = Len(Superframe)
    /\ runs = 0

\* NetworkTopology flags what is lost of the links in use, and what appears of those
\* that would interfere.
ChangeMatters(g, w) ==
    \/ (graph \ g) \cap UsedLinks(schedule.elements) # {}
    \/ IF UseWeakTopologies THEN (w \ weakGraph) \cap schedule.links # {}
       ELSE (g \ graph) \cap schedule.links # {}

\* The snapshots of a run: the topology may have changed, streams were closed and
\* others asked for.  Changes that do not matter may be noticed too.
StartRun(g, w, closed, requested, graphChanged) ==
    /\ round = "idle" /\ runs < MaxRuns
    /\ ChangeMatters(g, w) => graphChanged
    /\ graphChanged \/ closed # {} \/ requested # {}
    /\ runs' = runs + 1
    /\ graph' = g /\ weakGraph' = w
    /\ established' = established \ closed
    /\ accepted' = requested
    /\ newSchedule' = IF graphChanged \/ closed # {} THEN EmptySchedule ELSE schedule
    /\ IF graphChanged \/ closed # {}
       THEN round' = "established" /\ todo' = established'
       ELSE round' = "accepted" /\ todo' = accepted'
    /\ newSize' = newSchedule'.tiles
    /\ UNCHANGED <<schedule, blocks, block, fresh, blockVars>>

\* Established streams in the order of the collection, accepted ones with the highest
\* period first.
HasTurn(s) ==
    \A r \in todo : IF round = "established" THEN s.id <= r.id ELSE s.period >= r.period

RouteStream(s) ==
    /\ block = Nothing /\ blocks = <<>>
    /\ HasTurn(s)
    /\ blocks' = Route(graph, s)
    /\ todo' = todo \ {s}
    /\ UNCHANGED <<networkVars, newSchedule, round, block, fresh, blockVars, newSize, runs>>

StartBlock ==
    /\ block = Nothing /\ blocks # <<>>
    /\ block' = Head(blocks) /\ blocks' = Tail(blocks)
    /\ blockSize' = 0 /\ streamErr' = FALSE /\ lastOffset' = 0
    /\ lastSize' = newSize
    /\ UNCHANGED <<networkVars, newSchedule, round, todo, fresh, newSize, runs>>

Transmission == Head(block)

Connected == {Transmission.tx, Transmission.rx} \in graph

MaxOffset == Transmission.stream.period * SlotsPerTile - 1

\* The offsets tried until one is free, and those that are.
DataSlots == {o \in lastOffset..(MaxOffset - 1) : CheckDataSlot(o)}
FreeOffsets == {o \in DataSlots : /\ ~CheckAllConflicts(newSchedule.elements, Transmission, o)
                                  /\ ~CheckAllConflicts(fresh, Transmission, o)}
TriedOffsets == IF FreeOffsets = {} THEN DataSlots
                ELSE {o \in DataSlots : o <= Min(FreeOffsets)}

\* Mutant: the links shared with the schedule so far are not recorded.
RecordLinks_FreshOnly ==
    newSchedule' = [newSchedule EXCEPT !.links = @ \cup
        UNION {LinksCausingInterference(fresh, Transmission, o) : o \in TriedOffsets}]

RecordLinks ==
    newSchedule' = [newSchedule EXCEPT !.links = @ \cup
        UNION {LinksCausingInterference(newSchedule.elements, Transmission, o)
                \cup LinksCausingInterference(fresh, Transmission, o) : o \in TriedOffsets}]

\* Mutant: last_offset is not set to the slot that was found.
AdvanceFrom_SlotForgotten(o) ==
    /\ lastOffset' = lastOffset + 1
    /\ streamErr' = (streamErr \/ lastOffset' = MaxOffset)
    /\ block' = Tail(block)

\* The next transmission starts one slot later; nothing is left to it at the end of
\* the period.
AdvanceFrom(o) ==
    /\ lastOffset' = o + 1
    /\ streamErr' = (streamErr \/ o + 1 = MaxOffset)
    /\ block' = Tail(block)

\* A transmission with its offset.
ElementAt(t, o) == [stream |-> t.stream, tx |-> t.tx, rx |-> t.rx, offset |-> o]

PlaceTransmission ==
    /\ block # Nothing /\ Connected /\ ~streamErr
    /\ FreeOffsets # {}
    /\ LET o == Min(FreeOffsets)
       IN fresh' = Append(fresh, ElementAt(Transmission, o)) /\ AdvanceFrom(o)
    /\ RecordLinks
    /\ blockSize' = blockSize + 1
    /\ newSize' = Lcm(newSize, Transmission.stream.period)
    /\ UNCHANGED <<networkVars, round, todo, blocks, lastSize, runs>>

\* Without a free offset the transmission is left out, and its block goes on.
SkipTransmission ==
    /\ block # Nothing /\ Connected /\ ~streamErr
    /\ FreeOffsets = {}
    /\ AdvanceFrom(lastOffset)
    /\ RecordLinks
    /\ UNCHANGED <<networkVars, round, todo, blocks, fresh, blockSize, lastSize, newSize, runs>>

\* Mutant: the size is not taken back.
AbandonBlock_KeepsSize ==
    /\ block # Nothing
    /\ Connected => streamErr
    /\ fresh' = SubSeq(fresh, 1, Len(fresh) - blockSize)
    /\ block' = Nothing
    /\ blockSize' = 0 /\ streamErr' = FALSE /\ lastOffset' = 0
    /\ UNCHANGED <<networkVars, newSchedule, round, todo, blocks, lastSize, newSize, runs>>

\* What the block has placed is taken back, and its size with it.
AbandonBlock ==
    /\ block # Nothing
    /\ Connected => streamErr
    /\ fresh' = SubSeq(fresh, 1, Len(fresh) - blockSize)
    /\ newSize' = lastSize
    /\ block' = Nothing
    /\ blockSize' = 0 /\ streamErr' = FALSE /\ lastOffset' = 0
    /\ UNCHANGED <<networkVars, newSchedule, round, todo, blocks, lastSize, runs>>

\* The locals of scheduleStreams() go out of scope.
ClearLocals ==
    /\ fresh' = <<>>
    /\ blockSize' = 0 /\ streamErr' = FALSE /\ lastOffset' = 0
    /\ lastSize' = Len(Superframe)

RoundComplete == todo = {} /\ blocks = <<>> /\ block = Nothing

Result == [newSchedule EXCEPT !.elements = @ \o fresh, !.tiles = newSize]

EndEstablished ==
    /\ round = "established" /\ RoundComplete
    /\ newSchedule' = Result
    /\ round' = "accepted" /\ todo' = accepted
    /\ ClearLocals
    /\ UNCHANGED <<networkVars, blocks, block, newSize, runs>>

\* The run is published only if it establishes a stream or ends one.
EndRun ==
    /\ round = "accepted" /\ RoundComplete
    /\ LET served == Served(Result.elements)
           changes == (accepted \cap served) \cup (established \ served)
       IN /\ schedule' = IF changes = {} THEN schedule ELSE Result
          /\ established' = (established \cup accepted) \cap served
    /\ accepted' = {}
    /\ round' = "idle"
    /\ newSchedule' = EmptySchedule /\ newSize' = Len(Superframe)
    /\ ClearLocals
    /\ UNCHANGED <<graph, weakGraph, todo, blocks, block, runs>>

Next ==
    \/ \E g \in Graphs, w \in Graphs, closed \in SUBSET established, requested \in SUBSET Requests,
          graphChanged \in BOOLEAN :
            /\ g \subseteq w /\ (UseWeakTopologies \/ w = g)
            /\ \A r \in requested, s \in (established \ closed) \cup requested :
                    r.id = s.id => r = s /\ s \notin established \ closed
            /\ StartRun(g, w, closed, requested, graphChanged)
    \/ \E s \in todo : RouteStream(s)
    \/ StartBlock
    \/ PlaceTransmission
    \/ SkipTransmission
    \/ AbandonBlock
    \/ EndEstablished
    \/ EndRun

Spec == Init /\ [][Next]_vars

-----------------------------------------------------------------------------
(***************************************************************************)
(* Properties.                                                             *)
(***************************************************************************)
Transmissions == [stream : Requests, tx : Nodes, rx : Nodes]
IsElement(e) == /\ [stream |-> e.stream, tx |-> e.tx, rx |-> e.rx] \in Transmissions
                /\ e.offset \in Nat /\ e.offset + 1 < e.stream.period * SlotsPerTile
IsSchedule(sched) ==
    /\ \A e \in ToSet(sched.elements) : IsElement(e)
    /\ sched.tiles \in Nat \ {0}
    /\ sched.links \subseteq Links

\* Types; what is placed has an offset inside its period.
TypeOK ==
    /\ graph \in Graphs /\ weakGraph \in Graphs
    /\ established \subseteq Requests /\ accepted \subseteq Requests /\ todo \subseteq Requests
    /\ IsSchedule(schedule) /\ IsSchedule(newSchedule)
    /\ round \in {"idle", "established", "accepted"}
    /\ \A i \in DOMAIN blocks : ToSet(blocks[i]) \subseteq Transmissions
    /\ ToSet(block) \subseteq Transmissions
    /\ \A e \in ToSet(fresh) : IsElement(e)
    /\ blockSize \in 0..Len(fresh) /\ streamErr \in BOOLEAN /\ lastOffset \in Nat
    /\ lastSize \in Nat \ {0} /\ newSize \in Nat \ {0}
    /\ runs \in 0..MaxRuns

\* Two periodic transmissions meet in some slot if and only if their offsets agree
\* modulo what their periods have in common; this is not how the code finds out.
Gcd(a, b) == Max({n \in 1..a : a % n = 0 /\ b % n = 0})
Meet(e, f) == e.offset % (Gcd(e.stream.period, f.stream.period) * SlotsPerTile)
                = f.offset % (Gcd(e.stream.period, f.stream.period) * SlotsPerTile)

InterferenceGraph == IF UseWeakTopologies THEN weakGraph ELSE graph

\* Pairs of a transmission that the run has placed and any other of its schedule.
NewPairs == {p \in (1..Len(fresh)) \X (1..Len(newSchedule.elements \o fresh)) :
                p[2] # Len(newSchedule.elements) + p[1]}
First(p) == fresh[p[1]]
Second(p) == (newSchedule.elements \o fresh)[p[2]]
MeetingPairs == {p \in NewPairs : Meet(First(p), Second(p))}

\* What a run places never meets another transmission of its schedule in any slot of
\* any period, unless the four nodes differ and neither transmitter is heard by the
\* other's receiver.
NewTransmissionsDoNotCollide ==
    \A p \in MeetingPairs :
        /\ ChannelSpatialReuse
        /\ {First(p).tx, First(p).rx} \cap {Second(p).tx, Second(p).rx} = {}
        /\ CrossLinks(First(p), Second(p)) \cap InterferenceGraph = {}

\* Every slot that is shared has its links in linksCausingInterference, which is how
\* the topology knows that the schedule relies on their absence.
SharingIsRecorded ==
    \A p \in MeetingPairs : CrossLinks(First(p), Second(p)) \subseteq newSchedule.links

\* ScheduleComputation takes of an allocation that it uses links of the graph and
\* relies on links that are not in it.
AllocationAsAssumed ==
    /\ UsedLinks(fresh) \subseteq graph
    /\ round # "idle" => (newSchedule.links \ schedule.links) \cap InterferenceGraph = {}

\* A copy is sent hop after hop within a period: the slots of a block increase along
\* the route, also where a block before it was abandoned.
HopsInOrder ==
    LET placed == SubSeq(fresh, Len(fresh) - blockSize + 1, Len(fresh))
    IN \A i \in 1..(blockSize - 1) : /\ placed[i].stream = placed[i + 1].stream
                                     /\ placed[i].offset < placed[i + 1].offset

\* The schedule lasts as long as it takes all its periods and the superframe to come
\* round together, and no longer, whatever was abandoned on the way.
TilesAreExact ==
    round # "idle" =>
        LET periods == {e.stream.period : e \in ToSet(newSchedule.elements \o fresh)}
        IN newSize = Min({n \in 1..newSize : /\ n % Len(Superframe) = 0
                                             /\ \A p \in periods : n % p = 0})

\* "If a transmission cannot be scheduled, undo the whole stream": a stream is in the
\* schedule with all the hops of a route, or not at all.
WholeStreamsOnly ==
    \A s \in Served(schedule.elements) :
        Paths(UsedLinks(SelectSeq(schedule.elements, LAMBDA e : e.stream = s)), s.src, s.dst) # {}

=============================================================================
