------------------------ MODULE ScheduleComputation ------------------------
(***************************************************************************)
(* The master's scheduler thread (scheduler/schedule_computation.{h,cpp})  *)
(* at work between the collection of streams, the network topology and the *)
(* downlink phase of the MAC thread.  The thread waits for the signal that *)
(* the MAC thread gives once per control superframe, decides from the      *)
(* flags of the collection and of the topology whether to reschedule or to *)
(* resend, computes a schedule on snapshots of both while the MAC thread   *)
(* keeps feeding them, and publishes the outcome.                          *)
(*                                                                         *)
(* One step of the thread is one critical section (of sched_mutex,         *)
(* coll_mutex or graph_mutex) or one stretch of purely local computation.  *)
(* Routing and slot allocation are abstracted to their result: every       *)
(* candidate stream gets one of the routes it can have in the graph, or is *)
(* left out because it has no route or finds no free slots.                *)
(***************************************************************************)
EXTENDS StreamCollection, NetworkTopology

CONSTANTS
    Routes,          \* from a stream to the sets of links that it can be routed over
    RekeyingPeriod   \* scheduler activations without activity before a rekeying

ASSUME ComputationAssumption ==
    /\ Routes \in [Streams -> SUBSET (SUBSET Links)]
    /\ RekeyingPeriod \in Nat

VARIABLES
    thread,              \* control state of ScheduleComputation::run()
    forceReschedule, forceResend,
    streamSnapshot,      \* StreamSnapshot: the collection and the flags
    networkGraph, weakSnapshot,
    graphChanged,
    newSchedule,         \* local of reschedule()
    schedule,            \* the latest schedule
    scheduleNotApplied,  \* a schedule waits to be sent, or is being sent
    rekeyingCtr,
    downlinkStatus,      \* of MasterScheduleDownlinkPhase, on the MAC thread
    downlinkSchedule     \* its copy of the schedule

localVars == <<forceReschedule, forceResend, streamSnapshot, networkGraph, weakSnapshot,
               graphChanged, newSchedule, rekeyingCtr>>
downlinkVars == <<downlinkStatus, downlinkSchedule>>
vars == <<collectionVars, topologyVars, thread, localVars, schedule, scheduleNotApplied,
          downlinkVars>>

-----------------------------------------------------------------------------
ThreadStates ==
    {"start", "wait", "waitApplied", "recheck", "checkTopology", "getOperation",
     "getSnapshot", "getGraph", "prune", "compute", "applyChanges", "publishLinks",
     "swap", "notChanged", "resend"}

\* The schedule elements of one stream, as far as this module tells them
\* apart: whom they serve, with which parameters, over which links.
Blocks == [stream : Streams, params : StreamParameters, links : SUBSET Links]

Schedules == [id : Nat, blocks : SUBSET Blocks, interference : SUBSET Links]

EmptySchedule == [id |-> 0, blocks |-> {}, interference |-> {}]

NoSnapshot == [collection |-> [id \in Ids |-> NoEntry], removed |-> FALSE, added |-> FALSE]

Snapshots == [collection : [Ids -> MasterStreamInfo \cup {NoEntry}],
              removed : BOOLEAN, added : BOOLEAN]

ScheduledStreams(sched) == {b.stream : b \in sched.blocks}

\* computeUsedLinks()
UsedLinks(sched) == UNION {b.links : b \in sched.blocks}

SchedulerTypeOK ==
    /\ thread \in ThreadStates
    /\ forceReschedule \in BOOLEAN
    /\ forceResend \in BOOLEAN
    /\ streamSnapshot \in Snapshots
    /\ networkGraph \subseteq Links
    /\ weakSnapshot \subseteq Links
    /\ graphChanged \in BOOLEAN
    /\ newSchedule \in Schedules
    /\ schedule \in Schedules
    /\ scheduleNotApplied \in BOOLEAN
    /\ rekeyingCtr \in Nat
    /\ downlinkStatus \in {"APPLIED_SCHEDULE", "SENDING_SCHEDULE"}
    /\ downlinkSchedule \in Schedules

TypeOK == CollectionTypeOK /\ TopologyTypeOK /\ SchedulerTypeOK

Init ==
    /\ CollectionInit
    /\ TopologyInit
    /\ thread = "start"
    /\ forceReschedule = FALSE
    /\ forceResend = FALSE
    /\ streamSnapshot = NoSnapshot
    /\ networkGraph = {}
    /\ weakSnapshot = {}
    /\ graphChanged = FALSE
    /\ newSchedule = EmptySchedule
    /\ schedule = EmptySchedule
    /\ scheduleNotApplied = FALSE
    /\ rekeyingCtr = 0
    /\ downlinkStatus = "APPLIED_SCHEDULE"
    /\ downlinkSchedule = EmptySchedule

-----------------------------------------------------------------------------
(***************************************************************************)
(* The scheduler thread: waiting and deciding, run().                      *)
(***************************************************************************)
\* Mutant: the thread does not wait until the schedule has been applied.
StartIteration_OneWait ==
    /\ thread = "start"
    /\ thread' = "wait"
    /\ UNCHANGED <<collectionVars, topologyVars, localVars, schedule,
                   scheduleNotApplied, downlinkVars>>

\* The top of the loop, under sched_mutex: one wait if nothing is being sent,
\* otherwise waiting until the MAC thread has applied the schedule.
StartIteration ==
    /\ thread = "start"
    /\ thread' = IF scheduleNotApplied THEN "waitApplied" ELSE "wait"
    /\ UNCHANGED <<collectionVars, topologyVars, localVars, schedule,
                   scheduleNotApplied, downlinkVars>>

\* The condition of the while loop, evaluated again after a wake-up.
Recheck ==
    /\ thread = "recheck"
    /\ thread' = IF scheduleNotApplied THEN "waitApplied" ELSE "checkTopology"
    /\ UNCHANGED <<collectionVars, topologyVars, localVars, schedule,
                   scheduleNotApplied, downlinkVars>>

CheckTopology ==
    /\ thread = "checkTopology"
    /\ forceReschedule' = topologyModified
    /\ thread' = "getOperation"
    /\ UNCHANGED <<collectionVars, topologyVars, forceResend, streamSnapshot, networkGraph,
                   weakSnapshot, graphChanged, newSchedule, rekeyingCtr, schedule,
                   scheduleNotApplied, downlinkVars>>

\* getOperation() and the rekeying counter: an iteration with nothing to do is
\* counted, and when enough have passed the schedule is resent to carry a new
\* key.
GetOperation ==
    LET idle == ~(forceReschedule \/ modified_flag \/ resend_flag)
        rekey == idle /\ rekeyingCtr + 1 >= RekeyingPeriod
    IN
    /\ thread = "getOperation"
    /\ ConsumeOperation
    /\ forceReschedule' = (forceReschedule \/ modified_flag)
    /\ forceResend' = (resend_flag \/ rekey)
    /\ rekeyingCtr' = IF idle /\ ~rekey THEN rekeyingCtr + 1 ELSE 0
    /\ thread' = IF forceReschedule' THEN "getSnapshot"
                 ELSE IF forceResend' THEN "resend" ELSE "start"
    /\ UNCHANGED <<topologyVars, streamSnapshot, networkGraph, weakSnapshot, graphChanged,
                   newSchedule, schedule, scheduleNotApplied, downlinkVars>>

Resend ==
    /\ thread = "resend"
    /\ scheduleNotApplied' = TRUE
    /\ thread' = "start"
    /\ UNCHANGED <<collectionVars, topologyVars, localVars, schedule, downlinkVars>>

-----------------------------------------------------------------------------
(***************************************************************************)
(* The scheduler thread: computing a schedule, reschedule().               *)
(***************************************************************************)
GetSnapshot ==
    /\ thread = "getSnapshot"
    /\ streamSnapshot' = [collection |-> collection, removed |-> removed_flag,
                          added |-> added_flag]
    /\ ClearFlags
    /\ thread' = "getGraph"
    /\ UNCHANGED <<topologyVars, forceReschedule, forceResend, networkGraph, weakSnapshot,
                   graphChanged, newSchedule, rekeyingCtr, schedule, scheduleNotApplied,
                   downlinkVars>>

GetGraph ==
    /\ thread = "getGraph"
    /\ StartScheduling
    /\ networkGraph' = graph
    /\ weakSnapshot' = weakGraph
    /\ graphChanged' = topologyModified
    /\ thread' = IF possiblyNotConnected THEN "prune" ELSE "compute"
    /\ UNCHANGED <<collectionVars, forceReschedule, forceResend, streamSnapshot,
                   newSchedule, rekeyingCtr, schedule, scheduleNotApplied, downlinkVars>>

\* Links to nodes that the master cannot reach are dropped from the copy and,
\* if the topology has not been flagged since, from the original.
PruneGraph ==
    LET pruned == Prune(networkGraph) IN
    /\ thread = "prune"
    /\ IF pruned = networkGraph THEN UNCHANGED topologyVars ELSE WriteBack(pruned)
    /\ networkGraph' = pruned
    /\ thread' = "compute"
    /\ UNCHANGED <<collectionVars, forceReschedule, forceResend, streamSnapshot,
                   weakSnapshot, graphChanged, newSchedule, rekeyingCtr, schedule,
                   scheduleNotApplied, downlinkVars>>

WithStatus(status) == {s \in Streams : streamSnapshot.collection[s].status = status}

\* The results that routing and scheduling a set of streams can have.
Routings(candidates) ==
    {{[stream |-> s, params |-> streamSnapshot.collection[s].params, links |-> route[s]] :
        s \in DOMAIN route} :
     route \in UNION {{r \in [served -> SUBSET networkGraph] :
                           \A s \in served : r[s] \in Routes[s]} :
                      served \in SUBSET candidates}}

\* The scheduler's copy of the graph on which interference is judged.
CopiedInterferenceGraph == IF UseWeakTopologies THEN weakSnapshot ELSE networkGraph

\* Links that are absent now but would make two transmissions that share a
\* slot interfere.
InterferingLinks ==
    IF ~ChannelSpatialReuse THEN {{}}
    ELSE SUBSET (Links \ CopiedInterferenceGraph)

\* A changed graph or a removed stream makes the thread reschedule the
\* established streams from scratch; otherwise the last schedule is extended.
\* Accepted streams come after the established ones.
ComputeSchedule ==
    LET rebuild == graphChanged \/ streamSnapshot.removed
        bases == IF rebuild THEN Routings(WithStatus("ESTABLISHED")) ELSE {schedule.blocks}
        extras == IF streamSnapshot.added THEN Routings(WithStatus("ACCEPTED")) ELSE {{}}
        kept == IF rebuild THEN {} ELSE schedule.interference
    IN
    /\ thread = "compute"
    /\ \E base \in bases, extra \in extras, interference \in InterferingLinks :
         newSchedule' = [id |-> schedule.id + 1, blocks |-> base \cup extra,
                         interference |-> kept \cup interference]
    /\ thread' = IF rebuild \/ streamSnapshot.added THEN "applyChanges" ELSE "notChanged"
    /\ UNCHANGED <<collectionVars, topologyVars, forceReschedule, forceResend,
                   streamSnapshot, networkGraph, weakSnapshot, graphChanged, rekeyingCtr,
                   schedule, scheduleNotApplied, downlinkVars>>

Changes == StreamChanges(streamSnapshot.collection, ScheduledStreams(newSchedule))

\* Mutant: new streams do not count as a change of the schedule.
ApplyStreamChanges_ClosesOnly ==
    /\ thread = "applyChanges"
    /\ ApplyChanges(Changes)
    /\ thread' = IF \E s \in Streams : Changes[s] = "CLOSE"
                 THEN "publishLinks" ELSE "notChanged"
    /\ UNCHANGED <<topologyVars, localVars, schedule, scheduleNotApplied, downlinkVars>>

\* If the changes are all rejections the new schedule is thrown away.
ApplyStreamChanges ==
    /\ thread = "applyChanges"
    /\ ApplyChanges(Changes)
    /\ thread' = IF \E s \in Streams : Changes[s] \in {"ESTABLISH", "CLOSE"}
                 THEN "publishLinks" ELSE "notChanged"
    /\ UNCHANGED <<topologyVars, localVars, schedule, scheduleNotApplied, downlinkVars>>

PublishLinks ==
    /\ thread = "publishLinks"
    /\ ScheduleChanged(UsedLinks(newSchedule), newSchedule.interference)
    /\ thread' = "swap"
    /\ UNCHANGED <<collectionVars, localVars, schedule, scheduleNotApplied, downlinkVars>>

\* The locals go out of scope and the snapshots are not read again before they
\* are taken anew.
ForgetSnapshots ==
    /\ streamSnapshot' = NoSnapshot
    /\ networkGraph' = {}
    /\ weakSnapshot' = {}
    /\ graphChanged' = FALSE
    /\ newSchedule' = EmptySchedule
    /\ UNCHANGED <<forceReschedule, forceResend, rekeyingCtr>>

SwapSchedule ==
    /\ thread = "swap"
    /\ schedule' = newSchedule
    /\ scheduleNotApplied' = TRUE
    /\ ForgetSnapshots
    /\ thread' = "start"
    /\ UNCHANGED <<collectionVars, topologyVars, downlinkVars>>

NotChanged ==
    /\ thread = "notChanged"
    /\ ScheduleNotChanged
    /\ ForgetSnapshots
    /\ thread' = IF forceResend THEN "resend" ELSE "start"
    /\ UNCHANGED <<collectionVars, schedule, scheduleNotApplied, downlinkVars>>

-----------------------------------------------------------------------------
(***************************************************************************)
(* The MAC thread.                                                         *)
(***************************************************************************)
\* beginScheduling() signals the condition variable; the signal is lost if the
\* scheduler is not waiting.
BeginScheduling ==
    /\ thread \in {"wait", "waitApplied"}
    /\ thread' = IF thread = "wait" THEN "checkTopology" ELSE "recheck"
    /\ UNCHANGED <<collectionVars, topologyVars, localVars, schedule,
                   scheduleNotApplied, downlinkVars>>

\* The downlink phase picks up a schedule to distribute ...
GetSchedule ==
    /\ downlinkStatus = "APPLIED_SCHEDULE"
    /\ scheduleNotApplied
    /\ downlinkSchedule' = schedule
    /\ downlinkStatus' = "SENDING_SCHEDULE"
    /\ UNCHANGED <<collectionVars, topologyVars, thread, localVars, schedule,
                   scheduleNotApplied>>

\* ... and reports when all rounds are sent and the schedule is active.
ScheduleSentAndApplied ==
    /\ downlinkStatus = "SENDING_SCHEDULE"
    /\ downlinkStatus' = "APPLIED_SCHEDULE"
    /\ scheduleNotApplied' = FALSE
    /\ UNCHANGED <<collectionVars, topologyVars, thread, localVars, schedule,
                   downlinkSchedule>>

SchedulerUnchanged ==
    UNCHANGED <<thread, localVars, schedule, scheduleNotApplied, downlinkVars>>

HandleSME == ReceiveSME /\ UNCHANGED topologyVars /\ SchedulerUnchanged

SendInfo == DequeueInfo /\ UNCHANGED topologyVars /\ SchedulerUnchanged

\* A node's strong neighbors are among its weak ones.
HandleTopology ==
    /\ \E src \in Nodes, strong, weak \in SUBSET Nodes :
         /\ strong \subseteq weak
         /\ UseWeakTopologies \/ weak = strong
         /\ ReceiveTopology(src, strong, weak)
    /\ UNCHANGED collectionVars
    /\ SchedulerUnchanged

-----------------------------------------------------------------------------
SchedulerStep ==
    \/ StartIteration \/ Recheck \/ CheckTopology \/ GetOperation \/ Resend
    \/ GetSnapshot \/ GetGraph \/ PruneGraph \/ ComputeSchedule \/ ApplyStreamChanges
    \/ PublishLinks \/ SwapSchedule \/ NotChanged

DownlinkStep == GetSchedule \/ ScheduleSentAndApplied

Next ==
    \/ SchedulerStep
    \/ BeginScheduling
    \/ DownlinkStep
    \/ HandleSME
    \/ SendInfo
    \/ HandleTopology

Spec == Init /\ [][Next]_vars

\* The scheduler thread is scheduled by the operating system whenever it can
\* run; the MAC thread signals it once per control superframe and takes every
\* pending schedule through its rounds.
FairSpec ==
    /\ Spec
    /\ WF_vars(SchedulerStep)
    /\ WF_vars(BeginScheduling)
    /\ WF_vars(DownlinkStep)

-----------------------------------------------------------------------------
(***************************************************************************)
(* Safety.                                                                 *)
(***************************************************************************)
\* The schedule that the collection describes: "if a schedule is being
\* distributed, the status corresponds to the next schedule"
\* (stream_collection.h), and between applyChanges() and the swap that is the
\* schedule about to be published.
ScheduleToBe == IF thread \in {"publishLinks", "swap"} THEN newSchedule ELSE schedule

\* A stream that the master reports as established has slots in the schedule,
\* whatever SMEs arrived while the scheduler was computing on its snapshot.
EstablishedScheduled ==
    \A s \in Streams :
        collection[s].status = "ESTABLISHED" => s \in ScheduledStreams(ScheduleToBe)

\* An accepted stream is never forgotten: either the flags announce it to the
\* scheduler's next iteration or the run in progress has it in its snapshot.
NoLostRequest ==
    \A s \in Streams : collection[s].status = "ACCEPTED" =>
        \/ added_flag /\ modified_flag
        \/ /\ thread \in {"getGraph", "prune", "compute", "applyChanges"}
           /\ streamSnapshot.added
           /\ streamSnapshot.collection[s].status = "ACCEPTED"

\* The schedule is not replaced while the downlink phase distributes it: what
\* the nodes are going to apply is what the scheduler will build on.
DistributedIsCurrent ==
    downlinkStatus = "SENDING_SCHEDULE" => scheduleNotApplied /\ downlinkSchedule = schedule

\* The links that a topology change is compared with are those of the schedule
\* in force, and a change is set aside only while a run is going to look at it.
RelianceCurrent ==
    /\ thread # "swap" => usedLinks = UsedLinks(schedule)
    /\ removedWhileScheduling # {} => scheduleInProgress
    /\ scheduleInProgress =>
         thread \in {"prune", "compute", "applyChanges", "publishLinks", "notChanged"}

\* A new route is watched from the start: if one of its links went away while
\* the scheduler was computing, the topology is flagged when the schedule is
\* published.
NewRoutesWatched ==
    thread = "swap" => \A b \in newSchedule.blocks \ schedule.blocks :
                            b.links \subseteq graph \/ topologyModified

\* The graph on which interference is judged.
InterferenceGraph == IF UseWeakTopologies THEN weakGraph ELSE graph

\* So are the links whose absence lets transmissions share a slot.
NewConflictsWatched ==
    thread = "swap" =>
        \/ (newSchedule.interference \ schedule.interference) \cap InterferenceGraph = {}
        \/ topologyModified

(***************************************************************************)
(* The inductive invariant: what holds between the steps of a run and keeps *)
(* the properties above true.                                              *)
(***************************************************************************)
\* The snapshot of a run knows every stream that is established: SMEs cannot
\* establish one behind the scheduler's back.
SnapshotCovers ==
    thread \in {"getGraph", "prune", "compute", "applyChanges"} =>
        \A s \in Streams : collection[s].status = "ESTABLISHED" =>
                            streamSnapshot.collection[s].status = "ESTABLISHED"

\* A run of the scheduler never overlaps the distribution of its last result.
WaitsUntilApplied ==
    scheduleNotApplied => thread \in {"start", "waitApplied", "recheck"}

PublishedLinks ==
    thread = "swap" => /\ usedLinks = UsedLinks(newSchedule)
                       /\ newLinksCausingReschedule = newSchedule.interference

\* While a run is computing, changes of the topology are set aside.
SetsAside ==
    /\ thread \in {"prune", "compute", "applyChanges", "publishLinks"} => scheduleInProgress
    /\ thread = "prune" => ~topologyModified

\* What the run works with is in the graph or has been set aside as removed ...
CopyWatched ==
    /\ thread \in {"prune", "compute"} =>
         networkGraph \subseteq graph \cup removedWhileScheduling
    /\ thread \in {"applyChanges", "publishLinks"} =>
         \A b \in newSchedule.blocks \ schedule.blocks :
             b.links \subseteq graph \cup removedWhileScheduling

\* ... and what it takes to be absent is absent or has been set aside as added.
AbsenceWatched ==
    /\ ChannelSpatialReuse /\ thread \in {"prune", "compute"} =>
         InterferenceGraph \subseteq CopiedInterferenceGraph \cup addedWhileScheduling
    /\ thread \in {"applyChanges", "publishLinks"} =>
         (newSchedule.interference \ schedule.interference) \cap InterferenceGraph
            \subseteq addedWhileScheduling
    /\ ~ChannelSpatialReuse /\ thread \in {"applyChanges", "publishLinks", "swap"} =>
         newSchedule.interference \subseteq schedule.interference

IndInv ==
    /\ TypeOK
    /\ SnapshotCovers /\ EstablishedScheduled
    /\ NoLostRequest
    /\ WaitsUntilApplied /\ DistributedIsCurrent
    /\ PublishedLinks /\ RelianceCurrent
    /\ SetsAside
    /\ CopyWatched /\ NewRoutesWatched
    /\ AbsenceWatched /\ NewConflictsWatched

(***************************************************************************)
(* Liveness.                                                               *)
(***************************************************************************)
\* A request that the master accepted is established, rejected or withdrawn.
AcceptedResolved ==
    \A s \in Streams :
        collection[s].status = "ACCEPTED" ~> collection[s].status # "ACCEPTED"

\* An established stream gets into the schedule that the nodes apply.
EstablishedDistributed ==
    \A s \in Streams :
        collection[s].status = "ESTABLISHED" ~>
            \/ s \in ScheduledStreams(downlinkSchedule)
            \/ collection[s].status # "ESTABLISHED"

(***************************************************************************)
(* The scheduler implements the service that StreamService specifies.      *)
(***************************************************************************)
ServiceStatus ==
    [s \in Streams |-> CASE collection[s].status = "ACCEPTED" -> "requested"
                         [] collection[s].status = "ESTABLISHED" -> "granted"
                         [] OTHER -> "closed"]

Service == INSTANCE StreamService WITH
    status <- ServiceStatus,
    plan <- ScheduledStreams(ScheduleToBe),
    distributing <- scheduleNotApplied

\* A run that works on snapshots for a long time amounts to one decision on the
\* streams as they are when it is applied: nothing is granted that was withdrawn
\* meanwhile, granted streams and plan change together, and never while the
\* last plan is being distributed.
ServiceImplemented == Service!Spec

(***************************************************************************)
(* What the comments of the code promise and the code does not keep.       *)
(***************************************************************************)
\* "If topology changed or a stream was removed: clear current schedule and
\* reschedule established streams": once the removal has been dealt with, the
\* schedule serves established streams only.
RemovedStreamsLeaveSchedule ==
    thread = "wait" /\ ~removed_flag =>
        \A s \in ScheduledStreams(schedule) : collection[s].status = "ESTABLISHED"

=============================================================================
