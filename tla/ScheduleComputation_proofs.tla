--------------------- MODULE ScheduleComputation_proofs ---------------------
(***************************************************************************)
(* Proofs about the scheduler of the master, for any number of streams,    *)
(* servers and nodes, any routes, and any number of SMEs and topology      *)
(* elements.                                                               *)
(***************************************************************************)
EXTENDS ScheduleComputation, FiniteSetTheorems, SequenceTheorems, TLAPS

-----------------------------------------------------------------------------
(***************************************************************************)
(* Queues.                                                                 *)
(***************************************************************************)
\* A function on 1 .. n is a sequence.
LEMMA FunctionIsSeq ==
    ASSUME NEW T, NEW n \in Nat, NEW f \in [1 .. n -> T]
    PROVE  f \in Seq(T)
  OBVIOUS

\* Replacing values leaves a queue of the same keys and values.
LEMMA ReplaceType ==
    ASSUME NEW Key, NEW Val, NEW q \in Seq([key : Key, val : Val]), NEW K, NEW v \in Val
    PROVE  Replace(q, K, v) \in Seq([key : Key, val : Val])
  <1> DEFINE Elements == [key : Key, val : Val]
  <1>1. q \in Seq(Elements)
    OBVIOUS
  <1>2. \A i \in DOMAIN q : q[i] \in Elements
    <2> HIDE DEF Elements
    <2> QED BY <1>1, ElementOfSeq
  <1>3. \A i \in DOMAIN q : [q[i] EXCEPT !.val = v] \in Elements
    BY <1>2
  <1>4. DOMAIN q = 1 .. Len(q) /\ Len(q) \in Nat
    OBVIOUS
  <1>5. Replace(q, K, v) \in [1 .. Len(q) -> Elements]
    BY <1>2, <1>3, <1>4 DEF Replace
  <1> QED
    BY <1>4, <1>5, FunctionIsSeq

\* So does enqueueing a value (UpdatableQueue::enqueue).
LEMMA EnqueueType ==
    ASSUME NEW Key, NEW Val, NEW q \in Seq([key : Key, val : Val]),
           NEW k \in Key, NEW v \in Val
    PROVE  Enqueue(q, k, v) \in Seq([key : Key, val : Val])
  <1>1. Replace(q, {k}, v) \in Seq([key : Key, val : Val])
    BY ReplaceType
  <1> DEFINE Elements == [key : Key, val : Val]
             e == [key |-> k, val |-> v]
  <1>2. q \in Seq(Elements) /\ e \in Elements
    OBVIOUS
  <1> HIDE DEF Elements, e
  <1>3. Append(q, e) \in Seq(Elements)
    BY <1>2
  <1> QED
    BY <1>1, <1>3 DEF Enqueue, Elements, e

\* And enqueueing it for several keys.
LEMMA EnqueueAllType ==
    ASSUME NEW Key, NEW Val, NEW q \in Seq([key : Key, val : Val]), NEW K,
           NEW S \in SUBSET Key, IsFiniteSet(S), NEW order \in Orders(S), NEW v \in Val
    PROVE  EnqueueAll(q, K, order, v) \in Seq([key : Key, val : Val])
  <1>1. Replace(q, K, v) \in Seq([key : Key, val : Val])
    BY ReplaceType
  <1>2. Cardinality(S) \in Nat
    BY FS_CardinalityType
  <1>3. order \in [1 .. Cardinality(S) -> S]
    BY DEF Orders
  <1> DEFINE tail == [i \in DOMAIN order |-> [key |-> order[i], val |-> v]]
  <1>4. tail \in [1 .. Cardinality(S) -> [key : Key, val : Val]]
    BY <1>3
  <1>5. tail \in Seq([key : Key, val : Val])
    BY <1>2, <1>4, FunctionIsSeq
  <1> HIDE DEF tail
  <1>6. Replace(q, K, v) \o tail \in Seq([key : Key, val : Val])
    BY <1>1, <1>5
  <1> QED
    BY <1>6 DEF EnqueueAll, tail

\* Dequeueing a prefix leaves a queue of the same elements.
LEMMA DequeueType ==
    ASSUME NEW T, NEW q \in Seq(T), NEW n \in 1 .. Len(q)
    PROVE  Dequeue(q, n) \in Seq(T)
  BY DEF Dequeue


-----------------------------------------------------------------------------
(***************************************************************************)
(* Type correctness, one lemma for each component.                         *)
(***************************************************************************)
\* The parameters agreed on by two nodes are parameters.
LEMMA NegotiateType ==
    ASSUME NEW p \in StreamParameters, NEW q \in StreamParameters
    PROVE  NegotiateParameters(p, q) \in StreamParameters
  BY DEF NegotiateParameters, StreamParameters, Lower, Higher

\* An entry has the type of the collection's values.
LEMMA EntryType ==
    ASSUME NEW status \in {"ACCEPTED", "ESTABLISHED", "LISTEN"}, NEW p \in StreamParameters
    PROVE  Entry(status, p) \in MasterStreamInfo
  BY DEF Entry, MasterStreamInfo

\* Enqueueing an info element leaves a queue of info elements.
LEMMA EnqueueInfoType ==
    ASSUME infoQueue \in Seq(InfoElements), NEW id \in Ids,
           NEW v \in {"SERVER_OPENED", "SERVER_CLOSED", "STREAM_REJECT"}
    PROVE  Enqueue(infoQueue, id, v) \in Seq(InfoElements)
  BY EnqueueType DEF InfoElements

\* Receiving an SME preserves the types of the collection.
LEMMA ReceiveType == CollectionTypeOK /\ ReceiveSME => CollectionTypeOK'
  <1> SUFFICES ASSUME CollectionTypeOK, ReceiveSME
               PROVE  CollectionTypeOK'
    OBVIOUS
  <1> USE CollectionAssumption
  <1>1. smesReceived' \in Nat
    BY DEF CollectionTypeOK, ReceiveSME
  <1>2. PICK sme \in SMEs :
         \/ /\ sme.type = "RESEND_SCHEDULE"
            /\ resend_flag' = TRUE
            /\ UNCHANGED <<collection, infoQueue, modified_flag, removed_flag, added_flag>>
         \/ /\ sme.type # "RESEND_SCHEDULE"
            /\ sme.id \in Streams
            /\ UpdateStream(sme) \/ CreateStream(sme)
         \/ /\ sme.type # "RESEND_SCHEDULE"
            /\ sme.id \in Servers
            /\ UpdateOrCreateServer(sme)
    BY DEF ReceiveSME
  <1>3. CASE sme.type = "RESEND_SCHEDULE"
    BY <1>1, <1>2, <1>3 DEF CollectionTypeOK
  <1>4. CASE sme.id \in Streams /\ UpdateStream(sme)
    BY <1>1, <1>4 DEF CollectionTypeOK, UpdateStream
  <1>5. CASE sme.id \in Streams /\ CreateStream(sme)
    <2> DEFINE server == collection[ServerOf[sme.id]]
    <2>1. sme.id \in Ids /\ ServerOf[sme.id] \in Ids
      BY <1>5 DEF Ids
    <2>2. infoQueue' \in Seq(InfoElements)
      BY <1>5, <2>1, EnqueueInfoType DEF CollectionTypeOK, CreateStream
    <2>3. CASE sme.type = "CONNECT" /\ server # NoEntry
      <3>1. sme.params \in StreamParameters
        BY <2>3 DEF SMEs
      <3>2. server.params \in StreamParameters
        BY <2>1, <2>3 DEF CollectionTypeOK, MasterStreamInfo
      <3>3. Entry("ACCEPTED", NegotiateParameters(server.params, sme.params))
              \in MasterStreamInfo
        BY <3>1, <3>2, NegotiateType, EntryType
      <3>4. collection' \in [Ids -> MasterStreamInfo \cup {NoEntry}]
        BY <1>5, <2>1, <3>3 DEF CollectionTypeOK, CreateStream
      <3> QED
        BY <1>1, <1>5, <2>2, <3>4 DEF CollectionTypeOK, CreateStream
    <2>4. CASE ~(sme.type = "CONNECT" /\ server # NoEntry)
      <3>1. collection' = collection
        BY <1>5, <2>4 DEF CreateStream
      <3> QED
        BY <1>1, <1>5, <2>2, <3>1 DEF CollectionTypeOK, CreateStream
    <2> QED
      BY <2>3, <2>4
  <1>6. CASE sme.id \in Servers /\ UpdateOrCreateServer(sme)
    <2>1. sme.id \in Ids
      BY <1>6 DEF Ids
    <2>2. infoQueue' \in Seq(InfoElements)
      BY <1>6, <2>1, EnqueueInfoType DEF CollectionTypeOK, UpdateOrCreateServer
    <2>3. sme.type = "LISTEN" => Entry("LISTEN", sme.params) \in MasterStreamInfo
      BY EntryType DEF SMEs
    <2>4. collection' \in [Ids -> MasterStreamInfo \cup {NoEntry}]
      BY <1>6, <2>1, <2>3 DEF CollectionTypeOK, UpdateOrCreateServer
    <2> QED
      BY <1>1, <1>6, <2>2, <2>4 DEF CollectionTypeOK, UpdateOrCreateServer, flagVars
  <1> QED
    BY <1>2, <1>3, <1>4, <1>5, <1>6

\* So does dequeueing info elements.
LEMMA DequeueInfoType == CollectionTypeOK /\ DequeueInfo => CollectionTypeOK'
  <1> SUFFICES ASSUME CollectionTypeOK, DequeueInfo
               PROVE  CollectionTypeOK'
    OBVIOUS
  <1>1. infoQueue' \in Seq(InfoElements)
    BY DequeueType DEF CollectionTypeOK, DequeueInfo
  <1> QED
    BY <1>1 DEF CollectionTypeOK, DequeueInfo, flagVars

\* And applying changes to the streams.
LEMMA ApplyChangesType ==
    ASSUME NEW changes, CollectionTypeOK, ApplyChanges(changes)
    PROVE  CollectionTypeOK'
  <1> USE CollectionAssumption
  <1> DEFINE applied == {s \in Streams : Applicable(s, changes[s])}
             rejected == {s \in applied : changes[s] = "REJECT"}
             fresh == {s \in rejected : ~Waiting(infoQueue, s)}
  <1>1. \A s \in applied : s \in Ids /\ collection[s].status # "NOEXIST"
    BY DEF Applicable, Ids
  <1>2. \A s \in applied : collection[s] \in MasterStreamInfo
    BY <1>1 DEF CollectionTypeOK, NoEntry
  <1>3. \A s \in applied : Entry("ESTABLISHED", collection[s].params) \in MasterStreamInfo
    BY <1>2, EntryType DEF MasterStreamInfo
  <1>4. collection' \in [Ids -> MasterStreamInfo \cup {NoEntry}]
    BY <1>3 DEF CollectionTypeOK, ApplyChanges
  <1>5. IsFiniteSet(fresh) /\ fresh \in SUBSET Ids
    BY FS_Subset DEF Ids
  <1>6. PICK order \in Orders(fresh) :
          infoQueue' = EnqueueAll(infoQueue, rejected, order, "STREAM_REJECT")
    BY DEF ApplyChanges
  <1> HIDE DEF fresh, rejected
  <1>7. infoQueue' \in Seq(InfoElements)
    BY <1>5, <1>6, EnqueueAllType DEF CollectionTypeOK, InfoElements
  <1> QED
    BY <1>4, <1>7 DEF CollectionTypeOK, ApplyChanges, flagVars

\* The topology reported by a node preserves the types of the graphs.
LEMMA ReceiveTopologyType ==
    ASSUME TopologyTypeOK, NEW src \in Nodes,
           NEW strong \in SUBSET Nodes, NEW weak \in SUBSET Nodes,
           ReceiveTopology(src, strong, weak)
    PROVE  TopologyTypeOK'
  <1> USE TopologyAssumption
  <1>1. LinksOf(src, strong) \subseteq Links /\ LinksOf(src, weak) \subseteq Links
    BY DEF LinksOf, Links
  <1>2. Touching(src) \subseteq Links
    BY DEF Touching
  <1>3. graph' \subseteq Links /\ weakGraph' \subseteq Links
    BY <1>1, <1>2 DEF TopologyTypeOK, ReceiveTopology
  <1>4. removedWhileScheduling' \subseteq Links
    BY <1>1, <1>2 DEF TopologyTypeOK, ReceiveTopology, pendingVars
  <1>5. addedWhileScheduling' \subseteq Links
    <2>1. ASSUME UseWeakTopologies
          PROVE  addedWhileScheduling' \subseteq Links
      BY <1>1, <2>1 DEF TopologyTypeOK, ReceiveTopology, pendingVars
    <2>2. ASSUME ~UseWeakTopologies
          PROVE  addedWhileScheduling' \subseteq Links
      BY <1>1, <2>2 DEF TopologyTypeOK, ReceiveTopology, pendingVars
    <2> QED
      BY <2>1, <2>2
  <1>6. possiblyNotConnected' \in BOOLEAN /\ topologyModified' \in BOOLEAN
    BY DEF TopologyTypeOK, ReceiveTopology
  <1>7. topologiesReceived' \in Nat
    BY DEF TopologyTypeOK, ReceiveTopology
  <1> QED
    BY <1>3, <1>4, <1>5, <1>6, <1>7 DEF TopologyTypeOK, ReceiveTopology, relianceVars

\* Pruning takes links away.
LEMMA PruneSubset == ASSUME NEW g PROVE Prune(g) \subseteq g
  BY DEF Prune

\* So do the operations of the scheduler.
LEMMA StartSchedulingType == TopologyTypeOK /\ StartScheduling => TopologyTypeOK'
  BY DEF TopologyTypeOK, StartScheduling, relianceVars, pendingVars

LEMMA WriteBackType ==
    ASSUME TopologyTypeOK, NEW pruned \in SUBSET Links, WriteBack(pruned)
    PROVE  TopologyTypeOK'
  BY DEF TopologyTypeOK, WriteBack, relianceVars, pendingVars

LEMMA ScheduleNotChangedType == TopologyTypeOK /\ ScheduleNotChanged => TopologyTypeOK'
  BY DEF TopologyTypeOK, ScheduleNotChanged, DelayedChangesChecks, relianceVars

LEMMA ScheduleChangedType ==
    ASSUME TopologyTypeOK, NEW used \in SUBSET Links, NEW newLinks \in SUBSET Links,
           ScheduleChanged(used, newLinks)
    PROVE  TopologyTypeOK'
  BY DEF TopologyTypeOK, ScheduleChanged, DelayedChangesChecks

\* Steps that leave a component alone preserve its types.
LEMMA CollectionStutter == CollectionTypeOK /\ UNCHANGED collectionVars => CollectionTypeOK'
  BY DEF CollectionTypeOK, collectionVars, flagVars

LEMMA TopologyStutter == TopologyTypeOK /\ UNCHANGED topologyVars => TopologyTypeOK'
  BY DEF TopologyTypeOK, topologyVars, relianceVars, pendingVars

LEMMA SchedulerStutter ==
    SchedulerTypeOK /\ UNCHANGED <<thread, localVars, schedule, scheduleNotApplied, downlinkVars>>
        => SchedulerTypeOK'
  BY DEF SchedulerTypeOK, localVars, downlinkVars

\* Routing gives every stream that it serves a block over links of the graph.
LEMMA RoutingsType ==
    ASSUME TypeOK, NEW status \in {"ACCEPTED", "ESTABLISHED"},
           NEW blocks \in Routings(WithStatus(status))
    PROVE  blocks \in SUBSET Blocks
  <1>1. PICK served \in SUBSET WithStatus(status) :
          \E route \in [served -> SUBSET networkGraph] :
            blocks = {[stream |-> s, params |-> streamSnapshot.collection[s].params,
                       links |-> route[s]] : s \in DOMAIN route}
    BY DEF Routings
  <1>2. networkGraph \subseteq Links
    BY DEF TypeOK, SchedulerTypeOK
  <1>3. \A s \in served :
          s \in Streams /\ streamSnapshot.collection[s].status \in {"ACCEPTED", "ESTABLISHED"}
    BY <1>1 DEF WithStatus
  <1>4. \A s \in served : streamSnapshot.collection[s] \in MasterStreamInfo
    BY <1>3 DEF TypeOK, SchedulerTypeOK, Snapshots, Ids, NoEntry
  <1>5. \A s \in served : streamSnapshot.collection[s].params \in StreamParameters
    BY <1>4 DEF MasterStreamInfo
  <1> QED
    BY <1>1, <1>2, <1>3, <1>5 DEF Blocks

\* Computing a schedule yields a schedule.
LEMMA ComputeType == TypeOK /\ ComputeSchedule => newSchedule' \in Schedules
  <1> SUFFICES ASSUME TypeOK, ComputeSchedule
               PROVE  newSchedule' \in Schedules
    OBVIOUS
  <1> DEFINE rebuild == graphChanged \/ streamSnapshot.removed
             bases == IF rebuild THEN Routings(WithStatus("ESTABLISHED"))
                      ELSE {schedule.blocks}
             extras == IF streamSnapshot.added THEN Routings(WithStatus("ACCEPTED")) ELSE {{}}
             kept == IF rebuild THEN {} ELSE schedule.interference
  <1>1. PICK base \in bases, extra \in extras, interference \in InterferingLinks :
          newSchedule' = [id |-> schedule.id + 1, blocks |-> base \cup extra,
                          interference |-> kept \cup interference]
    BY DEF ComputeSchedule
  <1>2. schedule \in Schedules
    BY DEF TypeOK, SchedulerTypeOK
  <1>3. base \subseteq Blocks
    BY <1>1, <1>2, RoutingsType DEF Schedules
  <1>4. extra \subseteq Blocks
    BY <1>1, RoutingsType
  <1>5. interference \subseteq Links
    BY <1>1 DEF InterferingLinks
  <1>6. kept \subseteq Links
    BY <1>2 DEF Schedules
  <1>7. schedule.id + 1 \in Nat
    BY <1>2 DEF Schedules
  <1> HIDE DEF bases, extras, kept
  <1> QED
    BY <1>1, <1>3, <1>4, <1>5, <1>6, <1>7 DEF Schedules

\* The links of a schedule are links.
LEMMA UsedLinksType == ASSUME NEW sched \in Schedules PROVE UsedLinks(sched) \in SUBSET Links
  BY DEF UsedLinks, Schedules, Blocks

\* The empty schedule and snapshot have their types.
LEMMA EmptyTypes == EmptySchedule \in Schedules /\ NoSnapshot \in Snapshots
  BY DEF EmptySchedule, Schedules, NoSnapshot, Snapshots

\* Every step preserves the types.
LEMMA TypeStep == TypeOK /\ [Next]_vars => TypeOK'
  <1> SUFFICES ASSUME TypeOK, [Next]_vars
               PROVE  TypeOK'
    OBVIOUS
  <1> USE DEF TypeOK
  <1>1. CASE StartIteration \/ Recheck \/ CheckTopology
    <2>1. SchedulerTypeOK'
      BY <1>1 DEF StartIteration, Recheck, CheckTopology, SchedulerTypeOK, ThreadStates,
                  TopologyTypeOK, localVars, downlinkVars
    <2> QED
      BY <1>1, <2>1, CollectionStutter, TopologyStutter
      DEF StartIteration, Recheck, CheckTopology
  <1>2. CASE GetOperation
    <2>1. CollectionTypeOK'
      BY <1>2 DEF GetOperation, ConsumeOperation, CollectionTypeOK
    <2>2. SchedulerTypeOK'
      BY <1>2 DEF GetOperation, SchedulerTypeOK, ThreadStates, CollectionTypeOK, downlinkVars
    <2> QED
      BY <1>2, <2>1, <2>2, TopologyStutter DEF GetOperation
  <1>3. CASE Resend
    <2>1. SchedulerTypeOK'
      BY <1>3 DEF Resend, SchedulerTypeOK, ThreadStates, localVars, downlinkVars
    <2> QED
      BY <1>3, <2>1, CollectionStutter, TopologyStutter DEF Resend
  <1>4. CASE GetSnapshot
    <2>1. CollectionTypeOK'
      BY <1>4 DEF GetSnapshot, ClearFlags, CollectionTypeOK
    <2>2. streamSnapshot' \in Snapshots
      BY <1>4 DEF GetSnapshot, CollectionTypeOK, Snapshots
    <2>3. SchedulerTypeOK'
      BY <1>4, <2>2 DEF GetSnapshot, SchedulerTypeOK, ThreadStates, downlinkVars
    <2> QED
      BY <1>4, <2>1, <2>3, TopologyStutter DEF GetSnapshot
  <1>5. CASE GetGraph
    <2>1. SchedulerTypeOK'
      BY <1>5 DEF GetGraph, SchedulerTypeOK, TopologyTypeOK, ThreadStates, downlinkVars
    <2> QED
      BY <1>5, <2>1, CollectionStutter, StartSchedulingType DEF GetGraph
  <1>6. CASE PruneGraph
    <2>1. Prune(networkGraph) \in SUBSET Links
      BY PruneSubset DEF SchedulerTypeOK
    <2>2. TopologyTypeOK'
      BY <1>6, <2>1, TopologyStutter, WriteBackType DEF PruneGraph
    <2>3. SchedulerTypeOK'
      BY <1>6, <2>1 DEF PruneGraph, SchedulerTypeOK, ThreadStates, downlinkVars
    <2> QED
      BY <1>6, <2>2, <2>3, CollectionStutter DEF PruneGraph
  <1>7. CASE ComputeSchedule
    <2>1. SchedulerTypeOK'
      BY <1>7, ComputeType DEF ComputeSchedule, SchedulerTypeOK, ThreadStates, downlinkVars
    <2> QED
      BY <1>7, <2>1, CollectionStutter, TopologyStutter DEF ComputeSchedule
  <1>8. CASE ApplyStreamChanges
    <2>1. SchedulerTypeOK'
      BY <1>8 DEF ApplyStreamChanges, SchedulerTypeOK, ThreadStates, localVars, downlinkVars
    <2> QED
      BY <1>8, <2>1, ApplyChangesType, TopologyStutter DEF ApplyStreamChanges
  <1>9. CASE PublishLinks
    <2>1. UsedLinks(newSchedule) \in SUBSET Links /\ newSchedule.interference \in SUBSET Links
      BY UsedLinksType DEF SchedulerTypeOK, Schedules
    <2>2. SchedulerTypeOK'
      BY <1>9 DEF PublishLinks, SchedulerTypeOK, ThreadStates, localVars, downlinkVars
    <2> QED
      BY <1>9, <2>1, <2>2, CollectionStutter, ScheduleChangedType DEF PublishLinks
  <1>10. CASE SwapSchedule
    <2>1. SchedulerTypeOK'
      BY <1>10, EmptyTypes DEF SwapSchedule, ForgetSnapshots, SchedulerTypeOK, ThreadStates,
                               downlinkVars
    <2> QED
      BY <1>10, <2>1, CollectionStutter, TopologyStutter DEF SwapSchedule
  <1>11. CASE NotChanged
    <2>1. SchedulerTypeOK'
      BY <1>11, EmptyTypes DEF NotChanged, ForgetSnapshots, SchedulerTypeOK, ThreadStates,
                               downlinkVars
    <2> QED
      BY <1>11, <2>1, CollectionStutter, ScheduleNotChangedType DEF NotChanged
  <1>12. CASE BeginScheduling
    <2>1. SchedulerTypeOK'
      BY <1>12 DEF BeginScheduling, SchedulerTypeOK, ThreadStates, localVars, downlinkVars
    <2> QED
      BY <1>12, <2>1, CollectionStutter, TopologyStutter DEF BeginScheduling
  <1>13. CASE DownlinkStep
    <2>1. SchedulerTypeOK'
      BY <1>13 DEF DownlinkStep, GetSchedule, ScheduleSentAndApplied, SchedulerTypeOK,
                   localVars
    <2> QED
      BY <1>13, <2>1, CollectionStutter, TopologyStutter
      DEF DownlinkStep, GetSchedule, ScheduleSentAndApplied
  <1>14. CASE HandleSME \/ SendInfo
    BY <1>14, ReceiveType, DequeueInfoType, TopologyStutter, SchedulerStutter
    DEF HandleSME, SendInfo, SchedulerUnchanged
  <1>15. CASE HandleTopology
    BY <1>15, ReceiveTopologyType, CollectionStutter, SchedulerStutter
    DEF HandleTopology, SchedulerUnchanged
  <1>16. CASE UNCHANGED vars
    BY <1>16, CollectionStutter, TopologyStutter, SchedulerStutter DEF vars
  <1> QED
    BY <1>1, <1>2, <1>3, <1>4, <1>5, <1>6, <1>7, <1>8, <1>9, <1>10, <1>11, <1>12, <1>13,
       <1>14, <1>15, <1>16 DEF Next, SchedulerStep

\* The initial state is well typed.
LEMMA TypeInit == Init => TypeOK
  <1> SUFFICES ASSUME Init
               PROVE  TypeOK
    OBVIOUS
  <1>1. CollectionTypeOK
    <2>1. infoQueue \in Seq(InfoElements)
      BY EmptySeq DEF Init, CollectionInit
    <2> QED
      BY <2>1 DEF Init, CollectionInit, CollectionTypeOK
  <1>2. TopologyTypeOK
    BY TopologyAssumption DEF Init, TopologyInit, TopologyTypeOK, Links
  <1>3. SchedulerTypeOK
    BY EmptyTypes DEF Init, SchedulerTypeOK, ThreadStates
  <1> QED
    BY <1>1, <1>2, <1>3 DEF TypeOK

\* Every variable keeps its type: the collection holds well-formed entries,
\* the graphs hold links between distinct nodes, and every schedule that is
\* computed, in force or distributed is made of blocks for known streams.
THEOREM TypeCorrect == Spec => []TypeOK
  BY TypeInit, TypeStep, PTL DEF Spec

-----------------------------------------------------------------------------
(***************************************************************************)
(* Established streams have slots.                                         *)
(***************************************************************************)
\* What SMEs can do to the status of a stream: accept it or remove it.
LEMMA SmeStatus ==
    ASSUME CollectionTypeOK, ReceiveSME, NEW s \in Streams
    PROVE  \/ collection'[s] = collection[s]
           \/ /\ collection'[s].status = "ACCEPTED"
              /\ added_flag' /\ modified_flag'
           \/ collection'[s].status = "NOEXIST"
  <1> USE CollectionAssumption
  <1>1. PICK sme \in SMEs :
         \/ UNCHANGED collection
         \/ sme.id \in Streams /\ (UpdateStream(sme) \/ CreateStream(sme))
         \/ sme.id \in Servers /\ UpdateOrCreateServer(sme)
    BY DEF ReceiveSME
  <1>2. CASE UNCHANGED collection
    BY <1>2
  <1>3. CASE sme.id \in Streams /\ UpdateStream(sme)
    BY <1>3 DEF UpdateStream, CollectionTypeOK, NoEntry, Ids
  <1>4. CASE sme.id \in Streams /\ CreateStream(sme)
    BY <1>4 DEF CreateStream, CollectionTypeOK, Entry, Ids
  <1>5. CASE sme.id \in Servers /\ UpdateOrCreateServer(sme)
    BY <1>5 DEF UpdateOrCreateServer, CollectionTypeOK, Ids
  <1> QED
    BY <1>1, <1>2, <1>3, <1>4, <1>5

\* What SMEs can do to the flags: set them.
LEMMA SmeFlags ==
    ASSUME CollectionTypeOK, ReceiveSME
    PROVE  (added_flag => added_flag') /\ (modified_flag => modified_flag')
  BY DEF ReceiveSME, UpdateStream, CreateStream, UpdateOrCreateServer, flagVars

\* What applying the changes of a run does to the status of a stream.
LEMMA AppliedStatus ==
    ASSUME CollectionTypeOK, NEW snap, NEW scheduled,
           ApplyChanges(StreamChanges(snap, scheduled)), NEW s \in Streams
    PROVE  /\ collection'[s].status = "ESTABLISHED" =>
                \/ /\ collection[s].status = "ESTABLISHED"
                   /\ snap[s].status = "ESTABLISHED" => s \in scheduled
                \/ /\ snap[s].status = "ACCEPTED"
                   /\ s \in scheduled
           /\ collection'[s].status = "ACCEPTED" =>
                collection[s].status = "ACCEPTED" /\ snap[s].status # "ACCEPTED"
  <1> DEFINE changes == StreamChanges(snap, scheduled)
             applied == {x \in Streams : Applicable(x, changes[x])}
  <1>1. s \in Ids
    BY DEF Ids
  <1>2. collection'[s] = IF s \notin applied THEN collection[s]
                         ELSE IF changes[s] = "ESTABLISH"
                              THEN Entry("ESTABLISHED", collection[s].params)
                              ELSE NoEntry
    BY <1>1 DEF ApplyChanges
  <1>3. changes[s] = CASE snap[s].status = "ACCEPTED" /\ s \in scheduled -> "ESTABLISH"
                       [] snap[s].status = "ACCEPTED" /\ s \notin scheduled -> "REJECT"
                       [] snap[s].status = "ESTABLISHED" /\ s \notin scheduled -> "CLOSE"
                       [] OTHER -> "none"
    BY DEF StreamChanges
  <1> HIDE DEF changes
  <1>4. s \in applied <=> Applicable(s, changes[s])
    OBVIOUS
  <1> HIDE DEF applied
  <1> QED
    BY <1>2, <1>3, <1>4 DEF Applicable, Entry, NoEntry

\* Every step preserves the two facts about established streams.
LEMMA EstablishedStep ==
    TypeOK /\ SnapshotCovers /\ EstablishedScheduled /\ [Next]_vars
        => SnapshotCovers' /\ EstablishedScheduled'
  <1> SUFFICES ASSUME TypeOK, SnapshotCovers, EstablishedScheduled, [Next]_vars
               PROVE  SnapshotCovers' /\ EstablishedScheduled'
    OBVIOUS
  <1> USE DEF SnapshotCovers, EstablishedScheduled, ScheduleToBe
  <1>1. CASE StartIteration \/ Recheck \/ CheckTopology \/ Resend \/ BeginScheduling
    BY <1>1 DEF StartIteration, Recheck, CheckTopology, Resend, BeginScheduling,
                collectionVars, localVars
  <1>2. CASE GetOperation
    BY <1>2 DEF GetOperation, ConsumeOperation
  <1>3. CASE GetSnapshot
    BY <1>3 DEF GetSnapshot, ClearFlags
  <1>4. CASE GetGraph \/ PruneGraph \/ ComputeSchedule
    BY <1>4 DEF GetGraph, PruneGraph, ComputeSchedule, collectionVars
  <1>5. CASE ApplyStreamChanges
    <2>1. ApplyChanges(Changes) /\ thread = "applyChanges" /\ CollectionTypeOK
      BY <1>5 DEF ApplyStreamChanges, TypeOK
    <2>2. \A s \in Streams : collection'[s].status = "ESTABLISHED" =>
              s \in ScheduledStreams(newSchedule)
      BY <2>1, AppliedStatus DEF Changes
    <2>3. CASE thread' = "publishLinks"
      BY <1>5, <2>2, <2>3 DEF ApplyStreamChanges, localVars
    <2>4. CASE thread' = "notChanged"
      <3>1. \A s \in Streams : Changes[s] \notin {"ESTABLISH", "CLOSE"}
        BY <1>5, <2>4 DEF ApplyStreamChanges
      <3>2. \A s \in Streams : ~(/\ streamSnapshot.collection[s].status = "ACCEPTED"
                                 /\ s \in ScheduledStreams(newSchedule))
        BY <3>1 DEF Changes, StreamChanges
      <3>3. \A s \in Streams : collection'[s].status = "ESTABLISHED" =>
                                collection[s].status = "ESTABLISHED"
        BY <2>1, <3>2, AppliedStatus DEF Changes
      <3> QED
        BY <1>5, <2>1, <2>4, <3>3 DEF ApplyStreamChanges, ScheduledStreams
    <2> QED
      BY <1>5, <2>3, <2>4 DEF ApplyStreamChanges
  <1>6. CASE PublishLinks
    BY <1>6 DEF PublishLinks, collectionVars, localVars
  <1>7. CASE SwapSchedule
    BY <1>7 DEF SwapSchedule, collectionVars
  <1>8. CASE NotChanged
    BY <1>8 DEF NotChanged, collectionVars
  <1>9. CASE DownlinkStep
    BY <1>9 DEF DownlinkStep, GetSchedule, ScheduleSentAndApplied, collectionVars, localVars
  <1>10. CASE HandleSME
    <2>1. \A s \in Streams : collection'[s].status = "ESTABLISHED" =>
                              collection[s].status = "ESTABLISHED"
      BY <1>10, SmeStatus DEF HandleSME, TypeOK
    <2> QED
      BY <1>10, <2>1 DEF HandleSME, SchedulerUnchanged, localVars
  <1>11. CASE SendInfo \/ HandleTopology
    BY <1>11 DEF SendInfo, DequeueInfo, HandleTopology, SchedulerUnchanged, localVars,
                 collectionVars
  <1>12. CASE UNCHANGED vars
    BY <1>12 DEF vars, collectionVars, localVars
  <1> QED
    BY <1>1, <1>2, <1>3, <1>4, <1>5, <1>6, <1>7, <1>8, <1>9, <1>10, <1>11, <1>12
    DEF Next, SchedulerStep

(***************************************************************************)
(* No accepted stream is forgotten.                                        *)
(***************************************************************************)
LEMMA RequestStep == TypeOK /\ NoLostRequest /\ [Next]_vars => NoLostRequest'
  <1> SUFFICES ASSUME TypeOK, NoLostRequest, [Next]_vars
               PROVE  NoLostRequest'
    OBVIOUS
  <1> USE DEF NoLostRequest
  <1>1. CASE StartIteration \/ Recheck \/ CheckTopology \/ Resend \/ BeginScheduling
    BY <1>1 DEF StartIteration, Recheck, CheckTopology, Resend, BeginScheduling,
                collectionVars, flagVars, localVars
  <1>2. CASE GetOperation
    BY <1>2 DEF GetOperation, ConsumeOperation
  <1>3. CASE GetSnapshot
    BY <1>3 DEF GetSnapshot, ClearFlags
  <1>4. CASE GetGraph \/ PruneGraph \/ ComputeSchedule
    BY <1>4 DEF GetGraph, PruneGraph, ComputeSchedule, collectionVars, flagVars
  <1>5. CASE ApplyStreamChanges
    <2>1. ApplyChanges(Changes) /\ thread = "applyChanges" /\ CollectionTypeOK
      BY <1>5 DEF ApplyStreamChanges, TypeOK
    <2>2. \A s \in Streams : collection'[s].status = "ACCEPTED" =>
              /\ collection[s].status = "ACCEPTED"
              /\ streamSnapshot.collection[s].status # "ACCEPTED"
      BY <2>1, AppliedStatus DEF Changes
    <2> QED
      BY <2>1, <2>2 DEF ApplyChanges, flagVars
  <1>6. CASE PublishLinks \/ SwapSchedule \/ NotChanged
    BY <1>6 DEF PublishLinks, SwapSchedule, NotChanged, collectionVars, flagVars
  <1>7. CASE DownlinkStep
    BY <1>7 DEF DownlinkStep, GetSchedule, ScheduleSentAndApplied, collectionVars, flagVars,
                localVars
  <1>8. CASE HandleSME
    <2>1. \A s \in Streams : collection'[s].status = "ACCEPTED" =>
              \/ collection'[s] = collection[s]
              \/ added_flag' /\ modified_flag'
      BY <1>8, SmeStatus DEF HandleSME, TypeOK
    <2>2. (added_flag => added_flag') /\ (modified_flag => modified_flag')
      BY <1>8, SmeFlags DEF HandleSME, TypeOK
    <2> QED
      BY <1>8, <2>1, <2>2 DEF HandleSME, SchedulerUnchanged, localVars
  <1>9. CASE SendInfo \/ HandleTopology
    BY <1>9 DEF SendInfo, DequeueInfo, HandleTopology, SchedulerUnchanged, localVars,
                collectionVars, flagVars
  <1>10. CASE UNCHANGED vars
    BY <1>10 DEF vars, collectionVars, flagVars, localVars
  <1> QED
    BY <1>1, <1>2, <1>3, <1>4, <1>5, <1>6, <1>7, <1>8, <1>9, <1>10 DEF Next, SchedulerStep

(***************************************************************************)
(* The distributed schedule is the current one.                            *)
(***************************************************************************)
LEMMA DistributedStep ==
    WaitsUntilApplied /\ DistributedIsCurrent /\ [Next]_vars
        => WaitsUntilApplied' /\ DistributedIsCurrent'
  <1> SUFFICES ASSUME WaitsUntilApplied, DistributedIsCurrent, [Next]_vars
               PROVE  WaitsUntilApplied' /\ DistributedIsCurrent'
    OBVIOUS
  <1> USE DEF WaitsUntilApplied, DistributedIsCurrent
  <1>1. CASE StartIteration \/ Recheck \/ CheckTopology \/ GetOperation \/ Resend
    BY <1>1 DEF StartIteration, Recheck, CheckTopology, GetOperation, Resend, downlinkVars
  <1>2. CASE GetSnapshot \/ GetGraph \/ PruneGraph \/ ComputeSchedule
    BY <1>2 DEF GetSnapshot, GetGraph, PruneGraph, ComputeSchedule, downlinkVars
  <1>3. CASE ApplyStreamChanges \/ PublishLinks \/ NotChanged
    BY <1>3 DEF ApplyStreamChanges, PublishLinks, NotChanged, downlinkVars
  <1>4. CASE SwapSchedule
    BY <1>4 DEF SwapSchedule, downlinkVars
  <1>5. CASE BeginScheduling
    BY <1>5 DEF BeginScheduling, downlinkVars
  <1>6. CASE DownlinkStep
    BY <1>6 DEF DownlinkStep, GetSchedule, ScheduleSentAndApplied
  <1>7. CASE HandleSME \/ SendInfo \/ HandleTopology
    BY <1>7 DEF HandleSME, SendInfo, HandleTopology, SchedulerUnchanged, downlinkVars
  <1>8. CASE UNCHANGED vars
    BY <1>8 DEF vars, downlinkVars
  <1> QED
    BY <1>1, <1>2, <1>3, <1>4, <1>5, <1>6, <1>7, <1>8 DEF Next, SchedulerStep

(***************************************************************************)
(* The links that topology changes are compared with are current.          *)
(***************************************************************************)
LEMMA RelianceStep ==
    PublishedLinks /\ RelianceCurrent /\ [Next]_vars => PublishedLinks' /\ RelianceCurrent'
  <1> SUFFICES ASSUME PublishedLinks, RelianceCurrent, [Next]_vars
               PROVE  PublishedLinks' /\ RelianceCurrent'
    OBVIOUS
  <1> USE DEF PublishedLinks, RelianceCurrent
  <1>1. CASE StartIteration \/ Recheck \/ CheckTopology \/ GetOperation \/ Resend
    BY <1>1 DEF StartIteration, Recheck, CheckTopology, GetOperation, Resend, UsedLinks,
                topologyVars, relianceVars, pendingVars
  <1>2. CASE GetSnapshot \/ ComputeSchedule \/ ApplyStreamChanges
    BY <1>2 DEF GetSnapshot, ComputeSchedule, ApplyStreamChanges, UsedLinks,
                topologyVars, relianceVars, pendingVars
  <1>3. CASE GetGraph
    BY <1>3 DEF GetGraph, StartScheduling, UsedLinks, relianceVars, pendingVars
  <1>4. CASE PruneGraph
    BY <1>4 DEF PruneGraph, WriteBack, UsedLinks, topologyVars, relianceVars, pendingVars
  <1>5. CASE PublishLinks
    BY <1>5 DEF PublishLinks, ScheduleChanged, DelayedChangesChecks, UsedLinks, localVars
  <1>6. CASE SwapSchedule
    BY <1>6 DEF SwapSchedule, UsedLinks, topologyVars, relianceVars, pendingVars
  <1>7. CASE NotChanged
    BY <1>7 DEF NotChanged, ScheduleNotChanged, DelayedChangesChecks, UsedLinks, relianceVars
  <1>8. CASE BeginScheduling \/ DownlinkStep \/ HandleSME \/ SendInfo
    BY <1>8 DEF BeginScheduling, DownlinkStep, GetSchedule, ScheduleSentAndApplied, HandleSME,
                SendInfo, SchedulerUnchanged, UsedLinks, topologyVars, relianceVars,
                pendingVars, localVars
  <1>9. CASE HandleTopology
    <2>1. PICK src \in Nodes, strong \in SUBSET Nodes, weak \in SUBSET Nodes :
            ReceiveTopology(src, strong, weak)
      BY <1>9 DEF HandleTopology
    <2>2. UNCHANGED <<relianceVars, scheduleInProgress, thread, schedule, newSchedule>>
      BY <1>9, <2>1 DEF HandleTopology, ReceiveTopology, SchedulerUnchanged, relianceVars,
                        localVars
    <2>3. scheduleInProgress \/ UNCHANGED removedWhileScheduling
      BY <2>1 DEF ReceiveTopology, pendingVars
    <2> QED
      BY <2>2, <2>3 DEF UsedLinks, relianceVars
  <1>10. CASE UNCHANGED vars
    BY <1>10 DEF vars, UsedLinks, topologyVars, relianceVars, pendingVars, localVars
  <1> QED
    BY <1>1, <1>2, <1>3, <1>4, <1>5, <1>6, <1>7, <1>8, <1>9, <1>10 DEF Next, SchedulerStep

(***************************************************************************)
(* New schedules are watched from the start.                               *)
(***************************************************************************)
\* A topology element takes links away; it sets them aside during a run and
\* flags those in use otherwise.
LEMMA RemovedLinks ==
    ASSUME NEW src \in Nodes, NEW strong \in SUBSET Nodes, NEW weak \in SUBSET Nodes,
           ReceiveTopology(src, strong, weak)
    PROVE  /\ UNCHANGED <<scheduleInProgress, usedLinks, newLinksCausingReschedule>>
           /\ scheduleInProgress =>
                /\ UNCHANGED topologyModified
                /\ graph \cup removedWhileScheduling \subseteq graph' \cup removedWhileScheduling'
           /\ ~scheduleInProgress =>
                /\ topologyModified => topologyModified'
                /\ (graph \ graph') \cap usedLinks = {} \/ topologyModified'
  <1>1. UNCHANGED <<scheduleInProgress, usedLinks, newLinksCausingReschedule>>
    BY DEF ReceiveTopology, relianceVars
  <1> DEFINE removed == (graph \cap Touching(src)) \ LinksOf(src, strong)
  <1>2. graph \subseteq graph' \cup removed
    BY DEF ReceiveTopology
  <1>3. ASSUME scheduleInProgress
        PROVE  /\ UNCHANGED topologyModified
               /\ removedWhileScheduling' = removedWhileScheduling \cup removed
    BY <1>3 DEF ReceiveTopology
  <1>4. ASSUME ~scheduleInProgress
        PROVE  /\ topologyModified => topologyModified'
               /\ removed \cap usedLinks # {} => topologyModified'
    BY <1>4 DEF ReceiveTopology
  <1> HIDE DEF removed
  <1> QED
    BY <1>1, <1>2, <1>3, <1>4

\* A topology element brings links; where interference is judged they are set
\* aside during a run and flagged otherwise if they would make transmissions
\* interfere.
LEMMA AddedLinks ==
    ASSUME NEW src \in Nodes, NEW strong \in SUBSET Nodes, NEW weak \in SUBSET Nodes,
           ReceiveTopology(src, strong, weak), ChannelSpatialReuse
    PROVE  /\ scheduleInProgress =>
                /\ addedWhileScheduling \subseteq addedWhileScheduling'
                /\ InterferenceGraph' \subseteq InterferenceGraph \cup addedWhileScheduling'
           /\ ~scheduleInProgress =>
                \/ (InterferenceGraph' \ InterferenceGraph) \cap newLinksCausingReschedule = {}
                \/ topologyModified'
  <1>1. CASE UseWeakTopologies
    <2> DEFINE added == LinksOf(src, weak) \ weakGraph
    <2>1. weakGraph' \subseteq weakGraph \cup added
      BY <1>1 DEF ReceiveTopology
    <2>2. scheduleInProgress => addedWhileScheduling' = addedWhileScheduling \cup added
      BY <1>1 DEF ReceiveTopology
    <2>3. ~scheduleInProgress /\ added \cap newLinksCausingReschedule # {} => topologyModified'
      BY <1>1 DEF ReceiveTopology
    <2> HIDE DEF added
    <2> QED
      BY <1>1, <2>1, <2>2, <2>3 DEF InterferenceGraph
  <1>2. CASE ~UseWeakTopologies
    <2> DEFINE added == LinksOf(src, strong) \ graph
    <2>1. graph' \subseteq graph \cup added
      BY DEF ReceiveTopology
    <2>2. scheduleInProgress => addedWhileScheduling' = addedWhileScheduling \cup added
      BY <1>2 DEF ReceiveTopology
    <2>3. ~scheduleInProgress /\ added \cap newLinksCausingReschedule # {} => topologyModified'
      BY <1>2 DEF ReceiveTopology
    <2> HIDE DEF added
    <2> QED
      BY <1>2, <2>1, <2>2, <2>3 DEF InterferenceGraph
  <1> QED
    BY <1>1, <1>2

\* The blocks that a run adds to the schedule use links of its copy.
LEMMA ComputedBlocks ==
    ASSUME TypeOK, ComputeSchedule
    PROVE  /\ \A b \in newSchedule'.blocks \ schedule.blocks : b.links \subseteq networkGraph
           /\ newSchedule'.interference \ schedule.interference \subseteq
                Links \ CopiedInterferenceGraph
           /\ ~ChannelSpatialReuse => newSchedule'.interference \subseteq schedule.interference
  <1> DEFINE rebuild == graphChanged \/ streamSnapshot.removed
             bases == IF rebuild THEN Routings(WithStatus("ESTABLISHED"))
                      ELSE {schedule.blocks}
             extras == IF streamSnapshot.added THEN Routings(WithStatus("ACCEPTED")) ELSE {{}}
             kept == IF rebuild THEN {} ELSE schedule.interference
  <1>1. PICK base \in bases, extra \in extras, interference \in InterferingLinks :
          newSchedule' = [id |-> schedule.id + 1, blocks |-> base \cup extra,
                          interference |-> kept \cup interference]
    BY DEF ComputeSchedule
  <1>2. ASSUME NEW status \in {"ACCEPTED", "ESTABLISHED"},
               NEW blocks \in Routings(WithStatus(status)), NEW b \in blocks
        PROVE  b.links \subseteq networkGraph
    BY DEF Routings
  <1>3. \A b \in base \ schedule.blocks : b.links \subseteq networkGraph
    BY <1>1, <1>2
  <1>4. \A b \in extra : b.links \subseteq networkGraph
    BY <1>1, <1>2
  <1>5. newSchedule'.blocks = base \cup extra
    BY <1>1
  <1>6. newSchedule'.interference \subseteq schedule.interference \cup interference
    BY <1>1
  <1>7. /\ interference \subseteq Links \ CopiedInterferenceGraph
        /\ ~ChannelSpatialReuse => interference = {}
    BY <1>1 DEF InterferingLinks
  <1> QED
    BY <1>3, <1>4, <1>5, <1>6, <1>7

\* Links used by a block are used by its schedule.
LEMMA BlockLinks ==
    ASSUME NEW sched, NEW b \in sched.blocks
    PROVE  b.links \subseteq UsedLinks(sched)
  BY DEF UsedLinks

\* Every step keeps the changes of the topology set aside while a run computes.
LEMMA SetsAsideStep == SetsAside /\ [Next]_vars => SetsAside'
  <1> SUFFICES ASSUME SetsAside, [Next]_vars
               PROVE  SetsAside'
    OBVIOUS
  <1> USE DEF SetsAside
  <1>1. CASE StartIteration \/ Recheck \/ CheckTopology \/ GetOperation \/ Resend
    BY <1>1 DEF StartIteration, Recheck, CheckTopology, GetOperation, Resend
  <1>2. CASE GetSnapshot \/ ComputeSchedule \/ ApplyStreamChanges
    BY <1>2 DEF GetSnapshot, ComputeSchedule, ApplyStreamChanges, topologyVars
  <1>3. CASE GetGraph
    BY <1>3 DEF GetGraph, StartScheduling
  <1>4. CASE PruneGraph
    BY <1>4 DEF PruneGraph, WriteBack, topologyVars
  <1>5. CASE PublishLinks \/ SwapSchedule \/ NotChanged \/ BeginScheduling
    BY <1>5 DEF PublishLinks, SwapSchedule, NotChanged, BeginScheduling
  <1>6. CASE DownlinkStep \/ HandleSME \/ SendInfo
    BY <1>6 DEF DownlinkStep, GetSchedule, ScheduleSentAndApplied, HandleSME, SendInfo,
                SchedulerUnchanged, topologyVars
  <1>7. CASE HandleTopology
    <2>1. PICK src \in Nodes, strong \in SUBSET Nodes, weak \in SUBSET Nodes :
            ReceiveTopology(src, strong, weak)
      BY <1>7 DEF HandleTopology
    <2> QED
      BY <1>7, <2>1, RemovedLinks DEF HandleTopology, SchedulerUnchanged
  <1>8. CASE UNCHANGED vars
    BY <1>8 DEF vars, topologyVars
  <1> QED
    BY <1>1, <1>2, <1>3, <1>4, <1>5, <1>6, <1>7, <1>8 DEF Next, SchedulerStep

\* Every step keeps the routes that a run computes watched.
LEMMA RoutesStep ==
    TypeOK /\ PublishedLinks /\ RelianceCurrent /\ SetsAside /\ CopyWatched /\ NewRoutesWatched
    /\ [Next]_vars
        => CopyWatched' /\ NewRoutesWatched'
  <1> SUFFICES ASSUME TypeOK, PublishedLinks, RelianceCurrent, SetsAside, CopyWatched,
                      NewRoutesWatched, [Next]_vars
               PROVE  CopyWatched' /\ NewRoutesWatched'
    OBVIOUS
  <1> USE DEF CopyWatched, NewRoutesWatched
  <1>1. CASE StartIteration \/ Recheck \/ CheckTopology \/ GetOperation \/ Resend
    BY <1>1 DEF StartIteration, Recheck, CheckTopology, GetOperation, Resend
  <1>2. CASE GetSnapshot
    BY <1>2 DEF GetSnapshot
  <1>3. CASE GetGraph
    BY <1>3 DEF GetGraph, StartScheduling, pendingVars
  <1>4. CASE PruneGraph
    <2>1. Prune(networkGraph) \subseteq networkGraph
      BY PruneSubset
    <2> QED
      BY <1>4, <2>1 DEF PruneGraph, WriteBack, topologyVars, pendingVars, SetsAside
  <1>5. CASE ComputeSchedule
    <2>1. UNCHANGED <<graph, removedWhileScheduling, schedule>>
      BY <1>5 DEF ComputeSchedule, topologyVars, pendingVars
    <2>2. thread = "compute" /\ thread' \in {"applyChanges", "notChanged"}
      BY <1>5 DEF ComputeSchedule
    <2> QED
      BY <1>5, <2>1, <2>2, ComputedBlocks
  <1>6. CASE ApplyStreamChanges
    BY <1>6 DEF ApplyStreamChanges, topologyVars, pendingVars, localVars
  <1>7. CASE PublishLinks
    <2>1. \A b \in newSchedule.blocks \ schedule.blocks :
            b.links \subseteq graph \cup removedWhileScheduling
      BY <1>7 DEF PublishLinks
    <2>2. \A b \in newSchedule.blocks : b.links \subseteq UsedLinks(newSchedule)
      BY BlockLinks
    <2>3. removedWhileScheduling \cap UsedLinks(newSchedule) # {} => topologyModified'
      BY <1>7 DEF PublishLinks, ScheduleChanged, DelayedChangesChecks
    <2>4. UNCHANGED <<graph, schedule, newSchedule>> /\ thread' = "swap"
      BY <1>7 DEF PublishLinks, ScheduleChanged, DelayedChangesChecks, localVars
    <2> QED
      BY <2>1, <2>2, <2>3, <2>4
  <1>8. CASE SwapSchedule \/ NotChanged \/ BeginScheduling
    BY <1>8 DEF SwapSchedule, NotChanged, BeginScheduling
  <1>9. CASE DownlinkStep \/ HandleSME \/ SendInfo
    BY <1>9 DEF DownlinkStep, GetSchedule, ScheduleSentAndApplied, HandleSME, SendInfo,
                SchedulerUnchanged, topologyVars, pendingVars, localVars
  <1>10. CASE HandleTopology
    <2>1. PICK src \in Nodes, strong \in SUBSET Nodes, weak \in SUBSET Nodes :
            ReceiveTopology(src, strong, weak)
      BY <1>10 DEF HandleTopology
    <2>2. UNCHANGED <<thread, networkGraph, newSchedule, schedule>>
      BY <1>10 DEF HandleTopology, SchedulerUnchanged, localVars
    <2>3. CASE thread = "swap"
      <3>1. ~scheduleInProgress /\ usedLinks = UsedLinks(newSchedule)
        BY <2>3 DEF RelianceCurrent, PublishedLinks
      <3>2. \A b \in newSchedule.blocks : b.links \subseteq UsedLinks(newSchedule)
        BY BlockLinks
      <3>3. /\ topologyModified => topologyModified'
            /\ (graph \ graph') \cap usedLinks = {} \/ topologyModified'
        BY <2>1, <3>1, RemovedLinks
      <3> QED
        BY <2>2, <2>3, <3>1, <3>2, <3>3
    <2>4. CASE thread \in {"prune", "compute", "applyChanges", "publishLinks"}
      <3>1. graph \cup removedWhileScheduling \subseteq graph' \cup removedWhileScheduling'
        BY <2>1, <2>4, RemovedLinks DEF SetsAside
      <3> QED
        BY <2>2, <2>4, <3>1
    <2> QED
      BY <2>2, <2>3, <2>4
  <1>11. CASE UNCHANGED vars
    BY <1>11 DEF vars, topologyVars, pendingVars, localVars
  <1> QED
    BY <1>1, <1>2, <1>3, <1>4, <1>5, <1>6, <1>7, <1>8, <1>9, <1>10, <1>11
    DEF Next, SchedulerStep

\* And the links that it takes to be absent.
LEMMA ConflictsStep ==
    TypeOK /\ PublishedLinks /\ RelianceCurrent /\ SetsAside /\ AbsenceWatched /\ NewConflictsWatched
    /\ [Next]_vars
        => AbsenceWatched' /\ NewConflictsWatched'
  <1> SUFFICES ASSUME TypeOK, PublishedLinks, RelianceCurrent, SetsAside, AbsenceWatched,
                      NewConflictsWatched, [Next]_vars
               PROVE  AbsenceWatched' /\ NewConflictsWatched'
    OBVIOUS
  <1> USE DEF AbsenceWatched, NewConflictsWatched
  <1>1. CASE StartIteration \/ Recheck \/ CheckTopology \/ GetOperation \/ Resend
    BY <1>1 DEF StartIteration, Recheck, CheckTopology, GetOperation, Resend
  <1>2. CASE GetSnapshot
    BY <1>2 DEF GetSnapshot
  <1>3. CASE GetGraph
    BY <1>3 DEF GetGraph, StartScheduling, pendingVars, InterferenceGraph,
                CopiedInterferenceGraph
  <1>4. CASE PruneGraph
    <2>1. CASE UseWeakTopologies \/ Prune(networkGraph) = networkGraph
      BY <1>4, <2>1 DEF PruneGraph, WriteBack, topologyVars, pendingVars, InterferenceGraph,
                        CopiedInterferenceGraph
    <2>2. CASE ~UseWeakTopologies /\ Prune(networkGraph) # networkGraph
      <3>1. graph' = networkGraph' /\ thread' = "compute"
        BY <1>4, <2>2 DEF PruneGraph, WriteBack, SetsAside
      <3> QED
        BY <2>2, <3>1 DEF InterferenceGraph, CopiedInterferenceGraph
    <2> QED
      BY <2>1, <2>2
  <1>5. CASE ComputeSchedule
    <2>1. UNCHANGED <<graph, weakGraph, addedWhileScheduling, schedule>>
      BY <1>5 DEF ComputeSchedule, topologyVars, pendingVars
    <2>2. thread = "compute" /\ thread' \in {"applyChanges", "notChanged"}
      BY <1>5 DEF ComputeSchedule
    <2>3. UNCHANGED InterferenceGraph
      BY <2>1 DEF InterferenceGraph
    <2>4. /\ newSchedule'.interference \ schedule.interference \subseteq
                Links \ CopiedInterferenceGraph
          /\ ~ChannelSpatialReuse => newSchedule'.interference \subseteq schedule.interference
      BY <1>5, ComputedBlocks
    <2> QED
      BY <2>1, <2>2, <2>3, <2>4
  <1>6. CASE ApplyStreamChanges
    BY <1>6 DEF ApplyStreamChanges, topologyVars, pendingVars, localVars, InterferenceGraph
  <1>7. CASE PublishLinks
    <2>1. (newSchedule.interference \ schedule.interference) \cap InterferenceGraph
            \subseteq addedWhileScheduling
      BY <1>7 DEF PublishLinks
    <2>2. addedWhileScheduling \cap newSchedule.interference # {} => topologyModified'
      BY <1>7 DEF PublishLinks, ScheduleChanged, DelayedChangesChecks
    <2>3. /\ UNCHANGED <<graph, weakGraph, schedule, newSchedule>>
          /\ thread = "publishLinks" /\ thread' = "swap"
      BY <1>7 DEF PublishLinks, ScheduleChanged, DelayedChangesChecks, localVars
    <2>4. UNCHANGED InterferenceGraph
      BY <2>3 DEF InterferenceGraph
    <2> QED
      BY <2>1, <2>2, <2>3, <2>4
  <1>8. CASE SwapSchedule \/ NotChanged \/ BeginScheduling
    BY <1>8 DEF SwapSchedule, NotChanged, BeginScheduling
  <1>9. CASE DownlinkStep \/ HandleSME \/ SendInfo
    BY <1>9 DEF DownlinkStep, GetSchedule, ScheduleSentAndApplied, HandleSME, SendInfo,
                SchedulerUnchanged, topologyVars, pendingVars, localVars, InterferenceGraph,
                CopiedInterferenceGraph
  <1>10. CASE HandleTopology
    <2>1. PICK src \in Nodes, strong \in SUBSET Nodes, weak \in SUBSET Nodes :
            ReceiveTopology(src, strong, weak)
      BY <1>10 DEF HandleTopology
    <2>2. UNCHANGED <<thread, networkGraph, weakSnapshot, newSchedule, schedule>>
      BY <1>10 DEF HandleTopology, SchedulerUnchanged, localVars
    <2>3. UNCHANGED CopiedInterferenceGraph
      BY <2>2 DEF CopiedInterferenceGraph
    <2>4. CASE ~ChannelSpatialReuse
      BY <2>2, <2>4
    <2>5. CASE ChannelSpatialReuse /\ thread = "swap"
      <3>1. ~scheduleInProgress /\ newLinksCausingReschedule = newSchedule.interference
        BY <2>5 DEF RelianceCurrent, PublishedLinks
      <3>2. \/ (InterferenceGraph' \ InterferenceGraph) \cap newLinksCausingReschedule = {}
            \/ topologyModified'
        BY <2>1, <2>5, <3>1, AddedLinks
      <3>3. topologyModified => topologyModified'
        BY <2>1, <3>1, RemovedLinks
      <3> QED
        BY <2>2, <2>5, <3>1, <3>2, <3>3
    <2>6. CASE ChannelSpatialReuse /\ thread \in {"prune", "compute", "applyChanges", "publishLinks"}
      <3>1. /\ addedWhileScheduling \subseteq addedWhileScheduling'
            /\ InterferenceGraph' \subseteq InterferenceGraph \cup addedWhileScheduling'
        BY <2>1, <2>6, AddedLinks DEF SetsAside
      <3> QED
        BY <2>2, <2>3, <2>6, <3>1
    <2> QED
      BY <2>2, <2>4, <2>5, <2>6
  <1>11. CASE UNCHANGED vars
    BY <1>11 DEF vars, topologyVars, pendingVars, localVars, InterferenceGraph,
                 CopiedInterferenceGraph
  <1> QED
    BY <1>1, <1>2, <1>3, <1>4, <1>5, <1>6, <1>7, <1>8, <1>9, <1>10, <1>11
    DEF Next, SchedulerStep

-----------------------------------------------------------------------------
(***************************************************************************)
(* The theorems.                                                           *)
(***************************************************************************)
\* The inductive invariant holds initially ...
LEMMA IndInvInit == Init => IndInv
  <1> SUFFICES ASSUME Init
               PROVE  IndInv
    OBVIOUS
  <1>1. TypeOK
    BY TypeInit
  <1>2. \A s \in Streams : collection[s].status = "NOEXIST"
    BY DEF Init, CollectionInit, Ids, NoEntry
  <1>3. usedLinks = UsedLinks(schedule)
    BY DEF Init, TopologyInit, UsedLinks, EmptySchedule
  <1>4. SnapshotCovers /\ EstablishedScheduled /\ NoLostRequest
    BY <1>2 DEF Init, SnapshotCovers, EstablishedScheduled, NoLostRequest
  <1>5. WaitsUntilApplied /\ DistributedIsCurrent
    BY DEF Init, WaitsUntilApplied, DistributedIsCurrent
  <1>6. PublishedLinks /\ RelianceCurrent
    BY <1>3 DEF Init, TopologyInit, PublishedLinks, RelianceCurrent
  <1>7. SetsAside /\ CopyWatched /\ NewRoutesWatched /\ AbsenceWatched /\ NewConflictsWatched
    BY DEF Init, SetsAside, CopyWatched, NewRoutesWatched, AbsenceWatched, NewConflictsWatched
  <1> QED
    BY <1>1, <1>4, <1>5, <1>6, <1>7 DEF IndInv

\* ... and is preserved by every step.
LEMMA IndInvStep == IndInv /\ [Next]_vars => IndInv'
  BY TypeStep, EstablishedStep, RequestStep, DistributedStep, RelianceStep, SetsAsideStep,
     RoutesStep, ConflictsStep DEF IndInv

\* It is an invariant of the scheduler and the MAC thread.
THEOREM Invariance == Spec => []IndInv
  BY IndInvInit, IndInvStep, PTL DEF Spec

\* A stream that the master reports as established has slots in the schedule
\* in force or about to be published, whatever SMEs arrived during the run.
THEOREM EstablishedHaveSlots == Spec => []EstablishedScheduled
  <1>1. IndInv => EstablishedScheduled
    BY DEF IndInv
  <1> QED
    BY <1>1, Invariance, PTL

\* A stream that was accepted is announced to the scheduler by the flags or is
\* being handled by the run in progress.
THEOREM RequestsAreKept == Spec => []NoLostRequest
  <1>1. IndInv => NoLostRequest
    BY DEF IndInv
  <1> QED
    BY <1>1, Invariance, PTL

\* The downlink phase always distributes the schedule that the scheduler will
\* build on.
THEOREM DistributionIsCurrent == Spec => []DistributedIsCurrent
  <1>1. IndInv => DistributedIsCurrent
    BY DEF IndInv
  <1> QED
    BY <1>1, Invariance, PTL

\* A change of the topology is compared with the links of the schedule in
\* force, or set aside for a run that is going to look at it.
THEOREM TopologyChangesMeetTheSchedule == Spec => []RelianceCurrent
  <1>1. IndInv => RelianceCurrent
    BY DEF IndInv
  <1> QED
    BY <1>1, Invariance, PTL

\* Links that a new route uses and that went away while the scheduler was
\* computing are noticed when the schedule is published.
THEOREM RoutesAreWatched == Spec => []NewRoutesWatched
  <1>1. IndInv => NewRoutesWatched
    BY DEF IndInv
  <1> QED
    BY <1>1, Invariance, PTL

\* And links that a new schedule needs absent and that appeared meanwhile.
THEOREM ConflictsAreWatched == Spec => []NewConflictsWatched
  <1>1. IndInv => NewConflictsWatched
    BY DEF IndInv
  <1> QED
    BY <1>1, Invariance, PTL

-----------------------------------------------------------------------------
(***************************************************************************)
(* The scheduler implements the service.                                   *)
(***************************************************************************)
\* What the service sees of the state.
LEMMA ServiceStatusOf ==
    ASSUME NEW s \in Streams
    PROVE  /\ ServiceStatus[s] = "granted" <=> collection[s].status = "ESTABLISHED"
           /\ ServiceStatus[s] = "requested" <=> collection[s].status = "ACCEPTED"
           /\ ServiceStatus[s] \in {"closed", "requested", "granted"}
  BY DEF ServiceStatus

\* All that the changes of a run do to a stream of the collection.
LEMMA AppliedChange ==
    ASSUME NEW snap, NEW scheduled,
           ApplyChanges(StreamChanges(snap, scheduled)), NEW s \in Streams
    PROVE  LET change == StreamChanges(snap, scheduled)[s]
           IN  \/ collection'[s] = collection[s]
               \/ /\ collection[s].status = "ACCEPTED" /\ collection'[s].status = "ESTABLISHED"
                  /\ change = "ESTABLISH" /\ s \in scheduled
               \/ collection[s].status = "ACCEPTED" /\ collection'[s].status = "NOEXIST"
               \/ /\ collection[s].status = "ESTABLISHED" /\ collection'[s].status = "NOEXIST"
                  /\ change = "CLOSE" /\ s \notin scheduled
  <1> DEFINE changes == StreamChanges(snap, scheduled)
             applied == {x \in Streams : Applicable(x, changes[x])}
  <1>1. s \in Ids
    BY DEF Ids
  <1>2. collection'[s] = IF s \notin applied THEN collection[s]
                         ELSE IF changes[s] = "ESTABLISH"
                              THEN Entry("ESTABLISHED", collection[s].params)
                              ELSE NoEntry
    BY <1>1 DEF ApplyChanges
  <1>3. changes[s] = CASE snap[s].status = "ACCEPTED" /\ s \in scheduled -> "ESTABLISH"
                       [] snap[s].status = "ACCEPTED" /\ s \notin scheduled -> "REJECT"
                       [] snap[s].status = "ESTABLISHED" /\ s \notin scheduled -> "CLOSE"
                       [] OTHER -> "none"
    BY DEF StreamChanges
  <1> HIDE DEF changes
  <1>4. s \in applied <=> Applicable(s, changes[s])
    OBVIOUS
  <1> HIDE DEF applied
  <1> QED
    BY <1>2, <1>3, <1>4 DEF Applicable, Entry, NoEntry, changes

\* The plan of the service changes only with the decision of a run: publishing
\* the schedule makes it the current one.
LEMMA ServiceRests ==
    ASSUME UNCHANGED ServiceStatus, UNCHANGED ScheduledStreams(ScheduleToBe),
           UNCHANGED scheduleNotApplied
    PROVE  [Service!Next]_(Service!vars)
  BY DEF Service!vars

\* An SME asks for a stream, withdraws it or leaves it as it is.
LEMMA SmeServes ==
    ASSUME CollectionTypeOK, HandleSME
    PROVE  [Service!Next]_(Service!vars)
  <1>1. /\ UNCHANGED ScheduledStreams(ScheduleToBe)
        /\ UNCHANGED scheduleNotApplied
    BY DEF HandleSME, SchedulerUnchanged, localVars, ScheduleToBe, ScheduledStreams
  <1>2. CASE UNCHANGED collection
    BY <1>1, <1>2, ServiceRests DEF ServiceStatus
  <1>3. CASE \E id \in Servers : \A s \in Streams : collection'[s] = collection[s]
    BY <1>1, <1>3, ServiceRests DEF ServiceStatus
  <1>4. ASSUME NEW id \in Streams,
               \A s \in Streams \ {id} : collection'[s] = collection[s],
               \/ /\ collection[id].status = "NOEXIST"
                  /\ collection'[id].status = "ACCEPTED"
               \/ collection'[id].status = "NOEXIST"
        PROVE  [Service!Next]_(Service!vars)
    <2>1. \A s \in Streams \ {id} : ServiceStatus'[s] = ServiceStatus[s]
      BY <1>4 DEF ServiceStatus
    <2>2. ServiceStatus'[id] = IF collection'[id].status = "ACCEPTED" THEN "requested" ELSE "closed"
      BY <1>4 DEF ServiceStatus
    <2>3. ServiceStatus' = [ServiceStatus EXCEPT ![id] = ServiceStatus'[id]]
      BY <2>1, Zenon DEF ServiceStatus
    <2>4. CASE ServiceStatus[id] = "closed" /\ ServiceStatus'[id] = "requested"
      BY <1>1, <2>3, <2>4 DEF Service!Next, Service!Request
    <2>5. CASE ServiceStatus[id] # "closed" /\ ServiceStatus'[id] = "closed"
      BY <1>1, <2>3, <2>5 DEF Service!Next, Service!Withdraw
    <2>6. CASE ServiceStatus'[id] = ServiceStatus[id]
      <3>1. UNCHANGED ServiceStatus
        BY <2>1, <2>6 DEF ServiceStatus
      <3> QED BY <1>1, <3>1, ServiceRests
    <2>7. collection[id].status = "NOEXIST" => ServiceStatus[id] = "closed"
      BY DEF ServiceStatus
    <2> QED
      BY <1>4, <2>2, <2>4, <2>5, <2>6, <2>7
  <1>5. PICK sme \in SMEs :
         \/ UNCHANGED collection
         \/ sme.id \in Streams /\ (UpdateStream(sme) \/ CreateStream(sme))
         \/ sme.id \in Servers /\ UpdateOrCreateServer(sme)
    BY DEF HandleSME, ReceiveSME
  <1>6. CASE sme.id \in Streams /\ UpdateStream(sme)
    <2>1. CASE sme.type = "CLOSED"
      <3>1. collection' = [collection EXCEPT ![sme.id] = NoEntry] /\ sme.id \in Ids
        BY <1>6, <2>1 DEF UpdateStream, Ids
      <3>2. collection'[sme.id].status = "NOEXIST"
        BY <3>1 DEF CollectionTypeOK, NoEntry
      <3>3. \A s \in Streams \ {sme.id} : collection'[s] = collection[s]
        BY <3>1 DEF CollectionTypeOK
      <3> QED BY <1>4, <1>6, <3>2, <3>3
    <2> QED BY <1>2, <1>6, <2>1 DEF UpdateStream
  <1>7. CASE sme.id \in Streams /\ CreateStream(sme)
    <2>1. collection[sme.id].status = "NOEXIST"
      BY <1>7 DEF CreateStream, NoEntry
    <2>2. CASE ~ UNCHANGED collection
      <3>1. PICK p : collection' = [collection EXCEPT ![sme.id] = Entry("ACCEPTED", p)]
        BY <1>7, <2>2 DEF CreateStream
      <3>2. collection'[sme.id].status = "ACCEPTED"
        BY <1>7, <3>1 DEF CollectionTypeOK, Entry, Ids
      <3>3. \A s \in Streams \ {sme.id} : collection'[s] = collection[s]
        BY <3>1 DEF CollectionTypeOK
      <3> QED BY <1>4, <1>7, <2>1, <3>2, <3>3
    <2> QED BY <1>2, <2>2
  <1>8. CASE sme.id \in Servers /\ UpdateOrCreateServer(sme)
    <2>1. ASSUME NEW s \in Streams
          PROVE  collection'[s] = collection[s]
      <3>1. s # sme.id /\ s \in DOMAIN collection
        BY <1>8, CollectionAssumption DEF CollectionTypeOK, Ids
      <3>2. \/ UNCHANGED collection
            \/ \E e : collection' = [collection EXCEPT ![sme.id] = e]
        BY <1>8 DEF UpdateOrCreateServer
      <3> QED BY <3>1, <3>2
    <2> QED BY <1>3, <1>8, <2>1
  <1> QED
    BY <1>2, <1>5, <1>6, <1>7, <1>8

\* Applying the changes of a run is one decision of the service, although the
\* run has looked at streams and flags long before.
LEMMA ChangesDecide ==
    ASSUME IndInv, EstablishedScheduled', ApplyStreamChanges
    PROVE  Service!Next
  <1> DEFINE plan == ScheduledStreams(ScheduleToBe)
             scheduled == ScheduledStreams(newSchedule)
  <1>1. /\ ApplyChanges(StreamChanges(streamSnapshot.collection, scheduled))
        /\ thread = "applyChanges" /\ UNCHANGED <<newSchedule, schedule, scheduleNotApplied>>
    BY DEF ApplyStreamChanges, Changes, localVars
  <1>2. scheduleNotApplied = FALSE
    BY <1>1 DEF IndInv, WaitsUntilApplied, TypeOK, SchedulerTypeOK
  <1>3. plan' \in SUBSET Streams
    BY <1>1 DEF IndInv, TypeOK, SchedulerTypeOK, Schedules, Blocks, ScheduleToBe, ScheduledStreams
  <1>4. ServiceStatus' \in [Streams -> {"closed", "requested", "granted"}]
    BY DEF ServiceStatus
  <1>5. ASSUME NEW s \in Streams
        PROVE  Service!Decided(s, ServiceStatus'[s], plan')
    <2>1. /\ ServiceStatus[s] = "granted" <=> collection[s].status = "ESTABLISHED"
          /\ ServiceStatus[s] = "requested" <=> collection[s].status = "ACCEPTED"
          /\ ServiceStatus[s] \in {"closed", "requested", "granted"}
      BY ServiceStatusOf
    <2>2. /\ ServiceStatus'[s] = "granted" <=> collection'[s].status = "ESTABLISHED"
          /\ ServiceStatus'[s] = "requested" <=> collection'[s].status = "ACCEPTED"
          /\ ServiceStatus'[s] \in {"closed", "requested", "granted"}
      BY DEF ServiceStatus
    <2>3. ServiceStatus'[s] = "granted" => s \in plan'
      BY <2>2 DEF EstablishedScheduled
    <2>4. CASE collection'[s] = collection[s]
      <3>1. ServiceStatus'[s] = ServiceStatus[s]
        BY <2>1, <2>2, <2>4
      <3> QED BY <2>3, <3>1 DEF Service!Decided
    <2>5. CASE collection[s].status = "ACCEPTED" /\ collection'[s].status = "ESTABLISHED"
      BY <2>1, <2>2, <2>3, <2>5 DEF Service!Decided
    <2>6. CASE collection[s].status = "ACCEPTED" /\ collection'[s].status = "NOEXIST"
      BY <2>1, <2>2, <2>6 DEF Service!Decided
    <2>7. CASE /\ collection[s].status = "ESTABLISHED" /\ collection'[s].status = "NOEXIST"
               /\ StreamChanges(streamSnapshot.collection, scheduled)[s] = "CLOSE"
               /\ s \notin scheduled
      <3>1. thread' = "publishLinks"
        BY <2>7 DEF ApplyStreamChanges, Changes
      <3>2. plan' = scheduled
        BY <1>1, <3>1 DEF ScheduleToBe, ScheduledStreams
      <3> QED BY <2>1, <2>2, <2>7, <3>2 DEF Service!Decided
    <2> QED
      BY <1>1, <2>4, <2>5, <2>6, <2>7, AppliedChange
  <1>6. Service!Decide
    BY <1>1, <1>2, <1>3, <1>4, <1>5 DEF Service!Decide
  <1> QED
    BY <1>6 DEF Service!Next

\* Every step of the scheduler and of the MAC thread is a step of the service, or
\* none at all.
LEMMA ServiceStep ==
    IndInv /\ IndInv' /\ [Next]_vars => [Service!Next]_(Service!vars)
  <1> SUFFICES ASSUME IndInv, IndInv', [Next]_vars
               PROVE  [Service!Next]_(Service!vars)
    OBVIOUS
  <1>1. CASE /\ UNCHANGED <<collection, schedule, scheduleNotApplied>>
             /\ thread' \notin {"publishLinks", "swap"}
             /\ thread \notin {"publishLinks", "swap"}
    <2>1. UNCHANGED ServiceStatus /\ UNCHANGED ScheduledStreams(ScheduleToBe)
      BY <1>1 DEF ServiceStatus, ScheduleToBe, ScheduledStreams
    <2> QED BY <1>1, <2>1, ServiceRests
  <1>2. CASE \/ StartIteration \/ Recheck \/ CheckTopology \/ GetOperation
             \/ GetSnapshot \/ GetGraph \/ PruneGraph \/ ComputeSchedule \/ NotChanged
             \/ BeginScheduling
    <2>1. CASE StartIteration \/ Recheck \/ CheckTopology \/ BeginScheduling
      BY <1>1, <2>1 DEF StartIteration, Recheck, CheckTopology, BeginScheduling, collectionVars
    <2>2. CASE GetOperation
      BY <1>1, <2>2 DEF GetOperation, ConsumeOperation
    <2>3. CASE GetSnapshot
      BY <1>1, <2>3 DEF GetSnapshot, ClearFlags
    <2>4. CASE GetGraph \/ PruneGraph \/ ComputeSchedule \/ NotChanged
      BY <1>1, <2>4 DEF GetGraph, PruneGraph, ComputeSchedule, NotChanged, collectionVars
    <2> QED BY <1>2, <2>1, <2>2, <2>3, <2>4
  <1>3. CASE ApplyStreamChanges
    BY <1>3, ChangesDecide DEF IndInv
  <1>4. CASE Resend
    <2>1. /\ UNCHANGED ServiceStatus
          /\ UNCHANGED ScheduledStreams(ScheduleToBe)
          /\ scheduleNotApplied' = TRUE
      BY <1>4 DEF Resend, collectionVars, localVars, ServiceStatus, ScheduleToBe, ScheduledStreams
    <2>2. ~ scheduleNotApplied
      BY <1>4 DEF Resend, IndInv, WaitsUntilApplied
    <2> QED BY <2>1, <2>2 DEF Service!Next, Service!Distribute
  <1>5. CASE PublishLinks
    <2>1. UNCHANGED ServiceStatus /\ UNCHANGED ScheduledStreams(ScheduleToBe)
      BY <1>5 DEF PublishLinks, collectionVars, localVars, ServiceStatus, ScheduleToBe,
                  ScheduledStreams
    <2> QED BY <1>5, <2>1, ServiceRests DEF PublishLinks
  <1>6. CASE SwapSchedule
    <2>1. /\ UNCHANGED ServiceStatus
          /\ UNCHANGED ScheduledStreams(ScheduleToBe)
          /\ scheduleNotApplied' = TRUE
      BY <1>6 DEF SwapSchedule, collectionVars, ServiceStatus, ScheduleToBe, ScheduledStreams
    <2>2. ~ scheduleNotApplied
      BY <1>6 DEF SwapSchedule, IndInv, WaitsUntilApplied
    <2> QED BY <2>1, <2>2 DEF Service!Next, Service!Distribute
  <1>7. CASE GetSchedule
    <2>1. UNCHANGED ServiceStatus /\ UNCHANGED ScheduledStreams(ScheduleToBe)
      BY <1>7 DEF GetSchedule, collectionVars, localVars, ServiceStatus, ScheduleToBe,
                  ScheduledStreams
    <2> QED BY <1>7, <2>1, ServiceRests DEF GetSchedule
  <1>8. CASE ScheduleSentAndApplied
    <2>1. /\ UNCHANGED ServiceStatus
          /\ UNCHANGED ScheduledStreams(ScheduleToBe)
          /\ scheduleNotApplied' = FALSE
      BY <1>8 DEF ScheduleSentAndApplied, collectionVars, localVars, ServiceStatus, ScheduleToBe,
                  ScheduledStreams
    <2>2. scheduleNotApplied
      BY <1>8 DEF ScheduleSentAndApplied, IndInv, DistributedIsCurrent
    <2> QED BY <2>1, <2>2 DEF Service!Next, Service!Applied
  <1>9. CASE HandleSME
    BY <1>9, SmeServes DEF IndInv, TypeOK
  <1>10. CASE SendInfo \/ HandleTopology \/ UNCHANGED vars
    <2>1. UNCHANGED collection /\ SchedulerUnchanged
      BY <1>10 DEF SendInfo, DequeueInfo, HandleTopology, collectionVars, vars, SchedulerUnchanged
    <2>2. UNCHANGED ServiceStatus /\ UNCHANGED ScheduledStreams(ScheduleToBe)
      BY <2>1 DEF SchedulerUnchanged, localVars, ServiceStatus, ScheduleToBe, ScheduledStreams
    <2> QED BY <2>1, <2>2, ServiceRests DEF SchedulerUnchanged
  <1> QED
    BY <1>2, <1>3, <1>4, <1>5, <1>6, <1>7, <1>8, <1>9, <1>10
    DEF Next, SchedulerStep, DownlinkStep

\* The scheduler thread, its snapshots and the MAC thread implement the service
\* that StreamService specifies (ServiceImplemented).
THEOREM SchedulerServes == Spec => ServiceImplemented
  <1>1. Init => Service!Init
    <2> SUFFICES ASSUME Init PROVE Service!Init
      OBVIOUS
    <2>1. \A s \in Streams : collection[s].status = "NOEXIST"
      BY DEF Init, CollectionInit, Ids, NoEntry
    <2>2. ServiceStatus = [s \in Streams |-> "closed"]
      BY <2>1 DEF ServiceStatus
    <2>3. ScheduledStreams(ScheduleToBe) = {} /\ scheduleNotApplied = FALSE
      BY DEF Init, ScheduleToBe, ScheduledStreams, EmptySchedule
    <2> QED BY <2>2, <2>3 DEF Service!Init
  <1> QED
    BY <1>1, ServiceStep, Invariance, PTL DEF Spec, ServiceImplemented, Service!Spec

=============================================================================
