------------------------ MODULE ScheduleDistribution ------------------------
(***************************************************************************)
(* How a schedule reaches the nodes (downlink_phase/): the master sends    *)
(* its packets scheduleRepetitions times in the downlinks that are free,   *)
(* and then every node rekeys and expands the schedule on its own and      *)
(* switches to it in one agreed tile.  Packets are flooded and can be      *)
(* lost; a node that hears a part of them switches to the empty schedule   *)
(* and asks for another round, and one that hears none learns of the       *)
(* rekeying from a timesync.                                               *)
(*                                                                         *)
(* A downlink tile is a step of the master, which may put a packet on the  *)
(* air, a step of the node, which hears it or not, and one of its key      *)
(* manager.  Nodes hear the master only and never each other's state, so   *)
(* that one node stands for all.  Uplink tiles do not occur but for the    *)
(* challenges, which arrive, late or never.                                *)
(***************************************************************************)
EXTENDS ActivationTile, KeyManager

CONSTANTS
    Networks,             \* network configurations, see below
    Sizes,                \* schedules: [streams, elements, tiles]
    scheduleRepetitions,
    packetCapacity,       \* elements in a packet
    maxHashesPerSlot,     \* stream keys computed in a downlink
    expansionsPerSlot,    \* elements expanded in a downlink
    MaxMissedTimesyncs,
    IncompleteTimeout,    \* downlinks until a schedule is asked for again
    ChallengeTimeout,
    MaxSchedules          \* bound

\* A network: the control superframe of ActivationTile, whether nodes challenge
\* the master (getDoMasterChallengeAuthentication()) and two bounds: whether a
\* timesync may find the clock out of its window, and the last tile.
ValidNetwork(n) ==
    /\ ValidStructure(n)
    /\ n.doMasterChallenge \in BOOLEAN
    /\ n.clockErrors \in BOOLEAN
    /\ n.lastTile \in Nat

ASSUME DistributionAssumption ==
    /\ \A n \in Networks : ValidNetwork(n)
    /\ Sizes \subseteq [streams : Nat, elements : Nat, tiles : Nat]
    /\ \A n \in Networks, z \in Sizes : z.tiles > 0 /\ z.tiles % n.size = 0
    /\ scheduleRepetitions \in Nat \ {0}
    /\ packetCapacity \in Nat \ {0}
    /\ maxHashesPerSlot \in Nat \ {0}
    /\ expansionsPerSlot \in Nat \ {0}
    /\ MaxMissedTimesyncs \in Nat \ {0}
    /\ IncompleteTimeout \in Nat \ {0}
    /\ ChallengeTimeout \in Nat
    /\ MaxSchedules \in Nat

VARIABLES
    network,              \* chosen at the start
    tile,                 \* the current tile, a downlink
    turn,                 \* who acts in it
    air,                  \* the packet the master has sent in it
    master, node,         \* the two schedule distribution phases
    expander, rekeying,   \* ScheduleExpander and the keys of StreamManager
    keys, dataPhase,      \*   of the master and of the node
    timesync,             \* the node's time synchronization
    challenges,           \* challenges in the uplink and at the master
    aborted,              \* the assertion that has ended the node, or "no"
    heard,                \* packets the node has heard since the master began
    absent                \* since it has synchronized, the node has once been
                          \*   unable to operate while it was receiving them

shared == <<expander, rekeying, keys, dataPhase>>
record == <<heard, absent>>
vars == <<network, tile, turn, air, master, node, shared, timesync, challenges, aborted, record>>

Roles == {"master", "node"}

-----------------------------------------------------------------------------
(***************************************************************************)
(* Schedules, their headers and packets.                                   *)
(***************************************************************************)
\* An empty std::vector<ScheduleElement>.
NoSchedule == [id |-> 0, streams |-> 0, elements |-> 0, tiles |-> 0]

\* ScheduleHeader().
NoHeader == [id |-> 0, totalPacket |-> 0, currentPacket |-> 0, repetition |-> 0,
             activationTile |-> 0, scheduleTiles |-> 0]

Silence == [type |-> "none"]

Larger(a, b) == IF a > b THEN a ELSE b
Smaller(a, b) == IF a < b THEN a ELSE b

CeilDiv(a, b) == (a + b - 1) \div b

\* An empty schedule still needs a packet for its header.
NumPackets(s) == Larger(1, CeilDiv(s.elements, packetCapacity))

-----------------------------------------------------------------------------
(***************************************************************************)
(* The expansion of a schedule, over several downlinks if it is long, and  *)
(* the new keys of its streams.                                            *)
(***************************************************************************)
StartExpansion(e, s) ==
    IF e.inProgress THEN e
    ELSE [inProgress |-> TRUE, complete |-> FALSE, index |-> 0, of |-> s.id]

ContinueExpansion(e, s) ==
    LET index == Larger(e.index, Smaller(e.index + expansionsPerSlot, s.elements))
    IN  IF ~e.inProgress THEN e
        ELSE [e EXCEPT !.index = index, !.complete = (index = s.elements),
                       !.inProgress = (index # s.elements)]

\* StreamManager::setSchedule() with its doStartRekeying().
SetStreams(r, s) == [next |-> s.streams, inProgress |-> TRUE, left |-> s.streams]

StartStreamRekeying(r) == [r EXCEPT !.inProgress = TRUE, !.left = r.next]

ContinueStreamRekeying(r) == [r EXCEPT !.left = Larger(@, maxHashesPerSlot) - maxHashesPerSlot]

ApplyStreamRekeying(r) == [r EXCEPT !.inProgress = FALSE]

\* DataPhase::applySchedule() with the expander's result: the slots count
\* from the activation tile, also when the schedule is applied late.
PlaySchedule(e, header) ==
    [id |-> header.id, tiles |-> header.scheduleTiles, base |-> header.activationTile,
     whole |-> e.complete /\ e.of = header.id]

\* What DataPhase::resync() leaves.
EmptyDataPhase == [id |-> 0, tiles |-> 0, base |-> 0, whole |-> TRUE]

-----------------------------------------------------------------------------
(***************************************************************************)
(* The master.                                                             *)
(***************************************************************************)
MastersTurn ==
    /\ turn = "master"
    /\ turn' = "node"
    /\ UNCHANGED <<network, tile, node, timesync, aborted>>

MastersDownlink == MastersTurn /\ ~IsTimesync(network, tile)

\* getNumDownlinksForProcessing(), from the schedule the master still holds.
RekeyingSlots(s) == CeilDiv(Larger(1, s.streams), maxHashesPerSlot)
ExpansionSlots(s) == CeilDiv(Larger(1, s.streams), expansionsPerSlot)

AdvanceSlots == 1 + RekeyingSlots(master.schedule) + ExpansionSlots(master.schedule)

\* The downlinks that the distribution of the schedule s takes, and what
\* getActivationTile() finds for them.
DownlinksFor(s) == scheduleRepetitions * NumPackets(s) + AdvanceSlots
ActivationFor(s) == GetActivationTile(network, tile, DownlinksFor(s))

\* getScheduleAndComputeActivation() for the schedule s.
HeaderFor(s) ==
    [id |-> s.id, totalPacket |-> NumPackets(s), currentPacket |-> 0, repetition |-> 0,
     activationTile |-> AlignToSchedule(network, ActivationFor(s).tile, master.header),
     scheduleTiles |-> s.tiles]

\* The scheduler has a new schedule, or one that is to be sent again.
SchedulesToSend ==
    {[id |-> master.schedule.id + 1, streams |-> z.streams, elements |-> z.elements,
      tiles |-> z.tiles] : z \in IF master.schedule.id < MaxSchedules THEN Sizes ELSE {}}
    \cup ({master.schedule} \ {NoSchedule})

MasterBegins(s) ==
    /\ MastersDownlink
    /\ master.status = "APPLIED_SCHEDULE"
    /\ s \in SchedulesToSend
    /\ ActivationFor(s).done    \* assert(i < 10); it ends the master otherwise
    /\ master' = [master EXCEPT
            !.status = "SENDING_SCHEDULE",
            !.schedule = s,
            !.header = HeaderFor(s),
            !.sendingRounds = scheduleRepetitions * NumPackets(s),
            !.currentSendingRound = 0,
            !.rekeyingSlots = RekeyingSlots(master.schedule),
            !.expansionSlots = ExpansionSlots(master.schedule),
            !.processingSlotCtr = 0]
    /\ heard' = {}
    /\ air' = Silence
    /\ UNCHANGED <<shared, challenges, absent>>

\* sendPkt(): the packet with its tag, made with the key and the nonce of the
\* master's index, is flooded; nodes that get nothing of the flood do not hear it.
Broadcast(type, content) ==
    [type |-> type, masterIndex |-> MasterIndex(keys["master"]), content |-> content]

\* solveChallengesAndGetResponses(): one response for each challenge, which
\* proves to the node that sent it that the master knows the key.
Responses(cs) == {c.chal : c \in cs}

\* sendInfoPkt(): the answers to challenges, and info elements, which may be
\* a reason to send a packet but are not the distribution's business.
SendInfo ==
    LET atMaster == {c \in challenges : c.at = "master"}
    IN  /\ air' \in {Broadcast("info", Responses(atMaster))}
                    \cup (IF atMaster = {} THEN {Silence} ELSE {})
        /\ challenges' = challenges \ atMaster

MasterSendsInfo ==
    /\ MastersDownlink
    /\ \/ master.status = "APPLIED_SCHEDULE"
       \/ master.status = "AWAITING_ACTIVATION" /\ tile < master.header.activationTile
    /\ SendInfo
    /\ UNCHANGED <<master, shared, record>>

\* The counters of the header after a packet has been sent.
NextPacket(h) ==
    IF h.currentPacket + 1 >= h.totalPacket
    THEN [h EXCEPT !.currentPacket = 0, !.repetition = @ + 1]
    ELSE [h EXCEPT !.currentPacket = @ + 1]

MasterSendsPacket ==
    /\ MastersDownlink
    /\ master.status = "SENDING_SCHEDULE"
    /\ master.currentSendingRound < master.sendingRounds
    /\ air' = Broadcast("schedule", [header |-> master.header, schedule |-> master.schedule])
    /\ master' = [master EXCEPT !.header = NextPacket(@), !.currentSendingRound = @ + 1]
    /\ UNCHANGED <<shared, challenges, record>>

\* setNewSchedule()
MasterEndsSending ==
    /\ MastersDownlink
    /\ master.status = "SENDING_SCHEDULE"
    /\ master.currentSendingRound >= master.sendingRounds
    /\ keys' = [keys EXCEPT !["master"] = MasterStartRekeying(@)]
    /\ rekeying' = [rekeying EXCEPT !["master"] = SetStreams(@, master.schedule)]
    /\ master' = [master EXCEPT !.status = "PROCESSING", !.currentSendingRound = @ + 1]
    /\ air' = Silence
    /\ UNCHANGED <<expander, dataPhase, challenges, record>>

\* A downlink before the activation: keys first, then the expansion.
MasterProcesses ==
    LET slot  == master.processingSlotCtr + 1
        slots == master.rekeyingSlots + master.expansionSlots
        begun == IF slot = master.rekeyingSlots
                 THEN StartExpansion(expander["master"], master.schedule)
                 ELSE expander["master"]
    IN  /\ MastersDownlink
        /\ master.status = "PROCESSING"
        /\ tile < master.header.activationTile
        /\ rekeying' = [rekeying EXCEPT !["master"] = ContinueStreamRekeying(@)]
        /\ expander' = [expander EXCEPT !["master"] =
                IF slot >= master.rekeyingSlots /\ slot < slots
                THEN ContinueExpansion(begun, master.schedule) ELSE begun]
        /\ master' = [master EXCEPT !.processingSlotCtr = slot,
                !.status = IF slot >= slots THEN "AWAITING_ACTIVATION" ELSE @]
        /\ air' = Silence
        /\ UNCHANGED <<keys, dataPhase, challenges, record>>

\* applyNewSchedule()
MasterActivates ==
    /\ MastersDownlink
    /\ master.status \in {"PROCESSING", "AWAITING_ACTIVATION"}
    /\ tile >= master.header.activationTile
    /\ dataPhase' = [dataPhase EXCEPT !["master"] =
            PlaySchedule(expander["master"], master.header)]
    /\ rekeying' = [rekeying EXCEPT !["master"] = ApplyStreamRekeying(@)]
    /\ keys' = [keys EXCEPT !["master"] = MasterApplyRekeying(@)]
    /\ master' = [master EXCEPT !.status = "APPLIED_SCHEDULE"]
    /\ air' = Silence
    /\ UNCHANGED <<expander, challenges, record>>

\* Mutant: the timesync always carries the activation tile, also an old one.
MasterTimesync_AlwaysForces ==
    /\ MastersTurn
    /\ IsTimesync(network, tile)
    /\ air' = [type |-> "timesync", masterIndex |-> MasterIndex(keys["master"]),
               activationTile |-> master.header.activationTile]
    /\ UNCHANGED <<master, shared, challenges, record>>

\* MasterTimesyncDownlink::execute(), with getNextActivationTile().
MasterTimesync ==
    /\ MastersTurn
    /\ IsTimesync(network, tile)
    /\ air' = [type |-> "timesync", masterIndex |-> MasterIndex(keys["master"]),
               activationTile |->
                   IF RekeyingInProgress(keys["master"]) /\ master.status # "APPLIED_SCHEDULE"
                   THEN master.header.activationTile ELSE 0]
    /\ UNCHANGED <<master, shared, challenges, record>>

-----------------------------------------------------------------------------
(***************************************************************************)
(* A dynamic node.                                                         *)
(***************************************************************************)
NodesTurn ==
    /\ turn = "node"
    /\ turn' = "update"
    /\ aborted = "no"
    /\ UNCHANGED <<network, tile, air, master>>

NodesDownlink == NodesTurn /\ ~IsTimesync(network, tile) /\ UNCHANGED timesync

\* macCanOperate(); otherwise MACPhase::run() calls advance().
MacCanOperate == timesync.status = "IN_SYNC" /\ ~timesync.error

IsComplete(n) == n.received # {} /\ n.received = 0 .. n.header.totalPacket - 1

\* The schedule being received is another one than the last applied.
IsNewSchedule(n) == n.currentScheduleID > n.lastScheduleID

SendingIsOver(n) ==
    n.status = "SENDING_SCHEDULE" /\ n.currentSendingRound >= n.sendingRounds

ActivationReached(n) == tile >= n.nextActivationTile

\* handleActivationAndRekeying() returns false.
Listens(n) ==
    \/ n.status \in {"APPLIED_SCHEDULE", "INCOMPLETE_SCHEDULE"}
    \/ n.status = "SENDING_SCHEDULE" /\ ~SendingIsOver(n)
    \/ n.status = "AWAITING_ACTIVATION" /\ ~ActivationReached(n)

Unless(ok, assertion) == aborted' = IF ok THEN aborted ELSE assertion

\* What setNewSchedule(), setEmptySchedule() and setSameSchedule() do besides
\* starting to rekey the key manager, for a node that becomes n.
SetNewSchedule(n) ==
    /\ node' = [n EXCEPT !.needToStartExpansion = TRUE, !.needToPerformExpansion = TRUE]
    /\ rekeying' = [rekeying EXCEPT !["node"] = SetStreams(@, node.schedule)]

SetEmptySchedule(n) ==
    /\ node' = [n EXCEPT !.incompleteScheduleCounter = 0]
    /\ UNCHANGED rekeying

SetSameSchedule(n) ==
    /\ node' = n
    /\ rekeying' = [rekeying EXCEPT !["node"] = StartStreamRekeying(@)]

NodeEndsSending ==
    /\ NodesDownlink
    /\ SendingIsOver(node)
    /\ Unless(CanStartRekeying(keys["node"]), "startRekeying")
    /\ keys' = [keys EXCEPT !["node"] = StartRekeying(@)]
    /\ LET n == [node EXCEPT !.status = "PROCESSING",
                             !.nextActivationTile = node.header.activationTile]
       IN  \/ IsNewSchedule(node) /\ IsComplete(node) /\ SetNewSchedule(n)
           \/ IsNewSchedule(node) /\ ~IsComplete(node) /\ SetEmptySchedule(n)
           \/ ~IsNewSchedule(node) /\ SetSameSchedule(n)
    /\ UNCHANGED <<expander, dataPhase, challenges, record>>

\* startExpansion(), if it is still to be done, and continueExpansion(); the
\* node is in status `after' once the expansion is over.
NodeExpands(after) ==
    LET begun    == IF node.needToStartExpansion
                    THEN StartExpansion(expander["node"], node.schedule)
                    ELSE expander["node"]
        expanded == ContinueExpansion(begun, node.schedule)
    IN  /\ expander' = [expander EXCEPT !["node"] = expanded]
        /\ node' = [node EXCEPT !.needToStartExpansion = FALSE,
                !.needToPerformExpansion = @ /\ ~expanded.complete,
                !.status = IF expanded.complete THEN after ELSE @]

\* Before the activation tile: stream keys, expansion, waiting.
NodeProcesses ==
    /\ NodesDownlink
    /\ node.status = "PROCESSING"
    /\ ~ActivationReached(node)
    /\ \/ /\ IsComplete(node)
          /\ rekeying' = [rekeying EXCEPT !["node"] = ContinueStreamRekeying(@)]
          /\ IF rekeying'["node"].inProgress /\ rekeying'["node"].left > 0
             THEN UNCHANGED <<node, expander>>
             ELSE NodeExpands("AWAITING_ACTIVATION")
       \/ /\ ~IsComplete(node)
          /\ node' = [node EXCEPT !.status = "AWAITING_ACTIVATION"]
          /\ UNCHANGED <<rekeying, expander>>
    /\ UNCHANGED <<keys, dataPhase, challenges, record, aborted>>

\* The activation tile has passed and there is still something to expand.
NodeExpandsLate ==
    /\ NodesDownlink
    /\ node.status = "PROCESSING"
    /\ ActivationReached(node)
    /\ IsNewSchedule(node) /\ node.needToPerformExpansion
    /\ NodeExpands("PROCESSING")
    /\ UNCHANGED <<keys, dataPhase, rekeying, challenges, record, aborted>>

\* What applyNewSchedule(), applyEmptySchedule() and applySameSchedule() do
\* besides the key manager's part.
ApplyNewSchedule ==
    /\ node' = [node EXCEPT !.status = "APPLIED_SCHEDULE",
                            !.lastScheduleID = node.currentScheduleID]
    /\ dataPhase' = [dataPhase EXCEPT !["node"] =
            PlaySchedule(expander["node"], node.header)]
    /\ rekeying' = [rekeying EXCEPT !["node"] = ApplyStreamRekeying(@)]

ApplyEmptySchedule ==
    /\ node' = [node EXCEPT !.status = "INCOMPLETE_SCHEDULE", !.header = NoHeader,
                            !.schedule = NoSchedule, !.received = {}]
    /\ dataPhase' = [dataPhase EXCEPT !["node"] = EmptyDataPhase]
    /\ UNCHANGED rekeying

ApplySameSchedule ==
    /\ node' = [node EXCEPT !.status = "APPLIED_SCHEDULE"]
    /\ rekeying' = [rekeying EXCEPT !["node"] = ApplyStreamRekeying(@)]
    /\ UNCHANGED dataPhase

NodeActivates ==
    /\ NodesDownlink
    /\ node.status \in {"PROCESSING", "AWAITING_ACTIVATION"}
    /\ ActivationReached(node)
    /\ \/ /\ IsNewSchedule(node)
          /\ node.status = "PROCESSING" => ~node.needToPerformExpansion
          /\ \/ IsComplete(node) /\ ApplyNewSchedule
             \/ ~IsComplete(node) /\ ApplyEmptySchedule
       \/ ~IsNewSchedule(node) /\ ApplySameSchedule
    /\ Unless(CanApplyRekeying(keys["node"]), "applyRekeying")
    /\ keys' = [keys EXCEPT !["node"] = ApplyRekeying(@)]
    /\ UNCHANGED <<expander, challenges, record>>

-----------------------------------------------------------------------------
(***************************************************************************)
(* A node that listens.                                                    *)
(***************************************************************************)
\* initSchedule(): the counter of rounds is set from the header, so that a
\* node that has missed the first packets stops listening with the others.
InitSchedule(n, p) ==
    [n EXCEPT !.status = "SENDING_SCHEDULE",
              !.header = p.header,
              !.currentScheduleID = p.header.id,
              !.schedule = p.schedule,
              !.received = {p.header.currentPacket},
              !.sendingRounds = p.header.totalPacket * scheduleRepetitions,
              !.currentSendingRound = 1 + p.header.repetition * scheduleRepetitions
                                        + p.header.currentPacket]

SameDistribution(h1, h2) ==
    /\ h1.id = h2.id /\ h1.totalPacket = h2.totalPacket
    /\ h1.scheduleTiles = h2.scheduleTiles /\ h1.activationTile = h2.activationTile

AppendToSchedule(n, p) ==
    IF SameDistribution(n.header, p.header)
    THEN [n EXCEPT !.header = p.header, !.received = @ \cup {p.header.currentPacket},
                   !.currentSendingRound = @ + 1]
    ELSE [n EXCEPT !.currentSendingRound = @ + 1]

HandleIncompleteSchedule(n) ==
    [n EXCEPT !.incompleteScheduleCounter =
        IF @ + 1 >= IncompleteTimeout THEN 0 ELSE @ + 1]

\* Mutant: a packet that is missed is not counted.
AfterMiss_NotCounted(n) ==
    IF n.status = "INCOMPLETE_SCHEDULE" THEN HandleIncompleteSchedule(n) ELSE n

\* Nothing was received, or nothing that could be verified.
AfterMiss(n) ==
    CASE n.status = "INCOMPLETE_SCHEDULE" -> HandleIncompleteSchedule(n)
      [] n.status = "SENDING_SCHEDULE" -> [n EXCEPT !.currentSendingRound = @ + 1]
      [] OTHER -> n

NodeListens == NodesDownlink /\ MacCanOperate /\ Listens(node) /\ UNCHANGED shared

\* The nonce and the key of a packet are those of the sender's index.
CanVerify(p) == p.masterIndex = MasterIndex(keys["node"])

\* recvPkt(): a packet of the flood got through, and its tag is good.
Receives(type) == air.type = type /\ CanVerify(air)

NodeReceivesSchedule ==
    /\ NodeListens
    /\ Receives("schedule")
    /\ heard' = heard \cup {air.content.header.currentPacket}
    /\ Unless(node.status # "AWAITING_ACTIVATION", "scheduleBeforeActivation")
    /\ node' =
           IF node.status = "AWAITING_ACTIVATION" THEN node
           ELSE IF node.status = "SENDING_SCHEDULE" /\ air.content.header.id = node.header.id
                THEN AppendToSchedule(node, air.content)
                ELSE InitSchedule(node, air.content)
    /\ UNCHANGED <<challenges, absent>>

NodeReceivesInfo ==
    /\ NodesDownlink /\ MacCanOperate /\ Listens(node)
    /\ Receives("info")
    /\ node' = IF node.status = "INCOMPLETE_SCHEDULE"
               THEN HandleIncompleteSchedule(node) ELSE node
    /\ IF air.content = {} \/ node.status = "SENDING_SCHEDULE"
       THEN UNCHANGED <<keys, aborted>>
       ELSE \E r \in air.content :
                /\ Unless(CanVerifyResponse(keys["node"]), "verifyResponse")
                /\ keys' = [keys EXCEPT !["node"] = HandleResponse(@, r)]
    /\ UNCHANGED <<expander, rekeying, dataPhase, challenges, record>>

NodeReceivesNothing ==
    /\ NodeListens
    /\ node' = AfterMiss(node)
    /\ UNCHANGED <<challenges, aborted, record>>

\* advance() has nothing to do.
NodeSkips ==
    /\ NodesDownlink
    /\ ~MacCanOperate /\ Listens(node)
    /\ absent' = (absent \/ node.status = "SENDING_SCHEDULE")
    /\ UNCHANGED <<node, shared, challenges, aborted, heard>>

-----------------------------------------------------------------------------
(***************************************************************************)
(* The node's time synchronization and what depends on it.                 *)
(***************************************************************************)
NodesTimesync ==
    /\ NodesTurn
    /\ IsTimesync(network, tile)
    /\ UNCHANGED <<expander, rekeying>>

\* ScheduleDownlinkPhase::desync() in a node.
DesyncDistribution(n) ==
    [n EXCEPT !.header = NoHeader, !.schedule = NoSchedule, !.received = {},
              !.incompleteScheduleCounter = 0, !.lastScheduleID = 0, !.currentScheduleID = 0,
              !.nextActivationTile = 0, !.status = "APPLIED_SCHEDULE"]

\* desyncMAC() of a node whose key manager is k.
DesyncMAC(k) ==
    /\ timesync' = [timesync EXCEPT !.status = "DESYNCHRONIZED"]
    /\ keys' = [keys EXCEPT !["node"] = DesyncKeys(k)]
    /\ node' = DesyncDistribution(node)
    /\ heard' = {} /\ absent' = FALSE
    /\ UNCHANGED dataPhase

\* missedPacket() of a node whose key manager is k.
MissedPacket(k) ==
    IF timesync.missed + 1 >= MaxMissedTimesyncs THEN DesyncMAC(k)
    ELSE /\ timesync' = [timesync EXCEPT !.missed = @ + 1]
         /\ keys' = [keys EXCEPT !["node"] = k]
         /\ UNCHANGED <<node, dataPhase, record>>

\* Mutant: a node that is rekeying is forced as well.
MustForce_Always(k) == air.activationTile # 0

\* handleActivationTile(): the master is rekeying and this node, with the key
\* manager k, is not.
MustForce(k) == ~RekeyingInProgress(k) /\ air.activationTile # 0

\* forceScheduleActivation()
ForceScheduleActivation(n) ==
    [n EXCEPT !.status = "PROCESSING", !.incompleteScheduleCounter = 0,
              !.nextActivationTile = air.activationTile]

HandleActivationTile(k) == IF MustForce(k) THEN StartRekeying(k) ELSE k

\* periodicSync() of a packet that is heard.  A node behind the master by one
\* index advances, unless it is rekeying, when it takes the packet for a bad one.
NodeHearsTimesync ==
    LET k        == keys["node"]
        expected == MasterIndex(k)
        advanced == IF air.masterIndex = expected + 1 THEN Advance(k) ELSE k
        valid    == /\ air.masterIndex \in {expected, expected + 1}
                    /\ MasterIndex(advanced) = air.masterIndex
        synced   == CommitAdvance(advanced)
    IN  /\ NodesTimesync
        /\ timesync.status # "DESYNCHRONIZED"
        /\ IF valid
           THEN /\ timesync' \in {[status |-> "IN_SYNC", missed |-> 0, error |-> e] :
                                     e \in {FALSE, network.clockErrors}}
                /\ keys' = [keys EXCEPT !["node"] = HandleActivationTile(synced)]
                /\ node' = IF MustForce(synced) THEN ForceScheduleActivation(node) ELSE node
                /\ Unless(MustForce(synced) => CanStartRekeying(synced), "startRekeying")
                /\ UNCHANGED <<dataPhase, record>>
           ELSE MissedPacket(RollbackAdvance(advanced)) /\ UNCHANGED aborted
        /\ UNCHANGED challenges

NodeMissesTimesync ==
    /\ NodesTimesync
    /\ timesync.status # "DESYNCHRONIZED"
    /\ MissedPacket(keys["node"])
    /\ UNCHANGED <<challenges, aborted>>

\* sendChallenge() and resendChallenge(): an SME in the node's queue.
ChallengeSme(k) == [at |-> "uplink", chal |-> k.chal]

\* resyncTime(), which waits for a timesync for as long as it takes.
NodeResyncs ==
    LET k      == AttemptResync(keys["node"], air.masterIndex)
        forced == HandleActivationTile(k)
    IN  /\ NodesTimesync
        /\ timesync.status = "DESYNCHRONIZED"
        /\ k.status = "MASTER_UNTRUSTED"
        /\ timesync' = [status |-> "SYNCING", missed |-> 0, error |-> FALSE]
        /\ IF network.doMasterChallenge
           THEN /\ keys' = [keys EXCEPT !["node"] = SendChallenge(forced)]
                /\ challenges' = challenges \cup {ChallengeSme(keys'["node"])}
           ELSE /\ keys' = [keys EXCEPT !["node"] = CommitResync(forced)]
                /\ UNCHANGED challenges
        /\ node' = IF MustForce(k) THEN ForceScheduleActivation(node) ELSE node
        /\ dataPhase' = [dataPhase EXCEPT !["node"] = EmptyDataPhase]
        /\ UNCHANGED <<record, aborted>>

\* The timesync is not heard, or its index is lower than the node's: the node
\* desynchronizes, as it is already, and waits for another.
NodeStaysDesynchronized ==
    /\ NodesTimesync
    /\ timesync.status = "DESYNCHRONIZED"
    /\ UNCHANGED <<timesync, keys, node, dataPhase, challenges, record, aborted>>

-----------------------------------------------------------------------------
(***************************************************************************)
(* The end of a tile; challenges on their way.                             *)
(***************************************************************************)
NextTile ==
    /\ NextDownlink(network, tile) <= network.lastTile
    /\ tile' = NextDownlink(network, tile)
    /\ turn' = "master"
    /\ air' = Silence
    /\ UNCHANGED <<network, master, expander, rekeying, dataPhase>>

\* KeyManager::periodicUpdate(), after every downlink but the timesyncs.
NodeUpdatesKeys ==
    LET update == PeriodicUpdate(keys["node"], ChallengeTimeout)
    IN  /\ turn = "update" /\ aborted = "no"
        /\ network.doMasterChallenge /\ ~IsTimesync(network, tile)
        /\ NextTile
        /\ challenges' = IF update.resend
                         THEN challenges \cup {ChallengeSme(keys["node"])}
                         ELSE challenges
        /\ IF update.desync THEN DesyncMAC(update.keys)
           ELSE /\ keys' = [keys EXCEPT !["node"] = update.keys]
                /\ UNCHANGED <<timesync, node, record>>
        /\ UNCHANGED aborted

TileEnds ==
    /\ \/ turn = "update" /\ ~(network.doMasterChallenge /\ ~IsTimesync(network, tile))
       \/ aborted # "no" /\ turn # "master"
    /\ NextTile
    /\ UNCHANGED <<node, keys, timesync, challenges, aborted, record>>

\* The uplink brings a challenge to the master, whose queue has one place for
\* each node.  A challenge that is lost stays in the uplink for ever.
ChallengeArrives ==
    /\ turn = "master"
    /\ \E c \in challenges :
          /\ c.at = "uplink"
          /\ challenges' = {d \in challenges : d.at = "uplink" /\ d # c}
                               \cup {[c EXCEPT !.at = "master"]}
    /\ UNCHANGED <<network, tile, turn, air, master, node, shared, timesync, aborted, record>>

-----------------------------------------------------------------------------
MasterAtStart ==
    [status |-> "APPLIED_SCHEDULE", schedule |-> NoSchedule, header |-> NoHeader,
     sendingRounds |-> 0, currentSendingRound |-> 0, rekeyingSlots |-> 0,
     expansionSlots |-> 0, processingSlotCtr |-> 0]

NodeAtStart ==
    [status |-> "APPLIED_SCHEDULE", schedule |-> NoSchedule, header |-> NoHeader,
     received |-> {}, sendingRounds |-> 0, currentSendingRound |-> 0,
     currentScheduleID |-> 0, lastScheduleID |-> 0, nextActivationTile |-> 0,
     incompleteScheduleCounter |-> 0,
     needToStartExpansion |-> FALSE, needToPerformExpansion |-> FALSE]

Init ==
    /\ network \in Networks
    /\ tile = 0
    /\ turn = "master"
    /\ air = Silence
    /\ master = MasterAtStart
    /\ node = NodeAtStart
    /\ expander = [r \in Roles |-> [inProgress |-> FALSE, complete |-> FALSE, index |-> 0, of |-> 0]]
    /\ rekeying = [r \in Roles |-> [next |-> 0, inProgress |-> FALSE, left |-> 0]]
    /\ keys = [r \in Roles |-> NewKeyManager(IF r = "master" THEN "CONNECTED" ELSE "DISCONNECTED")]
    /\ dataPhase = [r \in Roles |-> EmptyDataPhase]
    /\ timesync = [status |-> "DESYNCHRONIZED", missed |-> 0, error |-> FALSE]
    /\ challenges = {}
    /\ aborted = "no"
    /\ heard = {} /\ absent = FALSE

MasterStep ==
    \/ \E s \in SchedulesToSend : MasterBegins(s)
    \/ MasterSendsInfo \/ MasterSendsPacket \/ MasterEndsSending
    \/ MasterProcesses \/ MasterActivates \/ MasterTimesync

NodeStep ==
    \/ NodeEndsSending \/ NodeProcesses \/ NodeExpandsLate \/ NodeActivates
    \/ NodeReceivesSchedule \/ NodeReceivesInfo \/ NodeReceivesNothing \/ NodeSkips
    \/ NodeHearsTimesync \/ NodeMissesTimesync \/ NodeResyncs \/ NodeStaysDesynchronized

Next ==
    \/ MasterStep \/ NodeStep
    \/ NodeUpdatesKeys \/ TileEnds \/ ChallengeArrives

Spec == Init /\ [][Next]_vars

-----------------------------------------------------------------------------
(***************************************************************************)
(* Properties.                                                             *)
(***************************************************************************)
Indices == 0 .. network.lastTile

MasterStatus == {"APPLIED_SCHEDULE", "SENDING_SCHEDULE", "PROCESSING", "AWAITING_ACTIVATION"}

\* Every variable stays within its type.
TypeOK ==
    /\ network \in Networks /\ tile \in 0 .. network.lastTile /\ turn \in {"master", "node", "update"}
    /\ master.status \in MasterStatus
    /\ node.status \in MasterStatus \cup {"INCOMPLETE_SCHEDULE"}
    /\ node.received \subseteq Nat /\ heard \subseteq Nat /\ absent \in BOOLEAN
    /\ keys \in [Roles -> KeyManagers(Indices, Indices, 0 .. ChallengeTimeout)]
    /\ timesync \in [status : {"DESYNCHRONIZED", "SYNCING", "IN_SYNC"},
                     missed : 0 .. MaxMissedTimesyncs - 1, error : BOOLEAN]
    /\ challenges \subseteq [at : {"uplink", "master"}, chal : Indices]
    /\ aborted \in {"no", "startRekeying", "applyRekeying", "verifyResponse",
                    "scheduleBeforeActivation"}

\* printf("BUG: receiving schedule before previous schedule activation"), with
\* its assertion: a node that has stopped listening for the packets of a
\* schedule hears no other until it has activated it.
NoScheduleBeforeActivation == aborted # "scheduleBeforeActivation"

\* startRekeying() and applyRekeying() of the key manager alternate, whether the
\* distribution or a timesync starts them and whatever is lost: their
\* assertions do not fail.
RekeyingIsPaired == aborted \notin {"startRekeying", "applyRekeying"}

\* The activation tile that is sent with the first packet leaves the downlinks
\* that the rest of the distribution takes, timesyncs not counted: the master
\* still sends or processes only before it, and is in time to activate in it.
MasterIsInTime ==
    /\ turn = "master" /\ master.status \in {"SENDING_SCHEDULE", "PROCESSING"} =>
           tile < master.header.activationTile
    /\ master.status = "AWAITING_ACTIVATION" => tile <= master.header.activationTile

\* What a superframe and a period of the schedule in use require of it: data
\* slots are never cut.  It compares two schedules that are far apart.
SwitchesAtBoundary ==
    [][LET old == dataPhase["master"]
           new == dataPhase'["master"]
       IN  new # old =>
              /\ new.base = tile
              /\ tile % network.size = 0
              /\ old.base # 0 => (tile - old.base) % old.tiles = 0]_vars

\* A master and a node that play the same schedule are at the same slot of it,
\* also when it was sent again and only one has activated it again.
SameSlot ==
    /\ dataPhase["node"].id = dataPhase["master"].id /\ dataPhase["node"].id # 0
    => LET m == dataPhase["master"] n == dataPhase["node"]
       IN  n.tiles = m.tiles /\ (Larger(m.base, n.base) - Smaller(m.base, n.base)) % m.tiles = 0

\* At the end of the activation tile a node that has heard a packet of the
\* schedule, and could operate since, plays that schedule or none, so that it
\* never transmits in another node's slots; one that has heard all of them
\* plays it, completely expanded.
SwitchesTogether ==
    /\ turn = "update" /\ aborted = "no" /\ ~absent
    /\ master.status = "APPLIED_SCHEDULE" /\ tile = master.header.activationTile
    => /\ heard # {} => dataPhase["node"].id \in {0, master.schedule.id}
       /\ heard = 0 .. master.header.totalPacket - 1 =>
              dataPhase["node"].id = master.schedule.id /\ dataPhase["node"].whole

\* A node never takes a key of the chain before the master has: it would
\* understand no packet any more, and refuse to go back when it resynchronizes.
KeyIsAhead == MasterIndex(keys["node"]) > MasterIndex(keys["master"])
NoKeyAhead == [][KeyIsAhead' => KeyIsAhead \/ absent]_vars

=============================================================================
