------------------------------ MODULE DataPhase ------------------------------
(***************************************************************************)
(* The nodes play a schedule: DataPhase (data_phase/dataphase.{h,cpp}) and *)
(* the data path of Stream (stream/stream.cpp) at both ends of a stream.   *)
(*                                                                         *)
(* A step of the network is one slot of all nodes, which are in step: that *)
(* they are is ScheduleDistribution's concern.  A node that cannot operate *)
(* advances through the slot instead of executing it.  Any reception may   *)
(* fail.  Between slots the applications write and read, and block when    *)
(* the packet before has not been taken, or nothing has come.              *)
(*                                                                         *)
(* A packet on the air is what the application wrote and, where data are   *)
(* authenticated, the nonce that it was sent with: the data superframe and *)
(* the sequence number of the period.  Of the superframe only matters      *)
(* whether it is the current one.                                          *)
(***************************************************************************)
EXTENDS ScheduleExpansion

\* The redundancy says how many copies there are in a period.
Copies == [redundancy \in {"NONE", "DOUBLE", "DOUBLE_SPATIAL", "TRIPLE", "TRIPLE_SPATIAL"} |->
              CASE redundancy = "NONE" -> 1
                [] redundancy \in {"DOUBLE", "DOUBLE_SPATIAL"} -> 2
                [] redundancy \in {"TRIPLE", "TRIPLE_SPATIAL"} -> 3]

CONSTANTS
    Nodes,
    Streams,       \* ids of the streams
    Packets,       \* what applications write
    NoPacket,
    ReservedSlots, \* slots at the start of a tile that the control takes, per kind
    Scenarios      \* sequence of which Init chooses one: records of the schedule (elements with the
                   \* number of their copy, tiles), authenticated, the streams used by
                   \* applications, those with callbacks (none unless the configuration gives
                   \* them time), the nodes that may become unable to operate

ASSUME DataAssumption ==
    /\ NoPacket \notin Packets
    /\ ReservedSlots \in [{"downlink", "uplink"} -> 1..(SlotsPerTile - 1)]
    /\ \A c \in ToSet(Scenarios) :
         /\ c.authenticated \in BOOLEAN /\ c.used \subseteq Streams /\ c.callbacks \subseteq c.used
         /\ c.mayFail \subseteq Nodes
         /\ c.schedule.tiles \in Nat \ {0}
         /\ c.schedule.elements \in Seq(ToSet(c.schedule.elements))
         /\ \A e \in ToSet(c.schedule.elements) :
              /\ e.tx \in Nodes /\ e.rx \in Nodes /\ e.tx # e.rx
              /\ e.stream.id \in Streams /\ e.stream.period \in Nat \ {0}
              /\ e.stream.redundancy \in DOMAIN Copies
              /\ e.offset \in 0..(PeriodSlots(e) - 1)
              /\ c.schedule.tiles % e.stream.period = 0
         /\ \A e, f \in ToSet(c.schedule.elements) : e.stream.id = f.stream.id => e.stream = f.stream

VARIABLES
    scenario,          \* number of the scenario
    played,            \* streams that the schedule in use has
    currentSchedule,   \* explicit schedule of every node
    slotIndex,
    operating,         \* nodes that can operate: macCanOperate()
    bufCtr,            \* of each node, for each stream, sends from the buffer; no limit yet
    buffer,            \* of each node, for each stream it forwards
    tx,                \* sending end of every stream
    rx,                \* receiving end
    writer, reader,    \* the application at each end
    sendCallback,      \* what its callback, if it has set one, puts in the next packet
    recvCallback,      \* streams whose receiving application has set one
    called,            \* what its last call has brought
    established,       \* the ends whose status is ESTABLISHED
    flying,            \* history: what the periods that have begun carry
    through            \* history: copies of the period that met no loss so far

dataVars == <<played, currentSchedule, slotIndex, operating, bufCtr, buffer>>
endVars == <<tx, rx>>
callbackVars == <<sendCallback, recvCallback, called>>
appVars == <<writer, reader, callbackVars, established>>
vars == <<scenario, dataVars, endVars, appVars, flying, through>>

-----------------------------------------------------------------------------
Scenario == Scenarios[scenario]

\* The schedule with some of its streams, and what every node makes of it.
Schedule(ids) ==
    LET elements == Scenario.schedule.elements
    IN [elements |-> Restrict(elements, {i \in DOMAIN elements : elements[i].stream.id \in ids}),
        tiles |-> Scenario.schedule.tiles]

Expanded(sched) == [n \in Nodes |-> ExplicitSchedule(sched, n)]

Slots == ScheduleSlots(Scenario.schedule)

\* Elements that take the slot.
Hops == {e \in ToSet(Scenario.schedule.elements) :
            e.stream.id \in played /\ Occurs(e, slotIndex)}

StreamsOf == {e.stream : e \in ToSet(Scenario.schedule.elements)}
StreamInfo(s) == CHOOSE st \in StreamsOf : st.id = s

RedundancyCount(s) == Copies[StreamInfo(s).redundancy]

EmptyBuffer == [data |-> NoPacket, current |-> FALSE, seqNo |-> 0]

Init ==
    /\ scenario \in DOMAIN Scenarios
    /\ played = {st.id : st \in StreamsOf}
    /\ currentSchedule = Expanded(Schedule(played))
    /\ slotIndex = 0
    /\ operating = Nodes
    /\ bufCtr = [n \in Nodes |-> [s \in Streams |-> 0]]
    /\ buffer = [n \in Nodes |-> [s \in Streams |-> EmptyBuffer]]
    /\ tx = [s \in Streams |-> [next |-> NoPacket, packet |-> NoPacket, count |-> 0, seqNo |-> 1]]
    /\ rx = [s \in Streams |-> [packet |-> NoPacket, count |-> 0, seqNo |-> 1,
                                shared |-> NoPacket, already |-> TRUE]]
    /\ writer = [s \in Streams |-> "idle"] /\ reader = [s \in Streams |-> "idle"]
    /\ sendCallback = [s \in Streams |-> NoPacket] /\ recvCallback = {}
    /\ called = [s \in Streams |-> NoPacket]
    /\ established = [s \in Streams |-> IF s \in played THEN {"tx", "rx"} ELSE {}]
    /\ flying = [s \in Streams |-> <<>>]
    /\ through = [s \in Streams |-> {}]

(***************************************************************************)
(* One slot.                                                               *)
(***************************************************************************)
\* What the node n has to do in the slot, and whether it is about the stream s.
Slot(n) == currentSchedule[n][slotIndex]
Does(n, action, s) == Slot(n).action = action /\ Slot(n).stream = s

Executes(n, action, s) == n \in operating /\ Does(n, action, s)

\* sendPacket() and missPacket() are called also by a node that only advances.
Sends(s) == \E n \in Nodes : Does(n, "SENDSTREAM", s)
Ends(s) == \E n \in Nodes : Does(n, "RECVSTREAM", s)

BeginsPeriod(s) == Sends(s) /\ tx[s].count = 0
EndsPeriod(s) == Ends(s) /\ rx[s].count + 1 >= RedundancyCount(s)

\* sendPacketWithCallback(): what the callback puts replaces what has been written.
Offered(s) == IF sendCallback[s] # NoPacket THEN sendCallback[s] ELSE tx[s].next

\* Mutant: txPacketReady is not cleared when nothing has been written.
TakenOnce(s) == IF tx[s].count = 0 /\ Offered(s) # NoPacket THEN Offered(s) ELSE tx[s].packet

\* updateTxPacket(): the first copy of a period takes what has been written.
Taken(s) == IF tx[s].count = 0 THEN Offered(s) ELSE tx[s].packet

Transmission(s) ==
    IF Taken(s) = NoPacket THEN EmptyBuffer
    ELSE [data |-> Taken(s), current |-> Scenario.authenticated,
          seqNo |-> IF Scenario.authenticated THEN tx[s].seqNo ELSE 0]

\* What the node n puts on the air in the slot.
OnAir(n) ==
    IF n \notin operating THEN EmptyBuffer
    ELSE CASE Slot(n).action = "SENDSTREAM" -> Transmission(Slot(n).stream)
           [] Slot(n).action = "SENDBUFFER" -> IF Slot(n).buffer
                                               THEN buffer[n][Slot(n).stream] ELSE EmptyBuffer
           [] OTHER -> EmptyBuffer

\* Nobody hears another transmitter than that of its element, because transmissions
\* of a schedule do not collide.
Heard(n, lost) ==
    LET from == {e.tx : e \in {f \in Hops : f.rx = n}}
    IN IF n \in lost \/ n \notin operating \/ from = {} THEN EmptyBuffer
       ELSE OnAir(CHOOSE m \in from : TRUE)

AfterSlot(number) == (slotIndex + number) % Slots
Wraps(number) == slotIndex + number >= Slots

\* sendPacket()
SendPacket(s) ==
    IF ~Sends(s) THEN tx[s]
    ELSE LET last == tx[s].count + 1 >= RedundancyCount(s)
         IN [next |-> IF tx[s].count = 0 THEN NoPacket ELSE tx[s].next,
             packet |-> Taken(s),
             count |-> IF last THEN 0 ELSE tx[s].count + 1,
             seqNo |-> IF last THEN tx[s].seqNo + 1 ELSE tx[s].seqNo]

\* Whether a packet passes for one of this period.
Valid(s, packet) ==
    /\ packet # EmptyBuffer
    /\ Scenario.authenticated => packet.current /\ packet.seqNo = rx[s].seqNo

\* Mutant: a miss overwrites what an earlier copy has brought.
ReceivePacketAnew(s, packet) ==
    LET last == rx[s].count + 1 >= RedundancyCount(s)
        received == IF Valid(s, packet) THEN packet.data ELSE NoPacket
    IN IF last THEN [packet |-> NoPacket, count |-> 0, seqNo |-> rx[s].seqNo + 1,
                     shared |-> received, already |-> FALSE]
       ELSE [rx[s] EXCEPT !.packet = received, !.count = @ + 1]

\* receivePacketWithCallback(): the callback takes the packet off the shelf, with the last copy
\* of a period.
ToCallback(s, end) == IF s \in recvCallback THEN [end EXCEPT !.shared = NoPacket] ELSE end

\* receivePacket() or missPacket(): the last copy of a period publishes the packet.
ReceivePacket(s, packet) ==
    LET last == rx[s].count + 1 >= RedundancyCount(s)
        received == IF Valid(s, packet) THEN packet.data ELSE rx[s].packet
    IN IF last THEN [packet |-> NoPacket, count |-> 0, seqNo |-> rx[s].seqNo + 1,
                     shared |-> received, already |-> FALSE]
       ELSE [rx[s] EXCEPT !.packet = received, !.count = @ + 1]

\* Mutant: advance() does not call missPacket().
ReceiveStreamIfAble(s, lost) ==
    LET ends == {n \in operating : Does(n, "RECVSTREAM", s)}
    IN IF ends = {} THEN rx[s]
       ELSE ReceivePacket(s, Heard(CHOOSE n \in ends : TRUE, lost))

ReceiveStream(s, lost) ==
    IF ~Ends(s) THEN rx[s]
    ELSE ReceivePacket(s, Heard(CHOOSE n \in Nodes : Does(n, "RECVSTREAM", s), lost))

\* sendFromBuffer() and receiveToBuffer()
LastTransmission(n, s) == bufCtr[n][s] + 1 >= ForwardedStreams(Scenario.schedule, n)[s]

CountTransmission(n, s) ==
    IF Executes(n, "SENDBUFFER", s) /\ Slot(n).buffer
    THEN IF LastTransmission(n, s) THEN 0 ELSE bufCtr[n][s] + 1
    ELSE bufCtr[n][s]

UseBuffer(n, s, lost) ==
    IF Executes(n, "SENDBUFFER", s) /\ Slot(n).buffer /\ LastTransmission(n, s) THEN EmptyBuffer
    ELSE IF Executes(n, "RECVBUFFER", s) THEN Heard(n, lost)
    ELSE buffer[n][s]

\* resetSequenceNumbers(), and the next number for the data superframe.
Renumbered(ends) == [s \in Streams |-> [ends[s] EXCEPT !.seqNo = 1]]
Aged(packets) == [n \in Nodes |-> [s \in Streams |-> [packets[n][s] EXCEPT !.current = FALSE]]]

Notified(thread) == IF thread = "waiting" THEN "notified" ELSE thread

InDataSlot == slotIndex % SlotsPerTile # 0

\* Copies that no hop has lost.
Through(s, lost) ==
    LET stopped == {e.copy : e \in {f \in Hops : /\ f.stream.id = s
                                                 /\ \/ f.rx \in lost
                                                    \/ {f.tx, f.rx} \cap operating # {f.tx, f.rx}}}
    IN (IF BeginsPeriod(s) THEN 1..RedundancyCount(s) ELSE through[s]) \ stopped

Flying(s) ==
    LET begun == IF BeginsPeriod(s) THEN Append(flying[s], Offered(s)) ELSE flying[s]
    IN IF EndsPeriod(s) /\ begun # <<>> THEN Tail(begun) ELSE begun

\* A callback that is called now will put anything in the packet of the next period.
NextAnswers ==
    {a \in [Streams -> Packets \cup {NoPacket}] :
        \A s \in Streams :
            IF BeginsPeriod(s) /\ sendCallback[s] # NoPacket THEN a[s] \in Packets
                                                            ELSE a[s] = sendCallback[s]}

PlaySlot(lost) ==
    /\ InDataSlot
    /\ LET sent == [s \in Streams |-> SendPacket(s)]
           got == [s \in Streams |-> ReceiveStream(s, lost)]
           kept == [s \in Streams |-> IF EndsPeriod(s) THEN ToCallback(s, got[s]) ELSE got[s]]
           held == [n \in Nodes |-> [s \in Streams |-> UseBuffer(n, s, lost)]]
       IN /\ tx' = IF Wraps(1) THEN Renumbered(sent) ELSE sent
          /\ rx' = IF Wraps(1) THEN Renumbered(kept) ELSE kept
          /\ called' = [s \in Streams |-> IF EndsPeriod(s) /\ s \in recvCallback
                                          THEN got[s].shared ELSE called[s]]
          /\ buffer' = IF Wraps(1) THEN Aged(held) ELSE held
    /\ bufCtr' = [n \in Nodes |-> [s \in Streams |-> CountTransmission(n, s)]]
    /\ slotIndex' = AfterSlot(1)
    /\ sendCallback' \in NextAnswers
    /\ writer' = [s \in Streams |-> IF BeginsPeriod(s) /\ Offered(s) # NoPacket
                                    THEN Notified(writer[s]) ELSE writer[s]]
    /\ reader' = [s \in Streams |-> IF EndsPeriod(s) THEN Notified(reader[s]) ELSE reader[s]]
    /\ flying' = [s \in Streams |-> Flying(s)]
    /\ through' = [s \in Streams |-> Through(s, lost)]
    /\ UNCHANGED <<scenario, played, currentSchedule, operating, recvCallback, established>>

\* The kind of the tile of a slot.
KindOf(slot) == Superframe[((slot \div SlotsPerTile) % Len(Superframe)) + 1]

\* The control slots at the start of a tile; in a downlink a node may stop being able
\* to operate, or be able again.
AdvanceByControl(able) ==
    /\ ~InDataSlot
    /\ slotIndex' = AfterSlot(ReservedSlots[KindOf(slotIndex)])
    /\ able # operating => KindOf(slotIndex) = "downlink"
    /\ Nodes \ able \subseteq Scenario.mayFail
    /\ operating' = able
    /\ UNCHANGED <<scenario, played, currentSchedule, bufCtr, buffer, endVars, appVars, flying, through>>

(***************************************************************************)
(* The applications.                                                       *)
(***************************************************************************)
MayGoOn(thread) == thread \in {"idle", "notified"}

\* write(): a second packet waits until the first has been taken.
Write(s, p) ==
    /\ s \in Scenario.used /\ MayGoOn(writer[s]) /\ sendCallback[s] = NoPacket
    /\ IF "tx" \notin established[s]
       THEN writer' = [writer EXCEPT ![s] = "idle"] /\ UNCHANGED tx
       ELSE IF tx[s].next # NoPacket
       THEN writer' = [writer EXCEPT ![s] = "waiting"] /\ UNCHANGED tx
       ELSE /\ writer' = [writer EXCEPT ![s] = "idle"]
            /\ tx' = [tx EXCEPT ![s].next = p]
    /\ UNCHANGED <<scenario, dataVars, rx, reader, callbackVars, established, flying, through>>

\* read(): once in every period, whether or not something has come.
Read(s) ==
    /\ s \in Scenario.used /\ MayGoOn(reader[s]) /\ s \notin recvCallback
    /\ IF "rx" \notin established[s]
       THEN reader' = [reader EXCEPT ![s] = "idle"] /\ UNCHANGED rx
       ELSE IF rx[s].already
       THEN reader' = [reader EXCEPT ![s] = "waiting"] /\ UNCHANGED rx
       ELSE /\ reader' = [reader EXCEPT ![s] = "idle"]
            /\ rx' = [rx EXCEPT ![s].already = TRUE, ![s].shared = NoPacket]
    /\ UNCHANGED <<scenario, dataVars, tx, writer, callbackVars, established, flying, through>>

\* setSendCallback() and setReceiveCallback(), by an application that is not in write() or
\* read(), which refuse from then on.
SetSendCallback(s, p) ==
    /\ s \in Scenario.callbacks /\ "tx" \in established[s] /\ writer[s] = "idle"
    /\ sendCallback[s] = NoPacket /\ sendCallback' = [sendCallback EXCEPT ![s] = p]
    /\ UNCHANGED <<scenario, dataVars, endVars, writer, reader, recvCallback, called, established,
                   flying, through>>

SetReceiveCallback(s) ==
    /\ s \in Scenario.callbacks /\ "rx" \in established[s] /\ reader[s] = "idle"
    /\ s \notin recvCallback /\ recvCallback' = recvCallback \cup {s}
    /\ UNCHANGED <<scenario, dataVars, endVars, writer, reader, sendCallback, called, established,
                   flying, through>>

\* wakeCallbacks(): the callbacks are told the new status, with no packet.
CallsWithNothing(s) == called' = [called EXCEPT ![s] = NoPacket]

\* One end is closed: wakeWriteRead() and wakeCallbacks().
Close(s, end) ==
    /\ s \in Scenario.used /\ end \in established[s]
    /\ established' = [established EXCEPT ![s] = @ \ {end}]
    /\ writer' = IF end = "tx" THEN [writer EXCEPT ![s] = Notified(@)] ELSE writer
    /\ reader' = IF end = "rx" THEN [reader EXCEPT ![s] = Notified(@)] ELSE reader
    /\ IF end = "rx" THEN CallsWithNothing(s) ELSE UNCHANGED called
    /\ UNCHANGED <<scenario, dataVars, endVars, sendCallback, recvCallback, flying, through>>

\* Mutant: removedStream() does not wake the threads.
RemoveStreamQuietly(s) ==
    /\ slotIndex = 0 /\ s \in played /\ established[s] # {"tx", "rx"}
    /\ played' = played \ {s}
    /\ currentSchedule' = Expanded(Schedule(played'))
    /\ bufCtr' = [n \in Nodes |-> [r \in Streams |-> 0]]
    /\ buffer' = [n \in Nodes |-> [r \in Streams |-> EmptyBuffer]]
    /\ tx' = [r \in Streams |-> [tx[r] EXCEPT !.count = 0]]
    /\ rx' = [r \in Streams |-> [rx[r] EXCEPT !.count = 0]]
    /\ established' = [established EXCEPT ![s] = {}]
    /\ CallsWithNothing(s)
    /\ UNCHANGED <<scenario, slotIndex, operating, writer, reader, sendCallback, recvCallback,
                   flying, through>>

\* A schedule without a stream that one end has closed is applied: applySchedule() of
\* the data phase and of the stream manager, removedStream() at both ends.
RemoveStream(s) ==
    /\ slotIndex = 0 /\ s \in played /\ established[s] # {"tx", "rx"}
    /\ played' = played \ {s}
    /\ currentSchedule' = Expanded(Schedule(played'))
    /\ bufCtr' = [n \in Nodes |-> [r \in Streams |-> 0]]
    /\ buffer' = [n \in Nodes |-> [r \in Streams |-> EmptyBuffer]]
    /\ tx' = [r \in Streams |-> [tx[r] EXCEPT !.count = 0]]
    /\ rx' = [r \in Streams |-> [rx[r] EXCEPT !.count = 0]]
    /\ established' = [established EXCEPT ![s] = {}]
    /\ writer' = [writer EXCEPT ![s] = Notified(@)]
    /\ reader' = [reader EXCEPT ![s] = Notified(@)]
    /\ CallsWithNothing(s)
    /\ UNCHANGED <<scenario, slotIndex, operating, sendCallback, recvCallback, flying, through>>

\* A new slot of the network.
NetworkStep ==
    \/ \E lost \in SUBSET {e.rx : e \in Hops} : PlaySlot(lost)
    \/ \E able \in SUBSET Nodes : AdvanceByControl(able)

Next ==
    \/ NetworkStep
    \/ \E s \in Streams, p \in Packets : Write(s, p) \/ SetSendCallback(s, p)
    \/ \E s \in Streams : Read(s) \/ SetReceiveCallback(s) \/ RemoveStream(s)
    \/ \E s \in Streams, end \in {"tx", "rx"} : Close(s, end)

Spec == Init /\ [][Next]_vars

\* Slots come one after another (only NetworkStep changes slotIndex, and some step of it
\* is always enabled), and a thread that has been notified runs.
Fairness ==
    /\ []<><<slotIndex' # slotIndex>>_slotIndex
    /\ \A s \in Streams :
        /\ WF_writer(writer[s] = "notified" /\ \E p \in Packets : Write(s, p))
        /\ WF_reader(reader[s] = "notified" /\ Read(s))

FairSpec == Spec /\ Fairness

-----------------------------------------------------------------------------
(***************************************************************************)
(* What the properties ask of the schedules.                               *)
(***************************************************************************)
\* A node has one thing to do in a slot.
NodesAreFree(sched) ==
    \A i, j \in DOMAIN sched.elements, slot \in 0..(ScheduleSlots(sched) - 1) :
        LET e == sched.elements[i]
            f == sched.elements[j]
        IN Occurs(e, slot) /\ Occurs(f, slot) /\ {e.tx, e.rx} \cap {f.tx, f.rx} # {} => i = j

\* No data slot is one of the control.
ControlIsSpared(sched) ==
    \A e \in ToSet(sched.elements), slot \in 0..(ScheduleSlots(sched) - 1) :
        Occurs(e, slot) => slot % SlotsPerTile >= ReservedSlots[KindOf(slot)]

\* A stream is sent and received as often as its redundancy says.
FirstHops(sched, st) ==
    {i \in DOMAIN sched.elements : sched.elements[i].stream = st /\ sched.elements[i].tx = st.src}
LastHops(sched, st) ==
    {i \in DOMAIN sched.elements : sched.elements[i].stream = st /\ sched.elements[i].rx = st.dst}

CopiesAreSent(sched) ==
    \A st \in {e.stream : e \in ToSet(sched.elements)} :
        /\ Cardinality(FirstHops(sched, st)) = Copies[st.redundancy]
        /\ Cardinality(LastHops(sched, st)) = Copies[st.redundancy]

\* What is forwarded was received in an earlier slot, what is received is forwarded in a later
\* one, and nothing comes back to the source or leaves the destination.
HopAfterHop(sched) ==
    \A i \in DOMAIN sched.elements :
        LET e == sched.elements[i]
        IN /\ e.rx # e.stream.src /\ e.tx # e.stream.dst
           /\ e.tx # e.stream.src =>
                 \E j \in DOMAIN sched.elements :
                    LET f == sched.elements[j]
                    IN j < i /\ f.stream = e.stream /\ f.rx = e.tx /\ f.offset < e.offset
           /\ e.rx # e.stream.dst =>
                 \E j \in DOMAIN sched.elements :
                    LET f == sched.elements[j]
                    IN j > i /\ f.stream = e.stream /\ f.tx = e.rx /\ f.offset > e.offset

\* SlotAllocation makes such schedules, unless it skips a transmission or drops one copy of
\* two; ControlIsSpared, if periods are superframes or all control slots are equally long.
SchedulesAreWhole ==
    \A c \in ToSet(Scenarios) : /\ NodesAreFree(c.schedule) /\ ControlIsSpared(c.schedule)
                                /\ CopiesAreSent(c.schedule) /\ HopAfterHop(c.schedule)

\* Each copy comes to the destination, and a relay forwards it before it has to do with another:
\* a copy that it does not hear clears the buffer.
CopyAfterCopy(sched) ==
    /\ \A st \in {e.stream : e \in ToSet(sched.elements)} :
          {sched.elements[i].copy : i \in LastHops(sched, st)} = 1..Copies[st.redundancy]
    /\ \A e \in ToSet(sched.elements) :
          e.tx # e.stream.src =>
             \E f \in ToSet(sched.elements) :
                /\ f.stream = e.stream /\ f.copy = e.copy /\ f.rx = e.tx /\ f.offset < e.offset
                /\ \A g \in ToSet(sched.elements) :
                      g.stream = e.stream /\ e.tx \in {g.tx, g.rx} =>
                         g.offset <= f.offset \/ g.offset >= e.offset

\* SlotAllocation does not see to it: each copy is placed from the start of the period.
CopiesStayApart == \A c \in ToSet(Scenarios) : CopyAfterCopy(c.schedule)

\* A relay that was not able to operate may forward an older packet: the receiver must see it.
FailuresAreDetected == \A c \in ToSet(Scenarios) : ~c.authenticated => c.mayFail = {}

(***************************************************************************)
(* Properties.                                                             *)
(***************************************************************************)
\* "this measure works by assuming that when a new schedule begins all redundancy
\* counters should be set to zero": at the end of each period both ends have counted
\* all copies, and agree on the sequence number, also if they did not operate.
EndsInStep ==
    \A s \in played :
        slotIndex % (StreamInfo(s).period * SlotsPerTile) = 0 =>
            /\ tx[s].count = 0 /\ rx[s].count = 0
            /\ tx[s].seqNo = rx[s].seqNo

\* What the reader of a stream gets is what was written for the period just ended, or
\* nothing: never a packet of an earlier period from a relay's buffer, never one twice.
Received(s) == IF s \in recvCallback THEN called[s] ELSE rx[s].shared

Channel == INSTANCE PeriodicChannel WITH
    offered <- [s \in Streams |-> tx[s].next],
    asked <- {s \in Streams : sendCallback[s] # NoPacket},
    shelf <- [s \in Streams |-> Received(s)]

ChannelsImplemented == Channel!Spec

\* One copy that every hop has received is enough for the packet to be delivered.
OneCopySuffices ==
    [][\A s \in Streams :
          flying[s] # <<>> /\ flying'[s] = <<>> /\ through'[s] # {} =>
              Received(s)' = flying[s][1]]_vars

\* A blocked write() returns: its packet is taken in a period to come, or it is told
\* that the stream was closed.  So does a blocked read(), also when nothing arrives.
BlockedCallsReturn ==
    \A s \in Streams :
        /\ writer[s] = "waiting" ~> writer[s] = "idle"
        /\ reader[s] = "waiting" ~> reader[s] = "idle"

=============================================================================
