-------------------------- MODULE ScheduleExpansion --------------------------
(***************************************************************************)
(* What a node makes of a schedule (downlink_phase/schedule_expansion.cpp): *)
(* the action of every slot, how often it forwards each stream, and when   *)
(* the streams that it sends must be woken up.  The expansion takes some   *)
(* elements of the schedule in every downlink (ScheduleDistribution counts *)
(* them); these operators are what it has computed at the end.             *)
(*                                                                         *)
(* A schedule is a record of its elements, at places that give their       *)
(* order, and its tiles; a stream a record of its id, src, dst, period and *)
(* redundancy.                                                             *)
(***************************************************************************)
EXTENDS Integers, SequencesExt, FiniteSetsExt

CONSTANTS
    Superframe,      \* sequence of "downlink" and "uplink"
    SlotsPerTile,
    SlotDuration, DownlinkDuration, TileSlack

ASSUME ExpansionAssumption ==
    /\ Superframe \in Seq({"downlink", "uplink"}) /\ Superframe # <<>>
    /\ SlotsPerTile \in Nat \ {0}
    /\ SlotDuration \in Nat \ {0} /\ DownlinkDuration \in Nat /\ TileSlack \in Nat

Actions == {"SLEEP", "SENDSTREAM", "RECVSTREAM", "SENDBUFFER", "RECVBUFFER"}

\* What the element e asks of the node n.
ActionOf(e, n) ==
    CASE e.tx = n /\ e.stream.src = n -> "SENDSTREAM"
      [] e.rx = n /\ e.stream.dst = n -> "RECVSTREAM"
      [] e.tx = n /\ e.stream.src # n -> "SENDBUFFER"
      [] e.rx = n /\ e.stream.dst # n -> "RECVBUFFER"
      [] OTHER -> "SLEEP"

PeriodSlots(e) == e.stream.period * SlotsPerTile

ScheduleSlots(sched) == sched.tiles * SlotsPerTile

\* The element takes its slot in every period.
Occurs(e, slot) == slot >= e.offset /\ (slot - e.offset) % PeriodSlots(e) = 0

\* Elements of the schedule before the i-th make the node receive the same stream
\* into a buffer: redundant copies share it.
HasBuffer(elements, i, n) ==
    \E j \in DOMAIN elements : /\ j <= i /\ ActionOf(elements[j], n) = "RECVBUFFER"
                               /\ elements[j].stream.id = elements[i].stream.id

\* The explicit schedule: an element overwrites those before it.
ExplicitSchedule(sched, n) ==
    LET elements == sched.elements
        at(slot) == {i \in DOMAIN elements :
                        ActionOf(elements[i], n) # "SLEEP" /\ Occurs(elements[i], slot)}
    IN [slot \in 0..(ScheduleSlots(sched) - 1) |->
            IF at(slot) = {} THEN [action |-> "SLEEP"]
            ELSE LET i == Max(at(slot))
                 IN [action |-> ActionOf(elements[i], n), stream |-> elements[i].stream.id,
                     buffer |-> HasBuffer(elements, i, n)]]

\* How often each stream is sent from its buffer in a period.
ForwardedStreams(sched, n) ==
    LET sends(s) == {i \in DOMAIN sched.elements :
                        /\ ActionOf(sched.elements[i], n) = "SENDBUFFER"
                        /\ sched.elements[i].stream.id = s}
    IN [s \in {sched.elements[i].stream.id : i \in DOMAIN sched.elements} |->
            Cardinality(sends(s))]

(***************************************************************************)
(* The wakeup lists.  Times count from the activation of the schedule.     *)
(***************************************************************************)
TileDuration == SlotsPerTile * SlotDuration + TileSlack

ScheduleDuration(sched) == sched.tiles * TileDuration

\* The elements by which the node sends its own streams.
SendElements(sched, n) == {e \in ToSet(sched.elements) : ActionOf(e, n) = "SENDSTREAM"}

\* The first slot of the node's streams: of all of them, not of each.
MinOffset(sched, n) == Min({e.offset : e \in SendElements(sched, n)})

\* The occurrences of the first copy of each stream that wants to be woken up, at the
\* slot that the advance, in whole slots, comes to.
WakeupSlots(sched, n, advance) ==
    UNION {{[stream |-> e.stream.id,
             slot |-> MinOffset(sched, n) + k * PeriodSlots(e)
                        - advance[e.stream.id] \div SlotDuration] :
                k \in 0..(sched.tiles \div e.stream.period - 1)} :
           e \in {f \in SendElements(sched, n) : advance[f.stream.id] > 0}}

StartOf(slot) == slot * SlotDuration + (slot \div SlotsPerTile) * TileSlack

\* Wakeups before the activation go to the next list, with the time that they have
\* in the schedule before; the others to the current list.
StreamWakeups(sched, n, advance, next) ==
    {[type |-> "STREAM", stream |-> w.stream,
      time |-> IF next THEN StartOf(w.slot + ScheduleSlots(sched)) - ScheduleDuration(sched)
               ELSE StartOf(w.slot)] :
        w \in {v \in WakeupSlots(sched, n, advance) : (v.slot < 0) = next}}

\* The end of every downlink of the schedule.
DownlinkWakeups(sched) ==
    {[type |-> "DOWNLINK", stream |-> 0, time |-> tile * TileDuration + DownlinkDuration] :
        tile \in {t \in 0..(sched.tiles - 1) :
                    Superframe[(t % Len(Superframe)) + 1] = "downlink"}}

\* Ordered by their times; a stream comes before a downlink, streams at the same time in
\* any order.
Earlier(v, w) ==
    \/ v.time < w.time
    \/ v.time = w.time /\ v.type = "STREAM" /\ w.type = "DOWNLINK"
    \/ v.time = w.time /\ v.type = w.type /\ v.stream < w.stream

Ordered(wakeups) ==
    [k \in 1..Cardinality(wakeups) |->
        CHOOSE w \in wakeups : Cardinality({v \in wakeups : Earlier(v, w)}) = k - 1]

CurrList(sched, n, advance) ==
    Ordered(StreamWakeups(sched, n, advance, FALSE) \cup DownlinkWakeups(sched))
NextList(sched, n, advance) == Ordered(StreamWakeups(sched, n, advance, TRUE))

=============================================================================
