---------------------------- MODULE StreamWakeup ----------------------------
(***************************************************************************)
(* The thread of a node that wakes up the streams which ask for it some    *)
(* time before they send: StreamQueue and StreamWakeupScheduler            *)
(* (stream/stream_queue.cpp, stream/stream_wakeup_scheduler.cpp), with the *)
(* MAC thread that gives it the header and the wakeup lists of every new   *)
(* schedule in downlinks, and an application that waits on each stream.    *)
(*                                                                         *)
(* Time is relative: a time is the number of ticks from now, and Tick      *)
(* takes one from all of them.  The thread runs as soon as its sleep is    *)
(* over, and what it does between two sleeps takes no time.                *)
(***************************************************************************)
EXTENDS ScheduleExpansion

CONSTANTS
    Streams,
    Schedules,     \* function from numbers to schedules
    Node, Advance, \* wakeup advance of each stream of the node
    MaxLead,       \* bound: ticks from a header to the activation that it announces
    None

ASSUME WakeupAssumption ==
    /\ \A k \in DOMAIN Schedules :
         /\ Schedules[k].tiles > 0 /\ Schedules[k].tiles % Len(Superframe) = 0
         /\ \A e \in ToSet(Schedules[k].elements) : e.stream.id \in Streams
    /\ Advance \in [Streams -> 0..TileDuration]
    /\ DownlinkDuration < TileDuration /\ MaxLead \in Nat
    /\ None \notin DOMAIN Schedules
    /\ Superframe[1] = "downlink"

VARIABLES
    clock,       \* position in the control superframe
    stage,       \* of the MAC: "applied", "header" or "lists" of a new schedule set
    acted,       \* the MAC has done its work for this downlink
    newSchedule, \* newScheduleData: number, activation, queues
    schedule,    \* scheduleData: the same of the schedule in use; its activation is past
    available,   \* newScheduleAvailable
    thread,      \* its state, when its sleep ends, and what it does then
    waiting,     \* streams on which the application is blocked in wait()
    current,     \* history: the schedule whose wakeups are due, and its phase
    coming,      \* history: the one to follow, and when
    settling,    \* history: ticks in which the thread may not have noticed current yet
    woken        \* history: streams woken up since the last tick

macVars == <<stage, acted>>
threadVars == <<schedule, available, thread>>
history == <<current, coming, settling, woken>>
vars == <<clock, macVars, newSchedule, threadVars, waiting, history>>

-----------------------------------------------------------------------------
SuperframeDuration == Len(Superframe) * TileDuration
Duration == [k \in DOMAIN Schedules |-> ScheduleDuration(Schedules[k])]
Curr == [k \in DOMAIN Schedules |-> CurrList(Schedules[k], Node, Advance)]
NextOf == [k \in DOMAIN Schedules |-> NextList(Schedules[k], Node, Advance)]
Woken(k) == {w.stream : w \in ToSet(Curr[k]) \cup ToSet(NextOf[k])} \ {0}

(***************************************************************************)
(* StreamQueue                                                             *)
(***************************************************************************)
EmptyQueue == [list |-> <<>>, index |-> 1]

Delayed(list, t) == [i \in DOMAIN list |-> [list[i] EXCEPT !.time = @ + t]]

Queue(list, t) == [list |-> Delayed(list, t), index |-> 1]

Element(q) == q.list[q.index]

\* updateElement(): the element comes again after the duration of the schedule, and the
\* next one is in front if it is earlier.
Updated(q, increment) ==
    IF q.list = <<>> THEN q
    ELSE LET list == [q.list EXCEPT ![q.index].time = @ + increment]
             after == (q.index % Len(list)) + 1
         IN [list |-> list,
             index |-> IF list[after].time < list[q.index].time THEN after ELSE q.index]

\* Mutant: the first queue is taken whenever it has an element.
FirstNotEmpty(q1, q2) == q1.list # <<>> \/ q2.list = <<>>

\* compare(): the first queue has precedence.
FirstHasFront(q1, q2) ==
    q2.list = <<>> \/ (q1.list # <<>> /\ Element(q1).time <= Element(q2).time)

Nothing == [type |-> "NONE", stream |-> 0, time |-> 0]

-----------------------------------------------------------------------------
NoSchedule == [sched |-> None, activation |-> 0, curr |-> EmptyQueue, next |-> EmptyQueue]

Init ==
    /\ clock = 0
    /\ stage = "applied" /\ acted = FALSE
    /\ newSchedule = NoSchedule /\ schedule = NoSchedule
    /\ available = FALSE
    /\ thread = [state |-> "IDLE", until |-> 0, after |-> "iterate", stream |-> 0]
    /\ waiting = {}
    /\ current = [sched |-> None, phase |-> 0]
    /\ coming = [sched |-> None, togo |-> 0]
    /\ settling = 0 /\ woken = {}

(***************************************************************************)
(* The MAC thread.  The header of a schedule comes in the downlink after   *)
(* its last packet, the lists in a later one, and in another, not before   *)
(* the activation, it is applied.                                          *)
(***************************************************************************)
InDownlink(time) ==
    /\ Superframe[(time \div TileDuration) + 1] = "downlink"
    /\ time % TileDuration <= DownlinkDuration

MayAct == InDownlink(clock) /\ ~acted

\* When schedules can be activated: at the end of a repetition of the one before, or,
\* on a node that has joined late, in the past.  A past activation counts from the
\* last repetition.
Activations(k) ==
    LET superframes(T) == {t \in T : (clock + t) % SuperframeDuration = 0}
        future == superframes(1..MaxLead)
        last == newSchedule.sched
    IN superframes((1 - Duration[k])..0)
       \cup IF last = None THEN future
            ELSE {t \in future : (t - newSchedule.activation) % Duration[last] = 0}

SetScheduleHeader(k, activation) ==
    /\ MayAct /\ stage = "applied"
    /\ activation \in Activations(k)
    /\ newSchedule' = [newSchedule EXCEPT !.sched = k, !.activation = activation]
    /\ stage' = "header" /\ acted' = TRUE
    /\ UNCHANGED <<clock, threadVars, waiting, history>>

\* Lists that come too late are those of the next repetition.
SetStreamsWakeupLists ==
    LET k == newSchedule.sched
        late == newSchedule.activation <= 0
        start == IF late THEN newSchedule.activation + Duration[k] ELSE newSchedule.activation
    IN /\ MayAct /\ stage = "header"
       /\ newSchedule' = [newSchedule EXCEPT !.curr = Queue(Curr[k], start),
                                             !.next = Queue(NextOf[k], start)]
       /\ available' = TRUE
       /\ stage' = "lists" /\ acted' = TRUE
       /\ coming' = [sched |-> k, togo |-> start]
       /\ current' = IF late THEN [sched |-> None, phase |-> 0] ELSE current
       /\ UNCHANGED <<clock, schedule, thread, waiting, settling, woken>>

\* removedStream() ends the wait() of a stream that has left the schedule.
ApplyDue == MayAct /\ stage = "lists" /\ newSchedule.activation <= 0

ApplySchedule ==
    /\ ApplyDue
    /\ stage' = "applied" /\ acted' = TRUE
    /\ waiting' = waiting \cap Woken(newSchedule.sched)
    /\ UNCHANGED <<clock, newSchedule, threadVars, history>>

(***************************************************************************)
(* The wakeup thread: an iteration of run() up to the next sleep, and what *)
(* it does when the sleep is over.                                         *)
(***************************************************************************)
SleepUntil(time, after) ==
    [until |-> IF time > 0 THEN time ELSE 0, after |-> after, stream |-> 0]

SleepForStream(info) ==
    [SleepUntil(info.time, "wakeup") EXCEPT !.stream = info.stream]

NextTile == TileDuration - (clock % TileDuration)

Iterates(state) == thread.state = state /\ thread.until = 0 /\ thread.after = "iterate"

Continue(state, sleep) == thread' = sleep @@ [state |-> state]

Now == SleepUntil(0, "iterate")

\* idle(): wait for a schedule, until the end of a downlink in the next tile.
Idle ==
    /\ Iterates("IDLE")
    /\ IF available
       THEN available' = FALSE /\ Continue("AWAITING_ACTIVATION", Now)
       ELSE UNCHANGED available /\ Continue("IDLE", SleepUntil(NextTile + DownlinkDuration, "iterate"))
    /\ UNCHANGED <<clock, macVars, newSchedule, schedule, waiting, history>>

\* The activation tile has been reached.  The new queues are not read again.
ApplyNewSchedule ==
    /\ Iterates("AWAITING_ACTIVATION")
    /\ newSchedule.activation <= 0
    /\ schedule' = [newSchedule EXCEPT !.activation = 0]
    /\ newSchedule' = [newSchedule EXCEPT !.curr = EmptyQueue, !.next = EmptyQueue]
    /\ available' = FALSE
    /\ Continue("ACTIVE", Now)
    /\ UNCHANGED <<clock, macVars, waiting, history>>

\* In the last superframe before the activation the next list is that of the new schedule.
LastSuperframe ==
    thread.state = "AWAITING_ACTIVATION" /\ newSchedule.activation <= SuperframeDuration

NextQueue == IF LastSuperframe THEN newSchedule.next ELSE schedule.next

UsesCurr == FirstHasFront(schedule.curr, NextQueue)

\* getNextWakeupInfo()
NextWakeupInfo ==
    LET q == IF UsesCurr THEN schedule.curr ELSE NextQueue
    IN IF q.list = <<>> THEN Nothing ELSE Element(q)

UpdateLastUsedQueue ==
    IF UsesCurr
    THEN /\ schedule' = [schedule EXCEPT !.curr = Updated(@, Duration[schedule.sched])]
         /\ UNCHANGED newSchedule
    ELSE IF LastSuperframe
    THEN /\ newSchedule' = [newSchedule EXCEPT !.next = Updated(@, Duration[newSchedule.sched])]
         /\ UNCHANGED schedule
    ELSE /\ schedule' = [schedule EXCEPT !.next = Updated(@, Duration[schedule.sched])]
         /\ UNCHANGED newSchedule

\* awaitingActivation(): downlinks are not waited for.
AwaitingActivation ==
    LET info == NextWakeupInfo
    IN /\ Iterates("AWAITING_ACTIVATION")
       /\ newSchedule.activation > 0
       /\ IF info.type # "NONE" /\ info.time >= newSchedule.activation
          THEN /\ Continue("AWAITING_ACTIVATION", SleepUntil(newSchedule.activation, "iterate"))
               /\ UNCHANGED <<schedule, newSchedule>>
          ELSE /\ UpdateLastUsedQueue
               /\ Continue("AWAITING_ACTIVATION",
                           CASE info.type = "STREAM" -> SleepForStream(info)
                             [] info.type = "DOWNLINK" -> Now
                             [] info.type = "NONE" -> SleepUntil(NextTile, "iterate"))
       /\ UNCHANGED <<clock, macVars, available, waiting, history>>

\* active()
Active ==
    LET info == NextWakeupInfo
    IN /\ Iterates("ACTIVE")
       /\ UpdateLastUsedQueue
       /\ Continue("ACTIVE",
                   CASE info.type = "STREAM" -> SleepForStream(info)
                     [] info.type = "DOWNLINK" -> SleepUntil(info.time, "check")
                     [] info.type = "NONE" -> SleepUntil(NextTile, "iterate"))
       /\ UNCHANGED <<clock, macVars, available, waiting, history>>

\* Mutant: the stream is read from the queue after the queue has moved on.
WakeupFront ==
    /\ thread.until = 0 /\ thread.after = "wakeup"
    /\ woken' = woken \cup {NextWakeupInfo.stream}
    /\ waiting' = waiting \ {NextWakeupInfo.stream}
    /\ Continue(thread.state, Now)
    /\ UNCHANGED <<clock, macVars, newSchedule, schedule, available, current, coming, settling>>

\* Stream::wakeup() has no effect on an application that is not waiting.
WakeupStream ==
    /\ thread.until = 0 /\ thread.after = "wakeup"
    /\ woken' = woken \cup {thread.stream}
    /\ waiting' = waiting \ {thread.stream}
    /\ Continue(thread.state, Now)
    /\ UNCHANGED <<clock, macVars, newSchedule, schedule, available, current, coming, settling>>

CheckNewSchedule ==
    /\ thread.until = 0 /\ thread.after = "check"
    /\ available' = FALSE
    /\ Continue(IF available THEN "AWAITING_ACTIVATION" ELSE "ACTIVE", Now)
    /\ UNCHANGED <<clock, macVars, newSchedule, schedule, waiting, history>>

\* Stream::wait()
Wait(s) ==
    /\ s \notin waiting /\ waiting' = waiting \cup {s}
    /\ UNCHANGED <<clock, macVars, newSchedule, threadVars, history>>

(***************************************************************************)
(* Time passes while the thread sleeps; the MAC applies a schedule in the  *)
(* first downlink after its activation.                                    *)
(***************************************************************************)
Passed(k, t) == CASE k = None -> 0
                  [] k # None /\ t <= -Duration[k] -> t + Duration[k]
                  [] OTHER -> t

Older(data) == [data EXCEPT !.curr.list = Delayed(@, -1), !.next.list = Delayed(@, -1)]

Begins == coming.sched # None /\ coming.togo = 1

Tick ==
    /\ thread.until > 0
    /\ ~(ApplyDue /\ ~InDownlink((clock + 1) % SuperframeDuration))
    /\ clock' = (clock + 1) % SuperframeDuration
    /\ acted' = (acted /\ InDownlink(clock'))
    /\ newSchedule' = [Older(newSchedule) EXCEPT !.activation = Passed(newSchedule.sched, @ - 1)]
    /\ schedule' = Older(schedule)
    /\ thread' = [thread EXCEPT !.until = @ - 1]
    /\ current' = IF Begins THEN [sched |-> coming.sched, phase |-> 0]
                  ELSE IF current.sched = None THEN current
                  ELSE [current EXCEPT !.phase = (@ + 1) % Duration[current.sched]]
    /\ coming' = IF Begins THEN [sched |-> None, togo |-> 0]
                 ELSE IF coming.sched = None THEN coming ELSE [coming EXCEPT !.togo = @ - 1]
    /\ settling' = IF Begins THEN DownlinkDuration ELSE IF settling > 0 THEN settling - 1 ELSE 0
    /\ woken' = {}
    /\ UNCHANGED <<stage, available, waiting>>

RunThread == Idle \/ ApplyNewSchedule \/ AwaitingActivation \/ Active \/ WakeupStream \/ CheckNewSchedule

Next ==
    \/ \E k \in DOMAIN Schedules :
         \E activation \in Activations(k) : SetScheduleHeader(k, activation)
    \/ SetStreamsWakeupLists
    \/ ApplySchedule
    \/ RunThread
    \/ \E s \in Streams : Wait(s)
    \/ Tick

Spec == Init /\ [][Next]_vars

\* Time goes on, the thread runs, and the MAC runs in every downlink.
FairSpec == Spec /\ WF_vars(Tick) /\ WF_vars(RunThread) /\ WF_vars(ApplySchedule)

-----------------------------------------------------------------------------
(***************************************************************************)
(* Properties.                                                             *)
(***************************************************************************)
\* Streams that the schedule whose wakeups are due wants to be woken up now.  Those of
\* the next list are for the next repetition, if there is one.
Due ==
    IF current.sched = None THEN {}
    ELSE LET k == current.sched
             left == Duration[k] - current.phase
         IN {w.stream : w \in {v \in ToSet(Curr[k]) : v.type = "STREAM" /\ v.time = current.phase}}
            \cup IF coming.sched # None /\ coming.togo <= left THEN {}
                 ELSE {w.stream : w \in {v \in ToSet(NextOf[k]) : v.time = -left}}

\* Time does not pass without every stream that is due having been woken up: through
\* all repetitions, the change from a schedule to another and lists that come late.
WokenOnTime == [][clock' # clock /\ settling = 0 => Due \subseteq woken]_vars

\* A wait() returns, unless the stream is not in the schedule.
WaitReturns ==
    \A s \in Streams :
        (s \in waiting /\ current.sched # None /\ s \in Woken(current.sched))
            ~> (s \notin waiting \/ current.sched = None \/ s \notin Woken(current.sched))

=============================================================================
