---------------------------- MODULE NodeStreams ----------------------------
(***************************************************************************)
(* The streams and servers of one node (stream/stream_manager.{h,cpp} and  *)
(* stream/stream.cpp): application threads call connect(), listen(),       *)
(* accept() and close(), which block on condition variables, while the MAC *)
(* thread delivers schedules and info elements, ticks the timers, collects *)
(* the SMEs and loses the synchronization.                                 *)
(*                                                                         *)
(* stream_manager_mutex protects the maps and is held by the MAC thread    *)
(* over a whole operation; status_mutex protects one endpoint and is what  *)
(* the application threads hold while they talk to it, so that a step of   *)
(* theirs can fall between two steps of the MAC thread.  A step is one     *)
(* critical section of either mutex.  The master, the uplink and the       *)
(* schedule distribution are the environment: they may schedule or reject  *)
(* what the node has asked for in an SME it has sent.                      *)
(***************************************************************************)
EXTENDS Naturals, Sequences, FiniteSets

CONSTANTS
    Me, Peer,            \* this node and the node it talks to
    maxPorts,            \* client ports of the node
    Threads,             \* application threads
    SmeTimeoutMax, FailTimeoutMax,   \* smeTimeoutMax, failTimeoutMax
    WakeupAdvances,      \* how the requested advances compare with a tile
    MasterChallenge,     \* doMasterChallengeAuthentication
    RejectsAreFinal,     \* no CONNECT is under way to a master that rejects
    MaxEndpoints,        \* bound on the endpoints created
    MaxSchedules,        \* bound on the schedules received
    MaxDesyncs           \* bound on the losses of synchronization

ASSUME NodeAssumption ==
    /\ Me # Peer
    /\ maxPorts \in Nat \ {0}
    /\ SmeTimeoutMax \in Nat \ {0}
    /\ FailTimeoutMax \in Nat \ {0}
    /\ WakeupAdvances \subseteq {"fits", "tooLong"}
    /\ MasterChallenge \in BOOLEAN
    /\ RejectsAreFinal \in BOOLEAN
    /\ MaxEndpoints \in Nat
    /\ MaxSchedules \in Nat
    /\ MaxDesyncs \in Nat

VARIABLES
    endpoints,           \* every Stream and Server object ever made, by its fd
    streams,             \* from stream ids to fds; 0 if absent
    servers,             \* from ports to fds; 0 if absent
    fdt,                 \* the file descriptors that are open
    clientPorts,         \* the client ports in use
    smeQueue,            \* from ids to the type of the SME that waits
    streamsToRemove, nextScheduleStreams,
    masterTrusted,
    mac,                 \* what the MAC thread is in the middle of
    app,                 \* what each application thread is in the middle of
    handles,             \* fds the application was given and has not closed
    scheduled,           \* streams of the schedule the node has applied
    awaitsActivation,    \* a schedule was set and is not applied yet
    smesSent,            \* SMEs the uplink has taken
    schedulesReceived, desyncs   \* capped by MaxSchedules and MaxDesyncs

maps == <<endpoints, streams, servers, fdt, clientPorts>>
scheduleVars == <<streamsToRemove, nextScheduleStreams, scheduled, awaitsActivation,
                  schedulesReceived>>
vars == <<maps, smeQueue, scheduleVars, masterTrusted, mac, app, handles, smesSent, desyncs>>

-----------------------------------------------------------------------------
(***************************************************************************)
(* Identifiers and endpoints.                                              *)
(***************************************************************************)
Ports == 0 .. maxPorts - 1

StreamId(src, dst, srcPort, dstPort) ==
    [src |-> src, dst |-> dst, srcPort |-> srcPort, dstPort |-> dstPort]

Outgoing == {StreamId(Me, Peer, p, q) : p, q \in Ports}
Incoming == {StreamId(Peer, Me, p, q) : p, q \in Ports}
StreamIds == Outgoing \cup Incoming

GetServerId(id) == StreamId(id.dst, id.dst, 0, id.dstPort)
ServerIds == {GetServerId(id) : id \in StreamIds}

IsServer(id) == id.src = id.dst /\ id.srcPort = 0

Statuses == {"CONNECTING", "CONNECT_FAILED", "ACCEPT_WAIT", "ESTABLISHED",
             "REMOTELY_CLOSED", "REOPENED", "CLOSE_WAIT",
             "LISTEN_WAIT", "LISTEN_FAILED", "LISTEN"}

SmeTypes == {"CONNECT", "LISTEN", "CLOSED"}

Fds == DOMAIN endpoints

\* The status with which a constructor or setStatus() leaves an endpoint.
InStatus(e, status) ==
    [e EXCEPT !.status = status, !.smeTimeout = SmeTimeoutMax,
              !.failTimeout = FailTimeoutMax]

NewEndpoint(id, status) ==
    [id |-> id, status |-> status, smeTimeout |-> SmeTimeoutMax,
     failTimeout |-> FailTimeoutMax, pendingAccept |-> <<>>]

\* A switch over the status: `table' maps the statuses that change to the new
\* one, every other status stays as it is and keeps its timeouts.
Switch(e, table) == IF e.status \in DOMAIN table THEN InStatus(e, table[e.status]) ELSE e

AddedStream(e) == Switch(e, [CONNECTING |-> "ESTABLISHED", REMOTELY_CLOSED |-> "REOPENED"])
AcceptedStream(e) == Switch(e, [ACCEPT_WAIT |-> "ESTABLISHED"])
RemovedStream(e) ==
    Switch(e, [ESTABLISHED |-> "REMOTELY_CLOSED", REOPENED |-> "REMOTELY_CLOSED"])
RejectedStream(e) == Switch(e, [CONNECTING |-> "CONNECT_FAILED"])
ClosedServer(e) == Switch(e, [ACCEPT_WAIT |-> "CLOSE_WAIT"])
DesyncedStream(e) ==
    Switch(e, [CONNECTING |-> "CONNECT_FAILED", ESTABLISHED |-> "REMOTELY_CLOSED",
               REOPENED |-> "REMOTELY_CLOSED"])
AcceptedServer(e) == Switch(e, [LISTEN_WAIT |-> "LISTEN", REMOTELY_CLOSED |-> "REOPENED"])
RejectedServer(e) == Switch(e, [LISTEN_WAIT |-> "LISTEN_FAILED"])

\* close() of a Stream and of a Server.
Closed(e) == Switch(e, [ESTABLISHED |-> "CLOSE_WAIT", REOPENED |-> "CLOSE_WAIT",
                        LISTEN |-> "CLOSE_WAIT"])

\* close() sends a CLOSED SME unless the endpoint was reopened.
CloseSends(e) == e.status \in {"ESTABLISHED", "LISTEN", "CLOSE_WAIT"}

\* Mutant: an established stream is deleted at once.
CloseDeletes_AtOnce(e) == e.status \in {"ESTABLISHED", "REMOTELY_CLOSED"}

\* close() tells its caller to delete what the master had already closed.
CloseDeletes(e) == e.status = "REMOTELY_CLOSED"

\* Mutant: the application's stream is deleted with the others.
Deletable_Established(e) == e.status \in {"ACCEPT_WAIT", "ESTABLISHED", "CLOSE_WAIT"}

\* removedStream() and desync() return true for these.
Deletable(e) == e.status \in {"ACCEPT_WAIT", "CLOSE_WAIT"}

\* Mutant: the request is repeated for ever.
UpdateRequest_NoFail(e) ==
    IF e.smeTimeout <= 1
    THEN [endpoint |-> [e EXCEPT !.smeTimeout = SmeTimeoutMax],
          sme |-> IF e.status = "CONNECTING" THEN "CONNECT" ELSE "LISTEN"]
    ELSE [endpoint |-> [e EXCEPT !.smeTimeout = @ - 1], sme |-> "none"]

\* An endpoint that waits for the master repeats its request from time to
\* time, and gives up after a while.
UpdateRequest(e) ==
    LET connecting == e.status = "CONNECTING" IN
    IF e.failTimeout <= 1
    THEN [endpoint |-> InStatus(e, IF connecting THEN "CONNECT_FAILED" ELSE "LISTEN_FAILED"),
          sme |-> "CLOSED"]
    ELSE IF e.smeTimeout <= 1
    THEN [endpoint |-> [e EXCEPT !.smeTimeout = SmeTimeoutMax, !.failTimeout = @ - 1],
          sme |-> IF connecting THEN "CONNECT" ELSE "LISTEN"]
    ELSE [endpoint |-> [e EXCEPT !.smeTimeout = @ - 1, !.failTimeout = @ - 1],
          sme |-> "none"]

\* Mutants: the timeout is not restarted; the CLOSED SME is sent once only.
UpdateClosed_NoRestart(e) ==
    [endpoint |-> [e EXCEPT !.smeTimeout = @ - 1],
     sme |-> IF e.smeTimeout = 0 THEN "CLOSED" ELSE "none"]

UpdateClosed_NoRepeat(e) == [endpoint |-> e, sme |-> "none"]

\* An endpoint that is closed repeats CLOSED.
UpdateClosed(e) ==
    IF e.smeTimeout = 0
    THEN [endpoint |-> [e EXCEPT !.smeTimeout = SmeTimeoutMax], sme |-> "CLOSED"]
    ELSE [endpoint |-> [e EXCEPT !.smeTimeout = @ - 1], sme |-> "none"]

\* periodicUpdate() of a Stream and of a Server: the endpoint afterwards and
\* the SME it sends.
PeriodicUpdate(e) ==
    CASE e.status \in {"CONNECTING", "LISTEN_WAIT"} -> UpdateRequest(e)
      [] e.status \in {"REOPENED", "CLOSE_WAIT"} -> UpdateClosed(e)
      [] OTHER -> [endpoint |-> e, sme |-> "none"]

-----------------------------------------------------------------------------
(***************************************************************************)
(* The maps, the SME queue and the condition variables.                    *)
(***************************************************************************)
Mapped == {id \in StreamIds : streams[id] # 0}

\* Mutant: the client ports stay in use.
RemoveStreams_KeepsPorts(ids) ==
    /\ streams' = [id \in StreamIds |-> IF id \in ids THEN 0 ELSE streams[id]]
    /\ fdt' = fdt \ {streams[id] : id \in ids \cap Mapped}
    /\ UNCHANGED clientPorts

\* removeStream() for a set of ids: a client port is freed by its number.
RemoveStreams(ids) ==
    LET present == ids \cap Mapped IN
    /\ streams' = [id \in StreamIds |-> IF id \in ids THEN 0 ELSE streams[id]]
    /\ fdt' = fdt \ {streams[id] : id \in present}
    /\ clientPorts' = [p \in Ports |-> clientPorts[p] /\ \A id \in present : id.srcPort # p]

RemoveServer(port) ==
    /\ servers' = [servers EXCEPT ![port] = 0]
    /\ fdt' = fdt \ {servers[port]}

\* An endpoint added to its map and to the file descriptor table.
AddStream(id, status) ==
    /\ endpoints' = Append(endpoints, NewEndpoint(id, status))
    /\ streams' = [streams EXCEPT ![id] = Len(endpoints) + 1]
    /\ fdt' = fdt \cup {Len(endpoints) + 1}

AddServer(id, status) ==
    /\ endpoints' = Append(endpoints, NewEndpoint(id, status))
    /\ servers' = [servers EXCEPT ![id.dstPort] = Len(endpoints) + 1]
    /\ fdt' = fdt \cup {Len(endpoints) + 1}

\* enqueueSME() for a set of ids: a newer SME replaces the one that waits.
EnqueueSMEs(ids, type) ==
    smeQueue' = [id \in DOMAIN smeQueue |-> IF id \in ids THEN type ELSE smeQueue[id]]

\* The threads blocked on the condition variable of an endpoint.
Blocked == {"connectWait", "listenWait", "acceptWait"}

Waiters(fd) ==
    {t \in Threads : app[t].pc \in Blocked /\ app[t].fd = fd /\ ~app[t].signalled}

\* Mutant: nobody is notified.
Notified_Lost(fds) == {app}

\* What notify_one() for each of a set of endpoints makes of the threads.
Notified(fds) ==
    LET waiting == {fd \in fds : Waiters(fd) # {}} IN
    {[t \in Threads |-> IF \E fd \in waiting : chosen[fd] = t
                        THEN [app[t] EXCEPT !.signalled = TRUE] ELSE app[t]] :
     chosen \in {c \in [waiting -> Threads] : \A fd \in waiting : c[fd] \in Waiters(fd)}}

-----------------------------------------------------------------------------
(***************************************************************************)
(* Initial state and types.                                                *)
(***************************************************************************)
IdleMac == [op |-> "idle", todo |-> {}, fd |-> 0, server |-> 0]

IdleApp == [pc |-> "idle", fd |-> 0, signalled |-> FALSE]

TypeOK ==
    /\ \A fd \in Fds :
         /\ endpoints[fd].id \in StreamIds \cup ServerIds
         /\ endpoints[fd].status \in Statuses
         /\ endpoints[fd].smeTimeout \in 0 .. SmeTimeoutMax
         /\ endpoints[fd].failTimeout \in 1 .. FailTimeoutMax
         /\ \A i \in DOMAIN endpoints[fd].pendingAccept :
                endpoints[fd].pendingAccept[i] \in Fds
    /\ streams \in [StreamIds -> {0} \cup Fds]
    /\ servers \in [Ports -> {0} \cup Fds]
    /\ fdt \subseteq Fds
    /\ clientPorts \in [Ports -> BOOLEAN]
    /\ smeQueue \in [StreamIds \cup ServerIds -> SmeTypes \cup {"none"}]
    /\ streamsToRemove \subseteq StreamIds
    /\ nextScheduleStreams \subseteq StreamIds
    /\ scheduled \subseteq StreamIds
    /\ awaitsActivation \in BOOLEAN
    /\ masterTrusted \in BOOLEAN
    /\ mac \in [op : {"idle", "setSchedule", "addPending", "desync", "crashed"},
                todo : SUBSET StreamIds, fd : {0} \cup Fds, server : {0} \cup Fds]
    /\ app \in [Threads -> [pc : {"idle", "connect", "connectWait", "connectFail",
                                  "listen", "listenWait", "listenFail", "accept",
                                  "acceptWait", "acceptFind", "acceptDone", "close",
                                  "closeRemove"},
                            fd : {0} \cup Fds, signalled : BOOLEAN]]
    /\ handles \subseteq Fds
    /\ smesSent \subseteq [id : StreamIds \cup ServerIds, type : SmeTypes]

Init ==
    /\ endpoints = <<>>
    /\ streams = [id \in StreamIds |-> 0]
    /\ servers = [p \in Ports |-> 0]
    /\ fdt = {}
    /\ clientPorts = [p \in Ports |-> FALSE]
    /\ smeQueue = [id \in StreamIds \cup ServerIds |-> "none"]
    /\ streamsToRemove = {}
    /\ nextScheduleStreams = {}
    /\ masterTrusted = ~MasterChallenge
    /\ mac = IdleMac
    /\ app = [t \in Threads |-> IdleApp]
    /\ handles = {}
    /\ scheduled = {}
    /\ awaitsActivation = FALSE
    /\ smesSent = {}
    /\ schedulesReceived = 0
    /\ desyncs = 0

-----------------------------------------------------------------------------
(***************************************************************************)
(* The application threads.                                                *)
(***************************************************************************)
\* stream_manager_mutex is free.
ManagerFree == mac.op \in {"idle", "desync"}

Goto(t, pc) == app' = [app EXCEPT ![t] = [@ EXCEPT !.pc = pc, !.signalled = FALSE]]

\* The thread returns from its call, without or with a handle.
Return(t) == app' = [app EXCEPT ![t] = IdleApp]
ReturnHandle(t) == Return(t) /\ handles' = handles \cup {app[t].fd}

Of(t) == endpoints[app[t].fd]

AppOnly ==
    UNCHANGED <<scheduleVars, masterTrusted, mac, smesSent, desyncs>>

FreePorts == {p \in Ports : ~clientPorts[p]}

\* connect() with the first free client port.  A wakeup advance of a tile or
\* more makes it give up after the stream was added.
Connect(t) ==
    \E dstPort \in Ports, advance \in WakeupAdvances, srcPort \in FreePorts :
        LET id == StreamId(Me, Peer, srcPort, dstPort) IN
        /\ app[t].pc = "idle"
        /\ ManagerFree
        /\ masterTrusted
        /\ \A p \in FreePorts : srcPort <= p
        /\ streams[id] = 0
        /\ Len(endpoints) < MaxEndpoints
        /\ AddStream(id, "CONNECTING")
        /\ clientPorts' = [clientPorts EXCEPT ![srcPort] = TRUE]
        /\ app' = [app EXCEPT ![t] =
                     IF advance = "tooLong" THEN IdleApp
                     ELSE [IdleApp EXCEPT !.pc = "connect", !.fd = Len(endpoints) + 1]]
        /\ UNCHANGED <<servers, smeQueue, handles>>
        /\ AppOnly

\* The loop of Stream::connect(): wait while the request is pending.
EndOfConnect(t) ==
    \/ Of(t).status = "CONNECTING" /\ Goto(t, "connectWait") /\ UNCHANGED handles
    \/ Of(t).status = "ESTABLISHED" /\ ReturnHandle(t)
    \/ /\ Of(t).status \notin {"CONNECTING", "ESTABLISHED"}
       /\ Goto(t, "connectFail")
       /\ UNCHANGED handles

ConnectRequest(t) ==
    /\ app[t].pc = "connect"
    /\ EnqueueSMEs({Of(t).id}, "CONNECT")
    /\ EndOfConnect(t)
    /\ UNCHANGED maps
    /\ AppOnly

ConnectWake(t) ==
    /\ app[t].pc = "connectWait" /\ app[t].signalled
    /\ EndOfConnect(t)
    /\ UNCHANGED <<maps, smeQueue>>
    /\ AppOnly

ConnectFail(t) ==
    /\ app[t].pc = "connectFail"
    /\ ManagerFree
    /\ RemoveStreams({Of(t).id})
    /\ Return(t)
    /\ UNCHANGED <<endpoints, servers, smeQueue, handles>>
    /\ AppOnly

Listen(t) ==
    \E port \in Ports :
        /\ app[t].pc = "idle"
        /\ ManagerFree
        /\ masterTrusted
        /\ servers[port] = 0
        /\ Len(endpoints) < MaxEndpoints
        /\ AddServer(StreamId(Me, Me, 0, port), "LISTEN_WAIT")
        /\ app' = [app EXCEPT ![t] =
                     [IdleApp EXCEPT !.pc = "listen", !.fd = Len(endpoints) + 1]]
        /\ UNCHANGED <<streams, clientPorts, smeQueue, handles>>
        /\ AppOnly

EndOfListen(t) ==
    \/ Of(t).status = "LISTEN_WAIT" /\ Goto(t, "listenWait") /\ UNCHANGED handles
    \/ Of(t).status = "LISTEN" /\ ReturnHandle(t)
    \/ /\ Of(t).status \notin {"LISTEN_WAIT", "LISTEN"}
       /\ Goto(t, "listenFail")
       /\ UNCHANGED handles

ListenRequest(t) ==
    /\ app[t].pc = "listen"
    /\ EnqueueSMEs({Of(t).id}, "LISTEN")
    /\ EndOfListen(t)
    /\ UNCHANGED maps
    /\ AppOnly

ListenWake(t) ==
    /\ app[t].pc = "listenWait" /\ app[t].signalled
    /\ EndOfListen(t)
    /\ UNCHANGED <<maps, smeQueue>>
    /\ AppOnly

ListenFail(t) ==
    /\ app[t].pc = "listenFail"
    /\ ManagerFree
    /\ RemoveServer(Of(t).id.dstPort)
    /\ Return(t)
    /\ UNCHANGED <<endpoints, streams, clientPorts, smeQueue, handles>>
    /\ AppOnly

\* accept() on a server, whose handle the application has.
Accept(t) ==
    \E fd \in handles \cap fdt :
        /\ app[t].pc = "idle"
        /\ ManagerFree
        /\ masterTrusted
        /\ IsServer(endpoints[fd].id)
        /\ app' = [app EXCEPT ![t] = [IdleApp EXCEPT !.pc = "accept", !.fd = fd]]
        /\ UNCHANGED <<maps, smeQueue, handles>>
        /\ AppOnly

\* The loop of Server::accept(), entered or woken up.
AcceptLoop(t) ==
    LET server == Of(t) IN
    /\ app[t].pc = "accept" \/ (app[t].pc = "acceptWait" /\ app[t].signalled)
    /\ \/ /\ server.status = "LISTEN" /\ server.pendingAccept = <<>>
          /\ Goto(t, "acceptWait")
          /\ UNCHANGED endpoints
       \/ /\ server.status = "LISTEN" /\ server.pendingAccept # <<>>
          /\ endpoints' = [endpoints EXCEPT ![app[t].fd].pendingAccept = Tail(@)]
          /\ app' = [app EXCEPT ![t] = [IdleApp EXCEPT !.pc = "acceptFind",
                                                       !.fd = Head(server.pendingAccept)]]
       \/ /\ server.status # "LISTEN"
          /\ Return(t)
          /\ UNCHANGED endpoints
    /\ UNCHANGED <<streams, servers, fdt, clientPorts, smeQueue, handles>>
    /\ AppOnly

\* The stream is looked up by its fd; it may be gone already.
AcceptFind(t) ==
    /\ app[t].pc = "acceptFind"
    /\ ManagerFree
    /\ IF app[t].fd \in fdt THEN Goto(t, "acceptDone") ELSE Return(t)
    /\ UNCHANGED <<maps, smeQueue, handles>>
    /\ AppOnly

AcceptDone(t) ==
    /\ app[t].pc = "acceptDone"
    /\ endpoints' = [endpoints EXCEPT ![app[t].fd] = AcceptedStream(@)]
    /\ ReturnHandle(t)
    /\ UNCHANGED <<streams, servers, fdt, clientPorts, smeQueue>>
    /\ AppOnly

\* close(), which the application calls once for a handle.
Close(t) ==
    \E fd \in handles :
        /\ app[t].pc = "idle"
        /\ ManagerFree
        /\ handles' = handles \ {fd}
        /\ app' = IF fd \in fdt
                  THEN [app EXCEPT ![t] = [IdleApp EXCEPT !.pc = "close", !.fd = fd]]
                  ELSE app
        /\ UNCHANGED <<maps, smeQueue>>
        /\ AppOnly

\* close() of the endpoint; a server also closes the streams that nobody has
\* accepted yet.
CloseEndpoint(t) ==
    LET fd == app[t].fd
        pending == {endpoints[fd].pendingAccept[i] : i \in DOMAIN endpoints[fd].pendingAccept}
        sending == {f \in pending : endpoints[f].status = "ACCEPT_WAIT"}
                   \cup {f \in {fd} : CloseSends(endpoints[f])}
    IN
    /\ app[t].pc = "close"
    /\ endpoints' = [f \in Fds |-> IF f = fd THEN Closed(endpoints[f])
                                   ELSE IF f \in pending THEN ClosedServer(endpoints[f])
                                   ELSE endpoints[f]]
    /\ EnqueueSMEs({endpoints[f].id : f \in sending}, "CLOSED")
    /\ \E notified \in Notified({fd}) :
         app' = [notified EXCEPT ![t] =
                   IF CloseDeletes(endpoints[fd])
                   THEN [IdleApp EXCEPT !.pc = "closeRemove", !.fd = fd] ELSE IdleApp]
    /\ UNCHANGED <<streams, servers, fdt, clientPorts, handles>>
    /\ AppOnly

CloseRemove(t) ==
    LET id == Of(t).id IN
    /\ app[t].pc = "closeRemove"
    /\ ManagerFree
    /\ \/ IsServer(id) /\ RemoveServer(id.dstPort) /\ UNCHANGED <<streams, clientPorts>>
       \/ ~IsServer(id) /\ RemoveStreams({id}) /\ UNCHANGED servers
    /\ Return(t)
    /\ UNCHANGED <<endpoints, smeQueue, handles>>
    /\ AppOnly

-----------------------------------------------------------------------------
(***************************************************************************)
(* The MAC thread.                                                         *)
(***************************************************************************)
MacOnly == UNCHANGED <<handles, masterTrusted>>

\* periodicUpdate() at the end of every tile.
Tick ==
    LET fds == {streams[id] : id \in Mapped} \cup ({servers[p] : p \in Ports} \ {0})
        updated == [fd \in fds |-> PeriodicUpdate(endpoints[fd])]
        failed == {fd \in fds : updated[fd].endpoint.status # endpoints[fd].status}
    IN
    /\ mac.op = "idle"
    /\ endpoints' = [fd \in Fds |-> IF fd \in fds THEN updated[fd].endpoint
                                    ELSE endpoints[fd]]
    /\ smeQueue' = [id \in DOMAIN smeQueue |->
            IF \E fd \in fds : endpoints[fd].id = id /\ updated[fd].sme # "none"
            THEN updated[CHOOSE fd \in fds : endpoints[fd].id = id].sme
            ELSE smeQueue[id]]
    /\ app' \in Notified(failed)
    /\ UNCHANGED <<streams, servers, fdt, clientPorts, scheduleVars, mac, smesSent, desyncs>>
    /\ MacOnly

\* dequeueSMEs(): the uplink takes the whole queue.
DequeueSMEs ==
    LET taken == {id \in DOMAIN smeQueue : smeQueue[id] # "none"} IN
    /\ mac.op = "idle"
    /\ taken # {}
    /\ smeQueue' = [id \in DOMAIN smeQueue |-> "none"]
    /\ smesSent' = smesSent \cup {[id |-> id, type |-> smeQueue[id]] : id \in taken}
    /\ UNCHANGED <<maps, scheduleVars, mac, app, desyncs>>
    /\ MacOnly

\* What the master can know of: the streams the node asked to open, and those
\* that a peer opens towards a server of the node.
Sent(id, type) == [id |-> id, type |-> type] \in smesSent

Schedulable == {id \in Outgoing : Sent(id, "CONNECT")}
               \cup {id \in Incoming : Sent(GetServerId(id), "LISTEN")}

\* setSchedule() with the streams of the new schedule that concern this node.
\* Those that are not in the map are added one by one in the steps below.
SetSchedule ==
    \E ids \in SUBSET Schedulable :
        LET missing == ids \ Mapped IN
        /\ mac.op = "idle"
        /\ ~awaitsActivation
        /\ schedulesReceived < MaxSchedules
        /\ Len(endpoints) + 2 * Cardinality(missing) <= MaxEndpoints
        /\ streamsToRemove' = Mapped \ ids
        /\ nextScheduleStreams' = ids
        /\ awaitsActivation' = TRUE
        /\ schedulesReceived' = schedulesReceived + 1
        /\ mac' = IF missing = {} THEN IdleMac
                  ELSE [IdleMac EXCEPT !.op = "setSchedule", !.todo = missing]
        /\ UNCHANGED <<maps, smeQueue, app, scheduled, smesSent, desyncs>>
        /\ MacOnly

\* A stream that the node does not know: it waits to be accepted if its server
\* listens ...
Listening(port) == servers[port] # 0 /\ endpoints[servers[port]].status = "LISTEN"

AddToServer ==
    \E id \in mac.todo :
        /\ mac.op = "setSchedule"
        /\ Listening(id.dstPort)
        /\ AddStream(id, "ACCEPT_WAIT")
        /\ mac' = [op |-> "addPending", todo |-> mac.todo \ {id},
                   fd |-> Len(endpoints) + 1, server |-> servers[id.dstPort]]
        /\ UNCHANGED <<servers, clientPorts, smeQueue, app, scheduleVars, smesSent, desyncs>>
        /\ MacOnly

\* addPendingStream(), under the mutex of the server.
AddPendingStream ==
    /\ mac.op = "addPending"
    /\ endpoints' = [endpoints EXCEPT ![mac.server].pendingAccept = Append(@, mac.fd)]
    /\ app' \in Notified({mac.server})
    /\ mac' = IF mac.todo = {} THEN IdleMac
              ELSE [IdleMac EXCEPT !.op = "setSchedule", !.todo = mac.todo]
    /\ UNCHANGED <<streams, servers, fdt, clientPorts, smeQueue, scheduleVars, smesSent,
                   desyncs>>
    /\ MacOnly

\* ... and otherwise is closed at once, with a server made for the purpose.
AddClosed ==
    \E id \in mac.todo :
        LET n == Len(endpoints) IN
        /\ mac.op = "setSchedule"
        /\ ~Listening(id.dstPort)
        /\ endpoints' = endpoints \o <<NewEndpoint(id, "CLOSE_WAIT"),
                                       NewEndpoint(GetServerId(id), "CLOSE_WAIT")>>
        /\ streams' = [streams EXCEPT ![id] = n + 1]
        /\ servers' = [servers EXCEPT ![id.dstPort] = n + 2]
        /\ fdt' = fdt \cup {n + 1, n + 2}
        /\ EnqueueSMEs({id, GetServerId(id)}, "CLOSED")
        /\ mac' = IF mac.todo = {id} THEN IdleMac ELSE [mac EXCEPT !.todo = @ \ {id}]
        /\ UNCHANGED <<clientPorts, app, scheduleVars, smesSent, desyncs>>
        /\ MacOnly

\* Mutant: the streams that left the schedule are not told.
ApplySchedule_AddsOnly ==
    LET added == {streams[id] : id \in nextScheduleStreams \cap Mapped} IN
    /\ mac.op = "idle"
    /\ awaitsActivation
    /\ awaitsActivation' = FALSE
    /\ scheduled' = nextScheduleStreams
    /\ endpoints' = [fd \in Fds |-> IF fd \in added THEN AddedStream(endpoints[fd])
                                    ELSE endpoints[fd]]
    /\ app' \in Notified(added)
    /\ streamsToRemove' = {}
    /\ UNCHANGED <<streams, servers, fdt, clientPorts, mac, smeQueue, nextScheduleStreams,
                   schedulesReceived, smesSent, desyncs>>
    /\ MacOnly

\* applySchedule(): the streams of the schedule are opened, those that were in
\* the map when it was set and are not in it are removed.  One that has been
\* erased from the map meanwhile is looked up with operator[], which yields a
\* null pointer.
ApplySchedule ==
    LET added == {streams[id] : id \in nextScheduleStreams \cap Mapped}
        removed == {streams[id] : id \in streamsToRemove}
    IN
    /\ mac.op = "idle"
    /\ awaitsActivation
    /\ \/ /\ ~ streamsToRemove \subseteq Mapped
          /\ mac' = [mac EXCEPT !.op = "crashed"]
          /\ UNCHANGED <<maps, app, streamsToRemove, scheduled, awaitsActivation>>
       \/ /\ streamsToRemove \subseteq Mapped
          /\ awaitsActivation' = FALSE
          /\ scheduled' = nextScheduleStreams
          /\ endpoints' = [fd \in Fds |->
                IF fd \in added THEN AddedStream(endpoints[fd])
                ELSE IF fd \in removed THEN RemovedStream(endpoints[fd])
                ELSE endpoints[fd]]
          /\ RemoveStreams({id \in streamsToRemove : Deletable(endpoints[streams[id]])})
          /\ app' \in Notified(added)
          /\ streamsToRemove' = {}
          /\ UNCHANGED <<servers, mac>>
    /\ UNCHANGED <<smeQueue, nextScheduleStreams, schedulesReceived, smesSent, desyncs>>
    /\ MacOnly

\* applyInfoElements(), one element: the master has opened or closed a server
\* or rejected a stream, after a request of the node.
ServerInfo(port, opened) ==
    LET id == StreamId(Me, Me, 0, port)
        fd == servers[port]
    IN
    /\ mac.op = "idle"
    /\ Sent(id, IF opened THEN "LISTEN" ELSE "CLOSED")
    /\ \/ /\ fd # 0
          /\ endpoints' = [endpoints EXCEPT ![fd] =
                             IF opened THEN AcceptedServer(@) ELSE RejectedServer(@)]
          /\ app' \in Notified({fd})
          /\ UNCHANGED <<servers, fdt, smeQueue>>
       \/ /\ fd = 0 /\ opened
          /\ Len(endpoints) < MaxEndpoints
          /\ AddServer(id, "CLOSE_WAIT")
          /\ EnqueueSMEs({id}, "CLOSED")
          /\ UNCHANGED app
    /\ UNCHANGED <<streams, clientPorts, scheduleVars, mac, smesSent, desyncs>>
    /\ MacOnly

StreamReject ==
    \E id \in Outgoing \cap Mapped :
        /\ mac.op = "idle"
        /\ Sent(id, "CONNECT")
        /\ endpoints' = [endpoints EXCEPT ![streams[id]] = RejectedStream(@)]
        /\ app' \in Notified({streams[id]})
        /\ smesSent' = IF RejectsAreFinal
                       THEN smesSent \ {[id |-> id, type |-> "CONNECT"]} ELSE smesSent
        /\ UNCHANGED <<streams, servers, fdt, clientPorts, smeQueue, scheduleVars, mac,
                       desyncs>>
        /\ MacOnly

\* The node loses the synchronization: the key manager distrusts the master,
\* the schedule distribution and the data phase forget the schedule, and
\* StreamManager::desync() closes the streams ...
Desync ==
    /\ mac.op = "idle"
    /\ desyncs < MaxDesyncs
    /\ desyncs' = desyncs + 1
    /\ masterTrusted' = ~MasterChallenge
    /\ endpoints' = [fd \in Fds |-> IF \E id \in Mapped : streams[id] = fd
                                    THEN DesyncedStream(endpoints[fd]) ELSE endpoints[fd]]
    /\ RemoveStreams({id \in Mapped : Deletable(endpoints[streams[id]])})
    /\ app' \in Notified({streams[id] : id \in Mapped})
    /\ scheduled' = {}
    /\ awaitsActivation' = FALSE
    /\ mac' = [IdleMac EXCEPT !.op = "desync"]
    /\ UNCHANGED <<servers, smeQueue, handles, streamsToRemove, nextScheduleStreams,
                   schedulesReceived, smesSent>>

\* ... and, after releasing the mutex of the maps, clears the SME queue.
ClearSMEs ==
    /\ mac.op = "desync"
    /\ smeQueue' = [id \in DOMAIN smeQueue |-> "none"]
    /\ mac' = IdleMac
    /\ UNCHANGED <<maps, app, scheduleVars, smesSent, desyncs>>
    /\ MacOnly

\* The key manager has verified the master's response.
TrustMaster ==
    /\ mac.op = "idle"
    /\ ~masterTrusted
    /\ masterTrusted' = TRUE
    /\ UNCHANGED <<maps, smeQueue, scheduleVars, mac, app, handles, smesSent, desyncs>>

-----------------------------------------------------------------------------
AppStep(t) ==
    /\ mac.op # "crashed"
    /\ \/ Connect(t) \/ ConnectRequest(t) \/ ConnectWake(t) \/ ConnectFail(t)
       \/ Listen(t) \/ ListenRequest(t) \/ ListenWake(t) \/ ListenFail(t)
       \/ Accept(t) \/ AcceptLoop(t) \/ AcceptFind(t) \/ AcceptDone(t)
       \/ Close(t) \/ CloseEndpoint(t) \/ CloseRemove(t)

\* The loops of the MAC thread that hold a mutex.
MacContinue == AddToServer \/ AddPendingStream \/ AddClosed \/ ClearSMEs

Next ==
    \/ \E t \in Threads : AppStep(t)
    \/ MacContinue
    \/ Tick \/ DequeueSMEs
    \/ SetSchedule \/ ApplySchedule \/ StreamReject
    \/ \E port \in Ports, opened \in BOOLEAN : ServerInfo(port, opened)
    \/ Desync \/ TrustMaster

Spec == Init /\ [][Next]_vars

\* A thread inside a call gets to run and to lock what it waits for; the MAC
\* thread finishes its operations, ends every tile and empties the SME queue in
\* its uplink slots.  Applications, schedules and losses of synchronization are
\* not obliged to happen.
Inside(t) == app[t].pc # "idle" /\ AppStep(t)

FairSpec ==
    /\ Spec
    /\ \A t \in Threads : WF_vars(Inside(t))
    /\ WF_vars(MacContinue)
    /\ WF_vars(Tick)
    /\ WF_vars(DequeueSMEs)

-----------------------------------------------------------------------------
(***************************************************************************)
(* Safety.                                                                 *)
(***************************************************************************)
Status(id) == IF streams[id] = 0 THEN "none" ELSE endpoints[streams[id]].status

\* A stream that the application sees as established is in the schedule that
\* the node has applied or is about to apply, whatever the application did
\* between the two.
EstablishedIsScheduled ==
    \A id \in StreamIds : Status(id) = "ESTABLISHED" =>
        id \in scheduled \/ (awaitsActivation /\ id \in nextScheduleStreams)

\* A handle is open when connect() or listen() returns it, and any handle that is
\* open stays so until the application closes it: neither the MAC thread nor a call
\* that fails takes it away.  Only accept() may return a stream that was removed
\* while it was being accepted.
HandlesStayOpen ==
    [][\A fd \in handles' :
          \/ fd \in fdt'
          \/ fd \notin fdt /\ (fd \in handles \/ endpoints[fd].status = "ACCEPT_WAIT")]_vars

\* A client port is in use only while a stream has it.
PortsReleased ==
    \A p \in Ports : clientPorts[p] => \E id \in Outgoing \cap Mapped : id.srcPort = p

\* "the Stream/Server is kept in the StreamManager until the master acknowlede
\* the closing" (stream_manager.h): a stream that waits for its closing leaves
\* the map only when the node applies a schedule without it or loses the
\* synchronization.
KeptUntilAcknowledged ==
    [][\A id \in StreamIds : Status(id) = "CLOSE_WAIT" /\ streams'[id] = 0 =>
            \/ id \notin nextScheduleStreams /\ awaitsActivation /\ ~awaitsActivation'
            \/ desyncs' > desyncs]_vars

(***************************************************************************)
(* Liveness.                                                               *)
(***************************************************************************)
Crashed == mac.op = "crashed"

\* connect() returns: the schedule, a rejection, a timeout or a loss of the
\* synchronization wakes it up.
ConnectReturns ==
    \A t \in Threads : app[t].pc = "connectWait" ~> app[t].pc # "connectWait" \/ Crashed

\* A closed stream keeps telling the master: while it is in the map a CLOSED
\* SME waits for the uplink again and again.
ClosedIsRepeated ==
    \A id \in StreamIds :
        Status(id) = "CLOSE_WAIT" ~>
            Status(id) # "CLOSE_WAIT" \/ smeQueue[id] = "CLOSED" \/ Crashed

\* accept() returns once its server is no longer open.
AcceptReturns ==
    \A t \in Threads :
        app[t].pc = "acceptWait" /\ Of(t).status # "LISTEN" ~>
            app[t].pc # "acceptWait" \/ Crashed

=============================================================================
