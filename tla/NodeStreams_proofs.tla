------------------------ MODULE NodeStreams_proofs ------------------------
(***************************************************************************)
(* Proofs about the streams and servers of one node, for any number of     *)
(* application threads, client ports and endpoints, and whatever the       *)
(* schedules, the info elements and the losses of synchronization are.     *)
(***************************************************************************)
EXTENDS NodeStreams, SequenceTheorems, TLAPS

USE NodeAssumption

-----------------------------------------------------------------------------
(***************************************************************************)
(* The inductive invariant.                                                *)
(***************************************************************************)
Endpoint ==
    [id : StreamIds \cup ServerIds, status : Statuses, smeTimeout : 0 .. SmeTimeoutMax,
     failTimeout : 1 .. FailTimeoutMax, pendingAccept : Seq(Nat)]

IsStream(fd) == endpoints[fd].id \in StreamIds

Pending(fd) == {endpoints[fd].pendingAccept[i] : i \in DOMAIN endpoints[fd].pendingAccept}

Pcs == {"idle", "connect", "connectWait", "connectFail", "listen", "listenWait",
        "listenFail", "accept", "acceptWait", "acceptFind", "acceptDone", "close",
        "closeRemove"}

\* TypeOK, with a range for every field, in the parts in which it is proved.
EndpointsTyped ==
    /\ endpoints \in Seq(Endpoint)
    /\ \A fd \in Fds : Pending(fd) \subseteq Fds

MapsTyped ==
    /\ streams \in [StreamIds -> {0} \cup Fds]
    /\ servers \in [Ports -> {0} \cup Fds]
    /\ fdt \subseteq Fds
    /\ clientPorts \in [Ports -> BOOLEAN]

ScheduleTyped ==
    /\ streamsToRemove \subseteq StreamIds
    /\ nextScheduleStreams \subseteq StreamIds
    /\ scheduled \subseteq StreamIds
    /\ awaitsActivation \in BOOLEAN
    /\ masterTrusted \in BOOLEAN
    /\ desyncs \in Nat

SmesTyped ==
    /\ smeQueue \in [StreamIds \cup ServerIds -> SmeTypes \cup {"none"}]
    /\ smesSent \subseteq [id : StreamIds \cup ServerIds, type : SmeTypes]

MacTyped ==
    mac \in [op : {"idle", "setSchedule", "addPending", "desync", "crashed"},
             todo : SUBSET StreamIds, fd : {0} \cup Fds, server : {0} \cup Fds]

AppTyped ==
    /\ app \in [Threads -> [pc : Pcs, fd : {0} \cup Fds, signalled : BOOLEAN]]
    /\ handles \subseteq Fds

Typed ==
    EndpointsTyped /\ MapsTyped /\ ScheduleTyped /\ SmesTyped /\ MacTyped /\ AppTyped

\* The maps and the table of file descriptors agree.  A server may be open without
\* being in its map, when setSchedule() has put another one there.
StreamsAgree ==
    /\ \A id \in Mapped : endpoints[streams[id]].id = id /\ streams[id] \in fdt
    /\ \A fd \in fdt : IsStream(fd) => streams[endpoints[fd].id] = fd

ServersAgree ==
    \A p \in Ports : servers[p] # 0 =>
          /\ ~IsStream(servers[p]) /\ endpoints[servers[p]].id.dstPort = p
          /\ servers[p] \in fdt

MapsAgree == StreamsAgree /\ ServersAgree

OwnStatuses == {"ESTABLISHED", "REMOTELY_CLOSED", "REOPENED"}

ConnectStatuses == OwnStatuses \cup {"CONNECTING", "CONNECT_FAILED"}

ListenStatuses == {"LISTEN_WAIT", "LISTEN_FAILED", "LISTEN"}

StatusByKind ==
    \A fd \in Fds : endpoints[fd].status \in
        IF IsStream(fd) THEN ConnectStatuses \cup {"ACCEPT_WAIT", "CLOSE_WAIT"}
        ELSE ListenStatuses \cup {"CLOSE_WAIT"}

\* A stream waits for accept() at one server, once, and waits there as long as the
\* server is not closed.
PendingOnce ==
    /\ \A fd \in Fds : \A f \in Pending(fd) :
          /\ ~IsStream(fd) /\ IsStream(f)
          /\ endpoints[fd].status # "CLOSE_WAIT" => endpoints[f].status = "ACCEPT_WAIT"
    /\ \A fd \in Fds : \A i, j \in DOMAIN endpoints[fd].pendingAccept :
          endpoints[fd].pendingAccept[i] = endpoints[fd].pendingAccept[j] => i = j
    /\ \A fd, gd \in Fds : fd # gd => Pending(fd) \cap Pending(gd) = {}

\* What setSchedule() has still to add is not in the map and is in the schedule; the
\* stream that it is about to hand to a server waits nowhere else.
MacStep ==
    /\ mac.todo \cap Mapped = {}
    /\ mac.todo \subseteq nextScheduleStreams
    /\ mac.op \in {"idle", "desync", "crashed"} => mac.todo = {}
    /\ mac.op \in {"setSchedule", "addPending"} => awaitsActivation
    /\ mac.op = "addPending" =>
         /\ mac.fd \in Fds /\ IsStream(mac.fd) /\ endpoints[mac.fd].status = "ACCEPT_WAIT"
         /\ mac.server \in Fds /\ ~IsStream(mac.server)
         /\ \A fd \in Fds : mac.fd \notin Pending(fd)

\* A stream that is or may become established is in the schedule in use or in the
\* next one, and if it is not in the next one it is going to be removed.
ScheduleAhead ==
    /\ awaitsActivation => streamsToRemove \cap nextScheduleStreams = {}
    /\ \A id \in Mapped : Status(id) \in {"ACCEPT_WAIT", "ESTABLISHED"} =>
          /\ id \in scheduled \/ (awaitsActivation /\ id \in nextScheduleStreams)
          /\ awaitsActivation => id \in nextScheduleStreams \cup streamsToRemove

InConnect(t) == app[t].pc \in {"connect", "connectWait", "connectFail"}
InListen(t) == app[t].pc \in {"listen", "listenWait", "listenFail"}
InAccept(t) == app[t].pc \in {"acceptFind", "acceptDone"}
InServer(t) == app[t].pc \in {"accept", "acceptWait"}
InClose(t) == app[t].pc \in {"close", "closeRemove"}
Owns(t) == InConnect(t) \/ InListen(t) \/ InAccept(t) \/ InClose(t)

\* What a thread in connect() relies on.
ConnectOwns(t) ==
    InConnect(t) =>
        /\ IsStream(app[t].fd) /\ app[t].fd \in fdt
        /\ Of(t).status \in ConnectStatuses

\* In listen(): the map has the server of the thread or one that is closed.
ListenOwns(t) ==
    InListen(t) =>
        /\ ~IsStream(app[t].fd) /\ app[t].fd \in fdt
        /\ Of(t).status \in ListenStatuses
        /\ servers[Of(t).id.dstPort] # 0
        /\ \/ servers[Of(t).id.dstPort] = app[t].fd
           \/ endpoints[servers[Of(t).id.dstPort]].status = "CLOSE_WAIT"

\* In accept(), with a server and then with the stream it has found there.
AcceptOwns(t) ==
    /\ InServer(t) => ~IsStream(app[t].fd)
    /\ InAccept(t) =>
        /\ IsStream(app[t].fd) /\ Of(t).status = "ACCEPT_WAIT"
        /\ \A fd \in Fds : app[t].fd \notin Pending(fd)
        /\ mac.op = "addPending" => app[t].fd # mac.fd

\* In close().
CloseOwns(t) ==
    /\ InClose(t) =>
        /\ Of(t).status \in OwnStatuses \cup {"LISTEN"}
        /\ IsStream(app[t].fd) => app[t].fd \in fdt
    /\ app[t].pc = "closeRemove" => Of(t).status \in {"REMOTELY_CLOSED", "REOPENED"}

ThreadOwns(t) ==
    /\ app[t].pc # "idle" => app[t].fd \in Fds
    /\ Owns(t) => app[t].fd \notin handles
    /\ ConnectOwns(t) /\ ListenOwns(t) /\ AcceptOwns(t) /\ CloseOwns(t)

\* No two threads work on the same new or closing endpoint, or on the same port.
Apart(t, u) ==
    /\ Owns(t) /\ Owns(u) => app[t].fd # app[u].fd
    /\ InListen(t) /\ InListen(u) => Of(t).id.dstPort # Of(u).id.dstPort

ThreadsOwn ==
    /\ \A t \in Threads : ThreadOwns(t)
    /\ \A t, u \in Threads : t # u => Apart(t, u)

\* The application has handles of endpoints that it has neither closed nor yet to accept.
HandlesLive ==
    \A fd \in handles : endpoints[fd].status \in OwnStatuses \cup {"LISTEN"}

Consistent ==
    MapsAgree /\ StatusByKind /\ PendingOnce /\ MacStep /\ ScheduleAhead
    /\ ThreadsOwn /\ HandlesLive /\ PortsReleased

IndInv == Typed /\ Consistent

-----------------------------------------------------------------------------
(***************************************************************************)
(* Identifiers, endpoints and the transitions of their status.             *)
(***************************************************************************)
\* The ids of streams and those of servers are told apart, and have ports.
LEMMA IdFacts ==
    /\ \A id \in StreamIds :
         /\ id \notin ServerIds /\ ~IsServer(id)
         /\ id.srcPort \in Ports /\ id.dstPort \in Ports
         /\ GetServerId(id) \in ServerIds /\ GetServerId(id).dstPort = id.dstPort
    /\ \A id \in ServerIds : IsServer(id) /\ id \notin StreamIds /\ id.dstPort \in Ports
    /\ \A p, q \in Ports : StreamId(Me, Peer, p, q) \in Outgoing
    /\ \A p \in Ports : StreamId(Me, Me, 0, p) \in ServerIds
    /\ \A p, q \in Ports : StreamId(Me, Peer, p, q).srcPort = p
    /\ \A p \in Ports : StreamId(Me, Me, 0, p).dstPort = p
    /\ Outgoing \subseteq StreamIds
  <1>1. \A id \in StreamIds :
         /\ ~IsServer(id)
         /\ id.srcPort \in Ports /\ id.dstPort \in Ports
         /\ GetServerId(id) \in ServerIds /\ GetServerId(id).dstPort = id.dstPort
    BY DEF StreamIds, Outgoing, Incoming, StreamId, IsServer, GetServerId, ServerIds
  <1>2. \A id \in ServerIds : IsServer(id) /\ id.dstPort \in Ports
    BY <1>1 DEF ServerIds, StreamId, IsServer, GetServerId
  <1>3. \A p \in Ports : StreamId(Me, Me, 0, p) \in ServerIds
    <2> SUFFICES ASSUME NEW p \in Ports PROVE StreamId(Me, Me, 0, p) \in ServerIds
      OBVIOUS
    <2>1. StreamId(Peer, Me, p, p) \in StreamIds
      BY DEF StreamIds, Incoming
    <2>2. GetServerId(StreamId(Peer, Me, p, p)) = StreamId(Me, Me, 0, p)
      BY DEF GetServerId, StreamId
    <2> QED BY <2>1, <2>2 DEF ServerIds
  <1> QED
    BY <1>1, <1>2, <1>3 DEF StreamIds, Outgoing, StreamId

\* The endpoints are numbered from 1; a new one gets the next number.
LEMMA EndpointFacts ==
    ASSUME EndpointsTyped
    PROVE  /\ Len(endpoints) \in Nat
           /\ Fds = 1 .. Len(endpoints)
           /\ \A fd \in Fds : fd # 0 /\ fd # Len(endpoints) + 1 /\ fd # Len(endpoints) + 2
           /\ \A fd \in Fds : endpoints[fd] \in Endpoint
  BY DEF EndpointsTyped, Fds

\* What the MAC thread may make of the status of an endpoint: it neither accepts nor
\* closes one, nor touches one that waits for either.
GentleMoves ==
    {<<"CONNECTING", "ESTABLISHED">>, <<"CONNECTING", "CONNECT_FAILED">>,
     <<"ESTABLISHED", "REMOTELY_CLOSED">>, <<"REOPENED", "REMOTELY_CLOSED">>,
     <<"REMOTELY_CLOSED", "REOPENED">>,
     <<"LISTEN_WAIT", "LISTEN">>, <<"LISTEN_WAIT", "LISTEN_FAILED">>}

MovesGently(e, f) ==
    f.status = e.status \/ <<e.status, f.status>> \in GentleMoves

Gentle(e, f) ==
    /\ f \in Endpoint
    /\ f.id = e.id
    /\ f.pendingAccept = e.pendingAccept
    /\ MovesGently(e, f)

\* An endpoint, field by field.
Made(id, status, sme, fail, pending) ==
    [id |-> id, status |-> status, smeTimeout |-> sme, failTimeout |-> fail,
     pendingAccept |-> pending]

\* Updates of several fields, one after the other.
LEMMA Timeouts ==
    ASSUME NEW e \in Endpoint, NEW sme, NEW fail
    PROVE  /\ [e EXCEPT !.smeTimeout = sme, !.failTimeout = fail]
                  = Made(e.id, e.status, sme, fail, e.pendingAccept)
           /\ [[e EXCEPT !.smeTimeout = sme] EXCEPT !.failTimeout = fail]
                  = Made(e.id, e.status, sme, fail, e.pendingAccept)
  <1> DEFINE a == Made(e.id, e.status, sme, e.failTimeout, e.pendingAccept)
  <1>1. [e EXCEPT !.smeTimeout = sme] = a
    BY DEF Endpoint, Made
  <1>2. [e EXCEPT !.smeTimeout = sme, !.failTimeout = fail]
            = [[e EXCEPT !.smeTimeout = sme] EXCEPT !.failTimeout = fail]
    OBVIOUS
  <1>3. [[e EXCEPT !.smeTimeout = sme] EXCEPT !.failTimeout = fail]
            = [a EXCEPT !.failTimeout = fail]
    BY <1>1
  <1>4. [a EXCEPT !.failTimeout = fail] = Made(e.id, e.status, sme, fail, e.pendingAccept)
    BY DEF Made
  <1> HIDE DEF a
  <1> QED BY <1>2, <1>3, <1>4

\* A change of status changes the status and restarts the timeouts.
LEMMA InStatusIs ==
    ASSUME NEW e \in Endpoint, NEW s \in Statuses
    PROVE  /\ InStatus(e, s) \in Endpoint
           /\ InStatus(e, s).id = e.id
           /\ InStatus(e, s).status = s
           /\ InStatus(e, s).pendingAccept = e.pendingAccept
  <1> DEFINE a == [e EXCEPT !.status = s]
  <1>1. a = Made(e.id, s, e.smeTimeout, e.failTimeout, e.pendingAccept)
    BY DEF Endpoint, Made
  <1>2. a \in Endpoint /\ a.id = e.id /\ a.status = s /\ a.pendingAccept = e.pendingAccept
    BY <1>1 DEF Endpoint, Made
  <1>3. InStatus(e, s) = [[a EXCEPT !.smeTimeout = SmeTimeoutMax]
                              EXCEPT !.failTimeout = FailTimeoutMax]
    BY DEF InStatus
  <1> HIDE DEF a
  <1>4. InStatus(e, s) = Made(e.id, s, SmeTimeoutMax, FailTimeoutMax, e.pendingAccept)
    <2>1. [[a EXCEPT !.smeTimeout = SmeTimeoutMax] EXCEPT !.failTimeout = FailTimeoutMax]
              = Made(a.id, a.status, SmeTimeoutMax, FailTimeoutMax, a.pendingAccept)
      BY <1>2, Timeouts
    <2> QED BY <1>2, <1>3, <2>1
  <1>5. SmeTimeoutMax \in 0 .. SmeTimeoutMax /\ FailTimeoutMax \in 1 .. FailTimeoutMax
    OBVIOUS
  <1> QED BY <1>4, <1>5 DEF Endpoint, Made

\* The handlers of the MAC thread are gentle.
LEMMA HandlersAreGentle ==
    ASSUME NEW e \in Endpoint
    PROVE  /\ Gentle(e, AddedStream(e)) /\ Gentle(e, RemovedStream(e))
           /\ Gentle(e, RejectedStream(e)) /\ Gentle(e, DesyncedStream(e))
           /\ Gentle(e, AcceptedServer(e)) /\ Gentle(e, RejectedServer(e))
           /\ RemovedStream(e).status # "ESTABLISHED"
           /\ DesyncedStream(e).status # "ESTABLISHED"
  <1> USE DEF Gentle, MovesGently, GentleMoves, Switch
  <1>1. Gentle(e, AddedStream(e))
    BY InStatusIs DEF AddedStream, Statuses
  <1>2. Gentle(e, RemovedStream(e)) /\ RemovedStream(e).status # "ESTABLISHED"
    BY InStatusIs DEF RemovedStream, Statuses
  <1>3. Gentle(e, RejectedStream(e))
    BY InStatusIs DEF RejectedStream, Statuses
  <1>4. Gentle(e, DesyncedStream(e)) /\ DesyncedStream(e).status # "ESTABLISHED"
    BY InStatusIs DEF DesyncedStream, Statuses
  <1>5. Gentle(e, AcceptedServer(e))
    BY InStatusIs DEF AcceptedServer, Statuses
  <1>6. Gentle(e, RejectedServer(e))
    BY InStatusIs DEF RejectedServer, Statuses
  <1> QED BY <1>1, <1>2, <1>3, <1>4, <1>5, <1>6

\* So is the periodic update, which never establishes anything.
LEMMA UpdateIsGentle ==
    ASSUME NEW e \in Endpoint
    PROVE  /\ Gentle(e, PeriodicUpdate(e).endpoint)
           /\ PeriodicUpdate(e).endpoint.status \in {"ACCEPT_WAIT", "ESTABLISHED"} =>
                  PeriodicUpdate(e).endpoint.status = e.status
           /\ PeriodicUpdate(e).sme \in SmeTypes \cup {"none"}
  <1>1. CASE e.status \in {"CONNECTING", "LISTEN_WAIT"}
    <2>1. PeriodicUpdate(e) = UpdateRequest(e)
      BY <1>1 DEF PeriodicUpdate
    <2> DEFINE F(s, f) == Made(e.id, e.status, s, f, e.pendingAccept)
    <2>2. CASE e.failTimeout <= 1
      <3> DEFINE s == IF e.status = "CONNECTING" THEN "CONNECT_FAILED" ELSE "LISTEN_FAILED"
      <3>1. PeriodicUpdate(e) = [endpoint |-> InStatus(e, s), sme |-> "CLOSED"]
        BY <2>1, <2>2 DEF UpdateRequest
      <3>2. s \in Statuses /\ <<e.status, s>> \in GentleMoves
        BY <1>1 DEF Statuses, MovesGently, GentleMoves
      <3> HIDE DEF s
      <3>3. s \notin {"ACCEPT_WAIT", "ESTABLISHED"}
        BY DEF s
      <3> QED BY <3>1, <3>2, <3>3, InStatusIs DEF Gentle, MovesGently, SmeTypes
    <2>3. CASE ~(e.failTimeout <= 1) /\ e.smeTimeout <= 1
      <3>1. PeriodicUpdate(e).endpoint = F(SmeTimeoutMax, e.failTimeout - 1)
        <4>1. PeriodicUpdate(e).endpoint
                  = [e EXCEPT !.smeTimeout = SmeTimeoutMax, !.failTimeout = e.failTimeout - 1]
          BY <2>1, <2>3 DEF UpdateRequest
        <4> QED BY <4>1, Timeouts
      <3>2. PeriodicUpdate(e).sme \in SmeTypes
        BY <2>1, <2>3 DEF UpdateRequest, SmeTypes
      <3>3. e.failTimeout - 1 \in 1 .. FailTimeoutMax
        BY <2>3 DEF Endpoint
      <3> QED BY <3>1, <3>2, <3>3 DEF Gentle, MovesGently, Endpoint, Made
    <2>4. CASE ~(e.failTimeout <= 1) /\ ~(e.smeTimeout <= 1)
      <3>1. PeriodicUpdate(e).endpoint = F(e.smeTimeout - 1, e.failTimeout - 1)
        <4>1. PeriodicUpdate(e).endpoint
                  = [e EXCEPT !.smeTimeout = e.smeTimeout - 1, !.failTimeout = e.failTimeout - 1]
          BY <2>1, <2>4 DEF UpdateRequest
        <4> QED BY <4>1, Timeouts
      <3>2. PeriodicUpdate(e).sme = "none"
        BY <2>1, <2>4 DEF UpdateRequest, SmeTypes
      <3>3. e.failTimeout - 1 \in 1 .. FailTimeoutMax /\ e.smeTimeout - 1 \in 0 .. SmeTimeoutMax
        BY <2>4 DEF Endpoint
      <3> QED BY <3>1, <3>2, <3>3 DEF Gentle, MovesGently, Endpoint, Made
    <2> QED BY <2>2, <2>3, <2>4
  <1>2. CASE e.status \in {"REOPENED", "CLOSE_WAIT"}
    <2> DEFINE F(s) == Made(e.id, e.status, s, e.failTimeout, e.pendingAccept)
    <2>1. PeriodicUpdate(e) = UpdateClosed(e)
      BY <1>2 DEF PeriodicUpdate
    <2>2. PICK s \in 0 .. SmeTimeoutMax : PeriodicUpdate(e).endpoint = F(s)
      <3>1. CASE e.smeTimeout = 0
        <4>1. PeriodicUpdate(e).endpoint = F(SmeTimeoutMax)
          BY <2>1, <3>1 DEF UpdateClosed, Endpoint, Made
        <4>2. SmeTimeoutMax \in 0 .. SmeTimeoutMax
          OBVIOUS
        <4> QED BY <4>1, <4>2
      <3>2. CASE e.smeTimeout # 0
        <4>1. e.smeTimeout - 1 \in 0 .. SmeTimeoutMax
          BY <3>2 DEF Endpoint
        <4>2. PeriodicUpdate(e).endpoint = F(e.smeTimeout - 1)
          BY <2>1, <3>2 DEF UpdateClosed, Endpoint, Made
        <4> QED BY <4>1, <4>2
      <3> QED BY <3>1, <3>2
    <2>3. PeriodicUpdate(e).sme \in SmeTypes \cup {"none"}
      BY <2>1 DEF UpdateClosed, SmeTypes
    <2> QED BY <2>2, <2>3 DEF Gentle, MovesGently, Endpoint, Made
  <1>3. CASE e.status \notin {"CONNECTING", "LISTEN_WAIT", "REOPENED", "CLOSE_WAIT"}
    <2>1. PeriodicUpdate(e) = [endpoint |-> e, sme |-> "none"]
      BY <1>3 DEF PeriodicUpdate
    <2> QED BY <2>1 DEF Gentle, MovesGently
  <1> QED BY <1>1, <1>2, <1>3

\* accept(), close() and the closing of the streams that wait at a server: `f' is `e'
\* with another status.
Becomes(f, e, status) ==
    /\ f \in Endpoint
    /\ f.id = e.id
    /\ f.pendingAccept = e.pendingAccept
    /\ f.status = status

LEMMA CallsMove ==
    ASSUME NEW e \in Endpoint
    PROVE  /\ Becomes(AcceptedStream(e), e,
                      IF e.status = "ACCEPT_WAIT" THEN "ESTABLISHED" ELSE e.status)
           /\ Becomes(ClosedServer(e), e,
                      IF e.status = "ACCEPT_WAIT" THEN "CLOSE_WAIT" ELSE e.status)
           /\ Becomes(Closed(e), e,
                      IF e.status \in {"ESTABLISHED", "REOPENED", "LISTEN"}
                      THEN "CLOSE_WAIT" ELSE e.status)
  <1> USE InStatusIs DEF Becomes, Switch, Statuses
  <1>1. Becomes(AcceptedStream(e), e,
                IF e.status = "ACCEPT_WAIT" THEN "ESTABLISHED" ELSE e.status)
    BY DEF AcceptedStream
  <1>2. Becomes(ClosedServer(e), e,
                IF e.status = "ACCEPT_WAIT" THEN "CLOSE_WAIT" ELSE e.status)
    BY DEF ClosedServer
  <1>3. Becomes(Closed(e), e,
                IF e.status \in {"ESTABLISHED", "REOPENED", "LISTEN"}
                THEN "CLOSE_WAIT" ELSE e.status)
    BY DEF Closed
  <1> QED BY <1>1, <1>2, <1>3

\* notify_one() leaves the threads where they are.
LEMMA NotifiedKeeps ==
    ASSUME AppTyped, NEW fds, NEW a \in Notified(fds)
    PROVE  /\ a \in [Threads -> [pc : Pcs, fd : {0} \cup Fds, signalled : BOOLEAN]]
           /\ \A t \in Threads : a[t].pc = app[t].pc /\ a[t].fd = app[t].fd
  <1> DEFINE waiting == {fd \in fds : Waiters(fd) # {}}
  <1>1. PICK chosen \in [waiting -> Threads] :
            a = [t \in Threads |-> IF \E fd \in waiting : chosen[fd] = t
                                  THEN [app[t] EXCEPT !.signalled = TRUE] ELSE app[t]]
    BY DEF Notified
  <1> HIDE DEF waiting
  <1>2. \A t \in Threads : a[t] = app[t] \/ a[t] = [app[t] EXCEPT !.signalled = TRUE]
    BY <1>1
  <1>3. \A t \in Threads : app[t] \in [pc : Pcs, fd : {0} \cup Fds, signalled : BOOLEAN]
    BY DEF AppTyped
  <1>4. ASSUME NEW t \in Threads
        PROVE  /\ a[t] \in [pc : Pcs, fd : {0} \cup Fds, signalled : BOOLEAN]
               /\ a[t].pc = app[t].pc /\ a[t].fd = app[t].fd
    BY <1>2, <1>3
  <1>5. a = [t \in Threads |-> a[t]]
    BY <1>1
  <1> QED BY <1>4, <1>5

-----------------------------------------------------------------------------
(***************************************************************************)
(* What steps of the same shape preserve.                                  *)
(***************************************************************************)
\* The endpoints keep their number, identity and what waits at them.
LEMMA MappedEndpoints ==
    ASSUME EndpointsTyped, DOMAIN endpoints' = Fds,
           endpoints' = [fd \in Fds |-> endpoints'[fd]],
           \A fd \in Fds : /\ endpoints'[fd] \in Endpoint
                           /\ endpoints'[fd].pendingAccept = endpoints[fd].pendingAccept
    PROVE  EndpointsTyped' /\ Fds' = Fds
  <1>1. Fds' = Fds
    BY DEF Fds
  <1>2. Len(endpoints) \in Nat /\ Fds = 1 .. Len(endpoints)
    BY EndpointFacts
  <1>3. endpoints' \in Seq(Endpoint)
    BY <1>2, IsASeq
  <1>4. \A fd \in Fds : Pending(fd)' = Pending(fd)
    BY DEF Pending
  <1> QED BY <1>1, <1>3, <1>4 DEF EndpointsTyped

\* One endpoint more.
LEMMA AppendedEndpoint ==
    ASSUME EndpointsTyped, NEW e \in Endpoint, e.pendingAccept = <<>>,
           endpoints' = Append(endpoints, e)
    PROVE  /\ EndpointsTyped'
           /\ Fds' = Fds \cup {Len(endpoints) + 1}
           /\ \A fd \in Fds : endpoints'[fd] = endpoints[fd]
           /\ endpoints'[Len(endpoints) + 1] = e
  <1> DEFINE n == Len(endpoints)
  <1>1. n \in Nat /\ Fds = 1 .. n
    BY EndpointFacts
  <1>2. endpoints' \in Seq(Endpoint) /\ Len(endpoints') = n + 1
    BY DEF EndpointsTyped
  <1>3. Fds' = 1 .. n + 1
    BY <1>2 DEF Fds
  <1>4. (\A fd \in Fds : endpoints'[fd] = endpoints[fd]) /\ endpoints'[n + 1] = e
    BY <1>1 DEF EndpointsTyped
  <1>5. \A fd \in Fds : Pending(fd)' = Pending(fd)
    BY <1>4 DEF Pending
  <1>6. \A fd : fd = n + 1 => Pending(fd)' = {}
    <2> SUFFICES ASSUME NEW fd, fd = n + 1 PROVE Pending(fd)' = {}
      OBVIOUS
    <2>1. endpoints'[fd].pendingAccept = <<>>
      BY <1>4
    <2> QED BY <2>1 DEF Pending
  <1>7. Fds' = Fds \cup {n + 1}
    BY <1>1, <1>3
  <1>8. \A fd \in Fds : Pending(fd) \subseteq Fds
    BY DEF EndpointsTyped
  <1> HIDE DEF n
  <1>9. \A fd \in Fds' : Pending(fd)' \subseteq Fds'
    BY <1>5, <1>6, <1>7, <1>8
  <1> QED BY <1>2, <1>4, <1>7, <1>9 DEF EndpointsTyped, n

\* Two endpoints more.
LEMMA AppendedTwo ==
    ASSUME EndpointsTyped, NEW e \in Endpoint, NEW f \in Endpoint,
           e.pendingAccept = <<>>, f.pendingAccept = <<>>,
           endpoints' = endpoints \o <<e, f>>
    PROVE  /\ EndpointsTyped'
           /\ Fds' = Fds \cup {Len(endpoints) + 1, Len(endpoints) + 2}
           /\ \A fd \in Fds : endpoints'[fd] = endpoints[fd]
           /\ endpoints'[Len(endpoints) + 1] = e
           /\ endpoints'[Len(endpoints) + 2] = f
  <1> DEFINE n == Len(endpoints)
  <1>1. n \in Nat /\ Fds = 1 .. n
    BY EndpointFacts
  <1>2. endpoints \in Seq(Endpoint) /\ <<e, f>> \in Seq(Endpoint) /\ Len(<<e, f>>) = 2
    BY DEF EndpointsTyped
  <1>3. endpoints' \in Seq(Endpoint) /\ Len(endpoints') = n + 2
    BY <1>2
  <1>4. Fds' = 1 .. n + 2
    BY <1>3 DEF Fds
  <1>5. \A fd \in Fds : endpoints'[fd] = endpoints[fd]
    BY <1>1, <1>2
  <1>6. endpoints'[n + 1] = e /\ endpoints'[n + 2] = f
    BY <1>1, <1>2
  <1>7. \A fd \in Fds : Pending(fd)' = Pending(fd)
    BY <1>5 DEF Pending
  <1>8. \A fd \in {n + 1, n + 2} : Pending(fd)' = {}
    <2> SUFFICES ASSUME NEW fd \in {n + 1, n + 2} PROVE Pending(fd)' = {}
      OBVIOUS
    <2>1. endpoints'[fd].pendingAccept = <<>>
      BY <1>6
    <2> QED BY <2>1 DEF Pending
  <1>9. Fds' = Fds \cup {n + 1, n + 2}
    BY <1>1, <1>4
  <1>10. \A fd \in Fds : Pending(fd) \subseteq Fds
    BY DEF EndpointsTyped
  <1> HIDE DEF n
  <1>11. \A fd \in Fds' : Pending(fd)' \subseteq Fds'
    BY <1>7, <1>8, <1>9, <1>10
  <1> QED BY <1>3, <1>5, <1>6, <1>9, <1>11 DEF EndpointsTyped, n

\* Endpoints keep their kind.
SameKind == Fds \subseteq Fds' /\ \A fd \in Fds : endpoints'[fd].id = endpoints[fd].id

\* The maps stay as they are.
LEMMA SameMaps ==
    ASSUME MapsTyped, MapsAgree, PortsReleased, SameKind,
           UNCHANGED <<streams, servers, fdt, clientPorts>>
    PROVE  MapsTyped' /\ MapsAgree' /\ PortsReleased' /\ Mapped' = Mapped
  <1>1. MapsTyped'
    BY DEF MapsTyped, SameKind
  <1>2. Mapped' = Mapped
    BY DEF Mapped
  <1>3. PortsReleased'
    BY <1>2 DEF PortsReleased
  <1>4. \A id \in Mapped : streams[id] \in Fds
    BY DEF Mapped, MapsTyped
  <1>5. \A p \in Ports : servers[p] # 0 => servers[p] \in Fds
    BY DEF MapsTyped
  <1>6. MapsAgree'
    BY <1>2, <1>4, <1>5 DEF MapsAgree, StreamsAgree, ServersAgree, MapsTyped, IsStream, SameKind
  <1> QED BY <1>1, <1>2, <1>3, <1>6

\* Streams leave their map, with their file descriptors and ports.
LEMMA StreamsRemoved ==
    ASSUME EndpointsTyped, MapsTyped, MapsAgree, PortsReleased, SameKind,
           NEW ids \in SUBSET StreamIds, RemoveStreams(ids), UNCHANGED servers
    PROVE  /\ MapsTyped' /\ MapsAgree' /\ PortsReleased'
           /\ Mapped' = Mapped \ ids
           /\ \A id \in Mapped' : streams'[id] = streams[id]
           /\ \A fd \in fdt : fd \notin fdt' => IsStream(fd) /\ endpoints[fd].id \in ids
           /\ fdt' \subseteq fdt
  <1> USE DEF RemoveStreams
  <1>1. MapsTyped'
    BY DEF MapsTyped, SameKind
  <1>2. Mapped' = Mapped \ ids /\ \A id \in Mapped' : streams'[id] = streams[id]
    BY DEF Mapped
  <1>3. PortsReleased'
    <2> SUFFICES ASSUME NEW p \in Ports, clientPorts'[p]
                 PROVE  \E id \in Outgoing \cap Mapped' : id.srcPort = p
      BY DEF PortsReleased
    <2>1. clientPorts[p] /\ \A id \in ids \cap Mapped : id.srcPort # p
      OBVIOUS
    <2>2. PICK id \in Outgoing \cap Mapped : id.srcPort = p
      BY <2>1 DEF PortsReleased
    <2> QED BY <1>2, <2>1, <2>2
  <1>4. \A fd \in fdt : fd \notin fdt' => IsStream(fd) /\ endpoints[fd].id \in ids
    BY DEF MapsAgree, StreamsAgree, ServersAgree, IsStream, Mapped
  <1>5. \A id \in Mapped : streams[id] \in Fds
    BY DEF Mapped, MapsTyped
  <1>6. \A id \in Mapped' : endpoints'[streams'[id]].id = id /\ streams'[id] \in fdt'
    <2> SUFFICES ASSUME NEW id \in Mapped'
                 PROVE  endpoints'[streams'[id]].id = id /\ streams'[id] \in fdt'
      OBVIOUS
    <2>1. id \in Mapped /\ id \notin ids /\ streams'[id] = streams[id] /\ streams[id] \in Fds
      BY <1>2, <1>5
    <2>2. endpoints[streams[id]].id = id /\ streams[id] \in fdt
      BY <2>1 DEF MapsAgree, StreamsAgree, ServersAgree
    <2>3. \A other \in ids \cap Mapped : streams[other] # streams[id]
      BY <2>1, <2>2 DEF MapsAgree, StreamsAgree, ServersAgree
    <2> QED BY <2>1, <2>2, <2>3 DEF SameKind
  <1>7. \A fd \in fdt' : IsStream(fd)' => streams'[endpoints'[fd].id] = fd
    <2> SUFFICES ASSUME NEW fd \in fdt', IsStream(fd)'
                 PROVE  streams'[endpoints'[fd].id] = fd
      OBVIOUS
    <2>1. fd \in fdt /\ fd \in Fds /\ fd \notin {streams[id] : id \in ids \cap Mapped}
      BY DEF MapsTyped
    <2>2. endpoints'[fd].id = endpoints[fd].id /\ IsStream(fd)
      BY <2>1 DEF SameKind, IsStream
    <2>3. streams[endpoints[fd].id] = fd /\ endpoints[fd].id \in StreamIds
      BY <2>1, <2>2 DEF MapsAgree, StreamsAgree, ServersAgree, IsStream
    <2>4. fd # 0
      BY <2>1, EndpointFacts
    <2>5. endpoints[fd].id \in Mapped
      BY <2>3, <2>4 DEF Mapped
    <2>6. endpoints[fd].id \notin ids
      BY <2>1, <2>3, <2>5
    <2> QED BY <2>2, <2>3, <2>6
  <1>8. \A p \in Ports : servers'[p] # 0 =>
          /\ endpoints'[servers'[p]].id \notin StreamIds
          /\ endpoints'[servers'[p]].id.dstPort = p
          /\ servers'[p] \in fdt'
    <2> SUFFICES ASSUME NEW p \in Ports, servers[p] # 0
                 PROVE  /\ endpoints'[servers[p]].id \notin StreamIds
                        /\ endpoints'[servers[p]].id.dstPort = p
                        /\ servers[p] \in fdt'
      OBVIOUS
    <2>1. /\ ~IsStream(servers[p]) /\ endpoints[servers[p]].id.dstPort = p
          /\ servers[p] \in fdt /\ servers[p] \in Fds
      BY DEF MapsAgree, StreamsAgree, ServersAgree, MapsTyped
    <2> QED BY <1>4, <2>1 DEF SameKind, IsStream
  <1>9. MapsAgree'
    BY <1>6, <1>7, <1>8 DEF MapsAgree, StreamsAgree, ServersAgree, IsStream
  <1> QED BY <1>1, <1>2, <1>3, <1>4, <1>9

\* A server leaves its map.
LEMMA ServerRemoved ==
    ASSUME EndpointsTyped, MapsTyped, MapsAgree, PortsReleased, UNCHANGED endpoints,
           NEW p \in Ports, RemoveServer(p), UNCHANGED <<streams, clientPorts>>
    PROVE  /\ MapsTyped' /\ MapsAgree' /\ PortsReleased' /\ Mapped' = Mapped
           /\ fdt' = fdt \ {servers[p]}
           /\ \A q \in Ports : q # p => servers'[q] = servers[q]
           /\ servers'[p] = 0
  <1> USE DEF RemoveServer
  <1>1. Mapped' = Mapped /\ Fds' = Fds
    BY DEF Mapped, Fds
  <1>2. MapsTyped'
    BY <1>1 DEF MapsTyped
  <1>3. PortsReleased'
    BY <1>1 DEF PortsReleased
  <1>4. \A q \in Ports : servers'[q] = IF q = p THEN 0 ELSE servers[q]
    BY DEF MapsTyped
  <1>5. servers[p] # 0 => ~IsStream(servers[p])
    BY DEF MapsAgree, ServersAgree
  <1>6. StreamsAgree'
    <2>1. \A id \in Mapped : streams[id] # servers[p]
      BY <1>5 DEF Mapped, MapsAgree, StreamsAgree, IsStream
    <2> QED BY <1>1, <2>1 DEF MapsAgree, StreamsAgree, IsStream
  <1>7. ServersAgree'
    <2>1. \A q \in Ports : q # p /\ servers[q] # 0 => servers[q] # servers[p]
      BY DEF MapsAgree, ServersAgree
    <2>2. \A q \in Ports : servers'[q] # 0 =>
            /\ endpoints[servers'[q]].id \notin StreamIds
            /\ endpoints[servers'[q]].id.dstPort = q
            /\ servers'[q] \in fdt'
      BY <1>4, <2>1 DEF MapsAgree, ServersAgree, IsStream
    <2> QED BY <2>2 DEF ServersAgree, IsStream
  <1> QED BY <1>1, <1>2, <1>3, <1>4, <1>6, <1>7 DEF MapsAgree

\* A stream enters its map, where it was not.
LEMMA StreamAdded ==
    ASSUME EndpointsTyped, MapsTyped, StreamsAgree, SameKind,
           NEW id \in StreamIds, streams[id] = 0,
           NEW n \in Fds' \ Fds, n # 0, endpoints'[n].id = id,
           streams' \in [StreamIds -> {0} \cup Fds'], streams'[id] = n,
           \A i \in StreamIds : i # id => streams'[i] = streams[i],
           n \in fdt', fdt \subseteq fdt',
           \A fd \in fdt' : fd \in fdt \/ fd = n \/ endpoints'[fd].id \notin StreamIds
    PROVE  /\ StreamsAgree'
           /\ Mapped' = Mapped \cup {id}
           /\ \A i \in Mapped : streams'[i] = streams[i] /\ i # id
  <1>1. Mapped' = Mapped \cup {id} /\ \A i \in Mapped : i # id /\ streams'[i] = streams[i]
    BY DEF Mapped
  <1>2. \A i \in Mapped' : endpoints'[streams'[i]].id = i /\ streams'[i] \in fdt'
    <2>1. \A i \in Mapped : streams[i] \in Fds
      BY DEF Mapped, MapsTyped
    <2> QED BY <1>1, <2>1 DEF StreamsAgree, SameKind
  <1>3. \A fd \in fdt' : endpoints'[fd].id \in StreamIds => streams'[endpoints'[fd].id] = fd
    <2> SUFFICES ASSUME NEW fd \in fdt', endpoints'[fd].id \in StreamIds
                 PROVE  streams'[endpoints'[fd].id] = fd
      OBVIOUS
    <2>1. CASE fd = n
      BY <2>1
    <2>2. CASE fd # n
      <3>1. fd \in fdt /\ fd \in Fds /\ fd # 0
        BY <2>2, EndpointFacts DEF MapsTyped
      <3>2. endpoints'[fd].id = endpoints[fd].id /\ streams[endpoints[fd].id] = fd
        BY <3>1 DEF SameKind, StreamsAgree, IsStream
      <3> QED BY <3>1, <3>2
    <2> QED BY <2>1, <2>2
  <1> QED BY <1>1, <1>2, <1>3 DEF StreamsAgree, IsStream

\* The streams stay while servers are added.
LEMMA StreamsKept ==
    ASSUME MapsTyped, StreamsAgree, SameKind, UNCHANGED streams, fdt \subseteq fdt',
           \A fd \in fdt' : fd \in fdt \/ endpoints'[fd].id \notin StreamIds
    PROVE  StreamsAgree' /\ Mapped' = Mapped
  <1>1. Mapped' = Mapped
    BY DEF Mapped
  <1>2. \A i \in Mapped : streams[i] \in Fds
    BY DEF Mapped, MapsTyped
  <1>3. \A i \in Mapped : endpoints'[streams'[i]].id = i /\ streams'[i] \in fdt'
    BY <1>2 DEF StreamsAgree, SameKind
  <1>4. \A fd \in fdt' : endpoints'[fd].id \in StreamIds => streams'[endpoints'[fd].id] = fd
    BY DEF StreamsAgree, SameKind, IsStream, MapsTyped
  <1> QED BY <1>1, <1>3, <1>4 DEF StreamsAgree, IsStream

\* A server enters its map, whether or not another one was there.
LEMMA ServerAdded ==
    ASSUME MapsTyped, ServersAgree, SameKind,
           NEW p \in Ports, NEW n \in Fds' \ Fds,
           endpoints'[n].id \in ServerIds, endpoints'[n].id.dstPort = p,
           servers' = [servers EXCEPT ![p] = n], n \in fdt', fdt \subseteq fdt'
    PROVE  /\ ServersAgree'
           /\ servers' \in [Ports -> {0} \cup Fds']
           /\ servers'[p] = n
           /\ \A q \in Ports : q # p => servers'[q] = servers[q]
  <1>1. /\ servers' \in [Ports -> {0} \cup Fds'] /\ servers'[p] = n
        /\ \A q \in Ports : q # p => servers'[q] = servers[q]
    BY DEF MapsTyped, SameKind
  <1>2. \A q \in Ports : servers'[q] # 0 =>
            /\ endpoints'[servers'[q]].id \notin StreamIds
            /\ endpoints'[servers'[q]].id.dstPort = q
            /\ servers'[q] \in fdt'
    <2> SUFFICES ASSUME NEW q \in Ports, servers'[q] # 0
                 PROVE  /\ endpoints'[servers'[q]].id \notin StreamIds
                        /\ endpoints'[servers'[q]].id.dstPort = q
                        /\ servers'[q] \in fdt'
      OBVIOUS
    <2>1. CASE q = p
      BY <1>1, <2>1, IdFacts
    <2>2. CASE q # p
      BY <1>1, <2>2 DEF ServersAgree, MapsTyped, IsStream, SameKind
    <2> QED BY <2>1, <2>2
  <1> QED BY <1>1, <1>2 DEF ServersAgree, IsStream

\* The servers stay while streams are added.
LEMMA ServersKept ==
    ASSUME MapsTyped, ServersAgree, SameKind, UNCHANGED servers, fdt \subseteq fdt'
    PROVE  ServersAgree'
  <1>1. \A q \in Ports : servers'[q] # 0 =>
            /\ endpoints'[servers'[q]].id \notin StreamIds
            /\ endpoints'[servers'[q]].id.dstPort = q
            /\ servers'[q] \in fdt'
    BY DEF ServersAgree, MapsTyped, IsStream, SameKind
  <1> QED BY <1>1 DEF ServersAgree, IsStream

\* SMEs are queued, one for an endpoint.
LEMMA SmesQueued ==
    ASSUME SmesTyped, NEW ids, NEW type \in SmeTypes, EnqueueSMEs(ids, type),
           UNCHANGED smesSent
    PROVE  SmesTyped'
  BY DEF SmesTyped, EnqueueSMEs

\* What the schedule promises of the streams that are or may become established stays
\* true while none enters these states.
LEMMA ScheduleKept ==
    ASSUME ScheduleAhead,
           UNCHANGED <<streamsToRemove, nextScheduleStreams, scheduled, awaitsActivation>>,
           \A id \in Mapped' : Status(id)' \in {"ACCEPT_WAIT", "ESTABLISHED"} =>
               id \in Mapped /\ Status(id) \in {"ACCEPT_WAIT", "ESTABLISHED"}
    PROVE  ScheduleAhead'
  BY DEF ScheduleAhead

-----------------------------------------------------------------------------
(***************************************************************************)
(* What the threads, the handles and the streams that wait rely on.        *)
(***************************************************************************)
\* A thread stays where it is, and so does its endpoint in every respect that counts.
StaysPut(t) ==
    /\ app'[t].pc = app[t].pc /\ app'[t].fd = app[t].fd
    /\ app[t].pc # "idle" => endpoints'[app[t].fd].id = endpoints[app[t].fd].id
    /\ Owns(t) =>
         /\ MovesGently(endpoints[app[t].fd], endpoints'[app[t].fd])
         /\ app[t].fd \notin handles'
         /\ app[t].fd \in fdt /\ Of(t).status \notin {"ACCEPT_WAIT", "CLOSE_WAIT"} =>
                app[t].fd \in fdt'

\* The map has its server or a closed one.
ServerStays(t) ==
    InListen(t) =>
        LET s == servers'[Of(t).id.dstPort] IN
        s # 0 /\ (s = app[t].fd \/ endpoints'[s].status = "CLOSE_WAIT")

\* Nobody hands its stream to a server again.
StreamStays(t) ==
    InAccept(t) =>
        /\ \A fd \in Fds' : app[t].fd \notin Pending(fd)'
        /\ mac'.op = "addPending" => app[t].fd # mac'.fd

\* A thread that owns an endpoint is inside a call.
LEMMA OwnersAreBusy ==
    ASSUME NEW t \in Threads, ThreadOwns(t)
    PROVE  /\ Owns(t) => app[t].pc # "idle"
           /\ app[t].pc # "idle" => app[t].fd \in Fds
           /\ Owns(t) => app[t].fd \in Fds /\ app[t].fd \notin handles
  BY DEF ThreadOwns, Owns, InConnect, InListen, InAccept, InClose

LEMMA ThreadKept ==
    ASSUME NEW t \in Threads, Fds \subseteq Fds', ThreadOwns(t), StaysPut(t),
           ServerStays(t), StreamStays(t)
    PROVE  ThreadOwns(t)' /\ app'[t].pc = app[t].pc /\ app'[t].fd = app[t].fd
           /\ (app[t].pc # "idle" => Of(t)'.id = Of(t).id)
  <1> USE DEF StaysPut
  <1>1. (app[t].pc # "idle" => app[t].fd \in Fds) /\ (Owns(t) => app[t].fd \notin handles)
    BY DEF ThreadOwns
  <1>3. /\ InConnect(t)' <=> InConnect(t)
        /\ InListen(t)' <=> InListen(t)
        /\ InAccept(t)' <=> InAccept(t)
        /\ InServer(t)' <=> InServer(t)
        /\ InClose(t)' <=> InClose(t)
        /\ Owns(t)' <=> Owns(t)
    BY DEF InConnect, InListen, InAccept, InServer, InClose, Owns
  <1>4. /\ InConnect(t) \/ InListen(t) \/ InAccept(t) \/ InServer(t) \/ InClose(t)
               \/ app[t].pc = "closeRemove" => app[t].pc # "idle"
        /\ InConnect(t) \/ InListen(t) \/ InAccept(t) \/ InClose(t) <=> Owns(t)
    BY DEF InConnect, InListen, InAccept, InServer, InClose, Owns
  <1>5. app[t].pc # "idle" =>
            /\ Of(t)' = endpoints'[app[t].fd]
            /\ Of(t)'.id = Of(t).id
            /\ IsStream(app[t].fd)' <=> IsStream(app[t].fd)
    BY DEF Of, IsStream
  <1>6. Owns(t) => MovesGently(Of(t), Of(t)')
    BY DEF Of
  <1>7. ConnectOwns(t)'
    <2> SUFFICES ASSUME InConnect(t)
                 PROVE  /\ IsStream(app[t].fd)' /\ app[t].fd \in fdt'
                        /\ Of(t)'.status \in ConnectStatuses
      BY <1>3 DEF ConnectOwns
    <2>1. IsStream(app[t].fd) /\ app[t].fd \in fdt /\ Of(t).status \in ConnectStatuses
      BY DEF ThreadOwns, ConnectOwns
    <2>2. app[t].pc # "idle" /\ Owns(t)
      BY <1>1, <1>4
    <2>3. Of(t)'.status \in ConnectStatuses
      BY <1>6, <2>1, <2>2 DEF Gentle, MovesGently, GentleMoves, ConnectStatuses, OwnStatuses
    <2>4. app[t].fd \in fdt'
      BY <2>1, <2>2 DEF ConnectStatuses, OwnStatuses
    <2> QED BY <1>5, <2>1, <2>2, <2>3, <2>4
  <1>8. ListenOwns(t)'
    <2> SUFFICES ASSUME InListen(t)
                 PROVE  /\ ~IsStream(app[t].fd)' /\ app[t].fd \in fdt'
                        /\ Of(t)'.status \in ListenStatuses
                        /\ servers'[Of(t)'.id.dstPort] # 0
                        /\ \/ servers'[Of(t)'.id.dstPort] = app[t].fd
                           \/ endpoints'[servers'[Of(t)'.id.dstPort]].status = "CLOSE_WAIT"
      BY <1>3 DEF ListenOwns
    <2>1. ~IsStream(app[t].fd) /\ app[t].fd \in fdt /\ Of(t).status \in ListenStatuses
      BY DEF ThreadOwns, ListenOwns
    <2>2. app[t].pc # "idle" /\ Owns(t)
      BY <1>1, <1>4
    <2>3. Of(t)'.status \in ListenStatuses
      BY <1>6, <2>1, <2>2 DEF Gentle, MovesGently, GentleMoves, ListenStatuses
    <2>4. app[t].fd \in fdt'
      BY <2>1, <2>2 DEF ListenStatuses
    <2> QED BY <1>5, <2>1, <2>2, <2>3, <2>4 DEF ServerStays
  <1>9. AcceptOwns(t)'
    <2>1. InServer(t)' => ~IsStream(app[t].fd)'
      BY <1>1, <1>3, <1>4, <1>5 DEF ThreadOwns, AcceptOwns
    <2>2. ASSUME InAccept(t)
          PROVE  IsStream(app[t].fd)' /\ Of(t)'.status = "ACCEPT_WAIT"
      <3>1. IsStream(app[t].fd) /\ Of(t).status = "ACCEPT_WAIT" /\ Owns(t) /\ app[t].pc # "idle"
        BY <1>1, <1>4, <2>2 DEF ThreadOwns, AcceptOwns
      <3> QED BY <1>5, <1>6, <3>1 DEF Gentle, MovesGently, GentleMoves
    <2> QED BY <1>3, <2>1, <2>2 DEF AcceptOwns, StreamStays
  <1>10. CloseOwns(t)'
    <2>1. ASSUME InClose(t)
          PROVE  /\ Of(t)'.status \in OwnStatuses \cup {"LISTEN"}
                 /\ IsStream(app[t].fd)' => app[t].fd \in fdt'
      <3>1. /\ Of(t).status \in OwnStatuses \cup {"LISTEN"} /\ Owns(t) /\ app[t].pc # "idle"
            /\ IsStream(app[t].fd) => app[t].fd \in fdt
        BY <1>1, <1>4, <2>1 DEF ThreadOwns, CloseOwns
      <3>2. Of(t)'.status \in OwnStatuses \cup {"LISTEN"}
        BY <1>6, <3>1 DEF Gentle, MovesGently, GentleMoves, OwnStatuses
      <3> QED BY <1>5, <3>1, <3>2 DEF OwnStatuses
    <2>2. ASSUME app[t].pc = "closeRemove"
          PROVE  Of(t)'.status \in {"REMOTELY_CLOSED", "REOPENED"}
      <3>1. Of(t).status \in {"REMOTELY_CLOSED", "REOPENED"} /\ Owns(t)
        BY <1>1, <2>2 DEF ThreadOwns, CloseOwns, Owns, InClose
      <3> QED BY <1>6, <3>1 DEF Gentle, MovesGently, GentleMoves
    <2> QED BY <1>3, <2>1, <2>2 DEF CloseOwns
  <1>11. (app'[t].pc # "idle" => app'[t].fd \in Fds') /\ (Owns(t)' => app'[t].fd \notin handles')
    BY <1>1, <1>3
  <1> QED BY <1>5, <1>7, <1>8, <1>9, <1>10, <1>11 DEF ThreadOwns

\* One thread moves and the others stay.
LEMMA OthersKept ==
    ASSUME ThreadsOwn, Fds \subseteq Fds', NEW t \in Threads,
           \A u \in Threads \ {t} : StaysPut(u) /\ ServerStays(u) /\ StreamStays(u),
           ThreadOwns(t)',
           \A u \in Threads \ {t} :
               /\ Owns(t)' /\ Owns(u) => app'[t].fd # app[u].fd
               /\ InListen(t)' /\ InListen(u) => Of(t)'.id.dstPort # Of(u).id.dstPort
    PROVE  ThreadsOwn'
  <1>1. \A u \in Threads \ {t} :
            /\ ThreadOwns(u)' /\ app'[u].pc = app[u].pc /\ app'[u].fd = app[u].fd
            /\ app[u].pc # "idle" => Of(u)'.id = Of(u).id
    BY ThreadKept DEF ThreadsOwn
  <1>2. \A u \in Threads \ {t} :
            /\ Owns(u)' <=> Owns(u)
            /\ InListen(u)' <=> InListen(u)
    BY <1>1 DEF InConnect, InListen, InAccept, InServer, InClose, Owns
  <1>3. \A u \in Threads : InListen(u) => app[u].pc # "idle"
    BY DEF InListen
  <1>4. ASSUME NEW u \in Threads, NEW v \in Threads, u # v
        PROVE  Apart(u, v)'
    <2>1. CASE u # t /\ v # t
      <3>1. Apart(u, v)
        BY <1>4 DEF ThreadsOwn
      <3> QED BY <1>1, <1>2, <1>3, <2>1, <3>1 DEF Apart
    <2>2. CASE u = t
      BY <1>1, <1>2, <1>3, <1>4, <2>2 DEF Apart
    <2>3. CASE v = t
      BY <1>1, <1>2, <1>3, <1>4, <2>3 DEF Apart
    <2> QED BY <2>1, <2>2, <2>3
  <1> QED BY <1>1, <1>4 DEF ThreadsOwn

\* All of them stay.
LEMMA ThreadsKept ==
    ASSUME ThreadsOwn, Fds \subseteq Fds',
           \A t \in Threads : StaysPut(t) /\ ServerStays(t) /\ StreamStays(t)
    PROVE  ThreadsOwn'
  <1>1. CASE Threads = {}
    BY <1>1 DEF ThreadsOwn
  <1>2. ASSUME NEW t \in Threads PROVE ThreadsOwn'
    <2>1. /\ ThreadOwns(t)' /\ app'[t].pc = app[t].pc /\ app'[t].fd = app[t].fd
          /\ app[t].pc # "idle" => Of(t)'.id = Of(t).id
      BY ThreadKept DEF ThreadsOwn
    <2>2. (Owns(t)' <=> Owns(t)) /\ (InListen(t)' <=> InListen(t))
      BY <2>1 DEF InConnect, InListen, InAccept, InServer, InClose, Owns
    <2>3. InListen(t) => app[t].pc # "idle"
      BY DEF InListen
    <2>4. \A u \in Threads \ {t} : Apart(t, u)
      BY DEF ThreadsOwn
    <2> QED BY <2>1, <2>2, <2>3, <2>4, OthersKept DEF Apart
  <1> QED BY <1>1, <1>2

\* A step in which the MAC thread only moves endpoints gently, and lets go of none but
\* those that wait to be accepted or closed.
LEMMA GentleStep ==
    ASSUME IndInv, EndpointsTyped', Fds' = Fds,
           \A fd \in Fds : Gentle(endpoints[fd], endpoints'[fd]),
           \A t \in Threads : app'[t].pc = app[t].pc /\ app'[t].fd = app[t].fd,
           UNCHANGED <<servers, handles>>, mac'.op # "addPending",
           \A fd \in fdt : fd \notin fdt' => endpoints[fd].status \in {"ACCEPT_WAIT", "CLOSE_WAIT"}
    PROVE  StatusByKind' /\ PendingOnce' /\ HandlesLive' /\ ThreadsOwn'
  <1> USE DEF IndInv, Typed, Consistent
  <1>1. \A fd \in Fds : /\ endpoints'[fd].id = endpoints[fd].id
                        /\ endpoints'[fd].pendingAccept = endpoints[fd].pendingAccept
                        /\ Pending(fd)' = Pending(fd)
                        /\ IsStream(fd)' <=> IsStream(fd)
    BY DEF Gentle, Pending, IsStream
  <1>2. StatusByKind'
    <2> SUFFICES ASSUME NEW fd \in Fds
                 PROVE  endpoints'[fd].status \in
                            IF IsStream(fd) THEN ConnectStatuses \cup {"ACCEPT_WAIT", "CLOSE_WAIT"}
                            ELSE ListenStatuses \cup {"CLOSE_WAIT"}
      BY <1>1 DEF StatusByKind
    <2>1. endpoints[fd].status \in
              IF IsStream(fd) THEN ConnectStatuses \cup {"ACCEPT_WAIT", "CLOSE_WAIT"}
              ELSE ListenStatuses \cup {"CLOSE_WAIT"}
      BY DEF StatusByKind
    <2>2. Gentle(endpoints[fd], endpoints'[fd])
      OBVIOUS
    <2> QED BY <2>1, <2>2 DEF Gentle, MovesGently, GentleMoves, ConnectStatuses, OwnStatuses,
                              ListenStatuses
  <1>3. PendingOnce'
    <2>1. ASSUME NEW fd \in Fds, NEW f \in Pending(fd)
          PROVE  /\ ~IsStream(fd)' /\ IsStream(f)'
                 /\ endpoints'[fd].status # "CLOSE_WAIT" => endpoints'[f].status = "ACCEPT_WAIT"
      <3>1. f \in Fds
        BY <2>1 DEF EndpointsTyped
      <3>2. /\ ~IsStream(fd) /\ IsStream(f)
            /\ endpoints[fd].status # "CLOSE_WAIT" => endpoints[f].status = "ACCEPT_WAIT"
        BY <2>1 DEF PendingOnce
      <3>3. Gentle(endpoints[fd], endpoints'[fd]) /\ Gentle(endpoints[f], endpoints'[f])
        BY <3>1
      <3> QED BY <1>1, <3>1, <3>2, <3>3 DEF Gentle, MovesGently, GentleMoves
    <2> QED BY <1>1, <2>1 DEF PendingOnce
  <1>4. HandlesLive'
    <2> SUFFICES ASSUME NEW fd \in handles
                 PROVE  endpoints'[fd].status \in OwnStatuses \cup {"LISTEN"}
      BY DEF HandlesLive
    <2>1. fd \in Fds /\ endpoints[fd].status \in OwnStatuses \cup {"LISTEN"}
      BY DEF HandlesLive, AppTyped
    <2>2. Gentle(endpoints[fd], endpoints'[fd])
      BY <2>1
    <2> QED BY <2>1, <2>2 DEF Gentle, MovesGently, GentleMoves, OwnStatuses
  <1>5. ASSUME NEW t \in Threads
        PROVE  StaysPut(t) /\ ServerStays(t) /\ StreamStays(t)
    <2>1. ThreadOwns(t)
      BY DEF ThreadsOwn
    <2>2. StaysPut(t)
      BY <1>1, <2>1, OwnersAreBusy DEF StaysPut, Of, Gentle
    <2>3. ServerStays(t)
      <3> SUFFICES ASSUME InListen(t)
                   PROVE  LET s == servers[Of(t).id.dstPort] IN
                          s # 0 /\ (s = app[t].fd \/ endpoints'[s].status = "CLOSE_WAIT")
        BY DEF ServerStays
      <3> DEFINE s == servers[Of(t).id.dstPort]
      <3>1. s # 0 /\ (s = app[t].fd \/ endpoints[s].status = "CLOSE_WAIT")
        BY <2>1 DEF ThreadOwns, ListenOwns
      <3>2. s \in Fds
        <4>1. ~IsStream(app[t].fd) /\ app[t].fd \in Fds
          BY <2>1 DEF ThreadOwns, ListenOwns, InListen
        <4>2. Of(t) \in Endpoint /\ Of(t).id \notin StreamIds
          BY <4>1, EndpointFacts DEF Of, IsStream
        <4>3. Of(t).id.dstPort \in Ports
          BY <4>2, IdFacts DEF Endpoint
        <4> QED BY <3>1, <4>3 DEF MapsTyped
      <3>3. Gentle(endpoints[s], endpoints'[s])
        BY <3>2
      <3> QED BY <3>1, <3>3 DEF Gentle, MovesGently, GentleMoves
    <2>4. StreamStays(t)
      BY <1>1, <2>1 DEF ThreadOwns, AcceptOwns, StreamStays
    <2> QED BY <2>2, <2>3, <2>4
  <1>6. ThreadsOwn'
    BY <1>5, ThreadsKept
  <1> QED BY <1>2, <1>3, <1>4, <1>6

\* A step that adds endpoints, each with nothing waiting at it.
LEMMA GrowStep ==
    ASSUME IndInv, EndpointsTyped', Fds \subseteq Fds', UNCHANGED handles,
           \A fd \in Fds : endpoints'[fd] = endpoints[fd],
           \A fd \in Fds' \ Fds :
               /\ endpoints'[fd].pendingAccept = <<>>
               /\ endpoints'[fd].status \in
                      IF endpoints'[fd].id \in StreamIds
                      THEN ConnectStatuses \cup {"ACCEPT_WAIT", "CLOSE_WAIT"}
                      ELSE ListenStatuses \cup {"CLOSE_WAIT"}
    PROVE  /\ StatusByKind' /\ PendingOnce' /\ HandlesLive'
           /\ \A fd \in Fds : Pending(fd)' = Pending(fd)
           /\ \A fd \in Fds' \ Fds : Pending(fd)' = {}
  <1> USE DEF IndInv, Typed, Consistent
  <1>1. \A fd \in Fds : (Pending(fd)' = Pending(fd)) /\ (IsStream(fd)' <=> IsStream(fd))
    BY DEF Pending, IsStream
  <1>2. \A fd \in Fds' \ Fds : Pending(fd)' = {}
    <2> SUFFICES ASSUME NEW fd \in Fds' \ Fds PROVE Pending(fd)' = {}
      OBVIOUS
    <2>1. endpoints'[fd].pendingAccept = <<>>
      OBVIOUS
    <2> QED BY <2>1 DEF Pending
  <1>3. StatusByKind'
    <2>1. ASSUME NEW fd \in Fds'
          PROVE  endpoints'[fd].status \in
                     IF endpoints'[fd].id \in StreamIds
                     THEN ConnectStatuses \cup {"ACCEPT_WAIT", "CLOSE_WAIT"}
                     ELSE ListenStatuses \cup {"CLOSE_WAIT"}
      <3>1. CASE fd \in Fds
        BY <3>1 DEF StatusByKind, IsStream
      <3>2. CASE fd \notin Fds
        BY <3>2
      <3> QED BY <3>1, <3>2
    <2> QED BY <2>1 DEF StatusByKind, IsStream
  <1>4. PendingOnce'
    <2>1. ASSUME NEW fd \in Fds', NEW f \in Pending(fd)'
          PROVE  /\ ~IsStream(fd)' /\ IsStream(f)'
                 /\ endpoints'[fd].status # "CLOSE_WAIT" => endpoints'[f].status = "ACCEPT_WAIT"
      <3>1. fd \in Fds /\ f \in Pending(fd)
        BY <1>1, <1>2, <2>1
      <3>2. f \in Fds
        BY <3>1 DEF EndpointsTyped
      <3> QED BY <1>1, <3>1, <3>2 DEF PendingOnce
    <2>2. ASSUME NEW fd \in Fds', NEW i \in DOMAIN endpoints'[fd].pendingAccept,
                 NEW j \in DOMAIN endpoints'[fd].pendingAccept,
                 endpoints'[fd].pendingAccept[i] = endpoints'[fd].pendingAccept[j]
          PROVE  i = j
      <3>1. CASE fd \in Fds
        BY <2>2, <3>1 DEF PendingOnce
      <3>2. CASE fd \notin Fds
        BY <2>2, <3>2
      <3> QED BY <3>1, <3>2
    <2>3. ASSUME NEW fd \in Fds', NEW gd \in Fds', fd # gd
          PROVE  Pending(fd)' \cap Pending(gd)' = {}
      <3>1. CASE fd \in Fds /\ gd \in Fds
        BY <1>1, <2>3, <3>1 DEF PendingOnce
      <3>2. CASE ~(fd \in Fds /\ gd \in Fds)
        BY <1>2, <3>2
      <3> QED BY <3>1, <3>2
    <2> QED BY <2>1, <2>2, <2>3 DEF PendingOnce
  <1>5. HandlesLive'
    BY DEF HandlesLive, AppTyped
  <1> QED BY <1>1, <1>2, <1>3, <1>4, <1>5

LEMMA GentleIsReflexive ==
    ASSUME NEW e \in Endpoint
    PROVE  Gentle(e, e)
  BY DEF Gentle, MovesGently

\* The map of servers has an endpoint for the port of every listen().
LEMMA ListenedServer ==
    ASSUME IndInv, NEW t \in Threads, InListen(t)
    PROVE  /\ app[t].fd \in Fds /\ Of(t).id.dstPort \in Ports
           /\ servers[Of(t).id.dstPort] \in Fds
  <1> USE DEF IndInv, Typed, Consistent
  <1>1. ~IsStream(app[t].fd) /\ app[t].fd \in Fds /\ servers[Of(t).id.dstPort] # 0
    BY DEF ThreadsOwn, ThreadOwns, ListenOwns, InListen
  <1>2. Of(t) \in Endpoint /\ Of(t).id \notin StreamIds
    BY <1>1, EndpointFacts DEF Of, IsStream
  <1>3. Of(t).id.dstPort \in Ports
    BY <1>2, IdFacts DEF Endpoint
  <1> QED BY <1>1, <1>3 DEF MapsTyped

\* A step that leaves the endpoints, the maps, the threads and the handles alone.
LEMMA QuietStep ==
    ASSUME IndInv, UNCHANGED <<maps, app, handles>>,
           UNCHANGED mac \/ mac'.op # "addPending"
    PROVE  /\ EndpointsTyped' /\ MapsTyped' /\ AppTyped' /\ MapsAgree' /\ StatusByKind'
           /\ PendingOnce' /\ ThreadsOwn' /\ HandlesLive' /\ PortsReleased'
           /\ Fds' = Fds /\ Mapped' = Mapped
  <1> USE DEF IndInv, Typed, Consistent, maps
  <1>1. Fds' = Fds /\ Mapped' = Mapped /\ \A fd \in Fds : Pending(fd)' = Pending(fd)
    BY DEF Fds, Mapped, Pending
  <1>2. EndpointsTyped' /\ MapsTyped' /\ AppTyped'
    BY <1>1 DEF EndpointsTyped, MapsTyped, AppTyped
  <1>3. MapsAgree' /\ PortsReleased'
    BY <1>1, SameMaps DEF SameKind
  <1>4. StatusByKind' /\ HandlesLive'
    BY <1>1 DEF StatusByKind, HandlesLive, IsStream
  <1>5. PendingOnce'
    BY <1>1 DEF PendingOnce, IsStream
  <1>6. ASSUME NEW t \in Threads
        PROVE  StaysPut(t) /\ ServerStays(t) /\ StreamStays(t)
    <2>1. ThreadOwns(t)
      BY DEF ThreadsOwn
    <2>2. StaysPut(t)
      BY <2>1, OwnersAreBusy, GentleIsReflexive, EndpointFacts DEF StaysPut, Gentle
    <2>3. ServerStays(t)
      BY <2>1 DEF ServerStays, ThreadOwns, ListenOwns
    <2>4. StreamStays(t)
      BY <1>1, <2>1 DEF StreamStays, ThreadOwns, AcceptOwns
    <2> QED BY <2>2, <2>3, <2>4
  <1>7. ThreadsOwn'
    BY <1>1, <1>6, ThreadsKept
  <1> QED BY <1>1, <1>2, <1>3, <1>4, <1>5, <1>7

\* A step of one thread that leaves the endpoints, the maps and the MAC thread alone:
\* the thread keeps what it works on, hands it to the application, or takes what no
\* other thread works on.
LEMMA MoveStep ==
    ASSUME IndInv, NEW t \in Threads,
           UNCHANGED <<maps, mac, streamsToRemove, nextScheduleStreams, scheduled,
                       awaitsActivation, masterTrusted, desyncs>>,
           AppTyped', SmesTyped',
           \A u \in Threads \ {t} : app'[u] = app[u],
           \A fd \in handles' \ handles :
               /\ fd = app[t].fd /\ Owns(t)
               /\ endpoints[fd].status \in OwnStatuses \cup {"LISTEN"},
           ThreadOwns(t)',
           Owns(t)' => \/ /\ Owns(t) /\ app'[t].fd = app[t].fd
                          /\ InListen(t)' => InListen(t)
                       \/ /\ ~InListen(t)'
                          /\ \A u \in Threads \ {t} : Owns(u) => app[u].fd # app'[t].fd
    PROVE  IndInv'
  <1> USE DEF IndInv, Typed, Consistent, maps
  <1>1. Fds' = Fds /\ Mapped' = Mapped /\ \A fd \in Fds : Pending(fd)' = Pending(fd)
    BY DEF Fds, Mapped, Pending
  <1>2. EndpointsTyped' /\ MapsTyped' /\ MacTyped' /\ ScheduleTyped'
    BY <1>1 DEF EndpointsTyped, MapsTyped, MacTyped, ScheduleTyped
  <1>3. MapsAgree' /\ PortsReleased'
    BY <1>1, SameMaps DEF SameKind
  <1>4. StatusByKind'
    BY <1>1 DEF StatusByKind, IsStream
  <1>5. HandlesLive'
    BY DEF HandlesLive
  <1>6. PendingOnce'
    BY <1>1 DEF PendingOnce, IsStream
  <1>7. MacStep'
    BY <1>1 DEF MacStep, IsStream
  <1>8. ScheduleAhead'
    BY <1>1 DEF ScheduleAhead, Status
  <1>9. ASSUME NEW u \in Threads \ {t}
        PROVE  StaysPut(u) /\ ServerStays(u) /\ StreamStays(u)
    <2>1. ThreadOwns(u) /\ Apart(t, u)
      BY DEF ThreadsOwn
    <2>2. StaysPut(u)
      <3>1. Owns(u) => app[u].fd \notin handles'
        BY <2>1, OwnersAreBusy DEF Apart
      <3> QED BY <2>1, <3>1, OwnersAreBusy, GentleIsReflexive, EndpointFacts DEF StaysPut, Gentle
    <2>3. ServerStays(u)
      BY <2>1 DEF ServerStays, ThreadOwns, ListenOwns
    <2>4. StreamStays(u)
      BY <1>1, <2>1 DEF StreamStays, ThreadOwns, AcceptOwns
    <2> QED BY <2>2, <2>3, <2>4
  <1>10. ASSUME NEW u \in Threads \ {t}
         PROVE  /\ Owns(t)' /\ Owns(u) => app'[t].fd # app[u].fd
                /\ InListen(t)' /\ InListen(u) => Of(t)'.id.dstPort # Of(u).id.dstPort
    <2>1. Apart(t, u)
      BY DEF ThreadsOwn
    <2>2. InListen(t)' => Owns(t)'
      BY DEF Owns
    <2> QED BY <2>1, <2>2 DEF Apart, Of
  <1>11. ThreadsOwn'
    BY <1>1, <1>9, <1>10, OthersKept
  <1> QED BY <1>2, <1>3, <1>4, <1>5, <1>6, <1>7, <1>8, <1>11

-----------------------------------------------------------------------------
(***************************************************************************)
(* The steps of the application threads.                                   *)
(***************************************************************************)
AppRecord == [pc : Pcs, fd : {0} \cup Fds, signalled : BOOLEAN]

\* Where a thread is, field by field.
At(pc, fd, signalled) == [pc |-> pc, fd |-> fd, signalled |-> signalled]

LEMMA AtUpdated ==
    ASSUME NEW pc, NEW fd, NEW signalled, NEW x
    PROVE  /\ [At(pc, fd, signalled) EXCEPT !.pc = x] = At(x, fd, signalled)
           /\ [At(pc, fd, signalled) EXCEPT !.fd = x] = At(pc, x, signalled)
           /\ [At(pc, fd, signalled) EXCEPT !.signalled = x] = At(pc, fd, x)
  BY DEF At

\* A thread enters a call with an endpoint.
LEMMA EnterAs ==
    ASSUME NEW pc \in Pcs, NEW S, NEW fd \in S
    PROVE  /\ [IdleApp EXCEPT !.pc = pc, !.fd = fd] \in [pc : Pcs, fd : S, signalled : BOOLEAN]
           /\ [IdleApp EXCEPT !.pc = pc, !.fd = fd].pc = pc
           /\ [IdleApp EXCEPT !.pc = pc, !.fd = fd].fd = fd
  <1>1. PICK f : f = FALSE
    OBVIOUS
  <1> DEFINE r == [IdleApp EXCEPT !.pc = pc]
  <1>2. IdleApp = At("idle", 0, f)
    BY <1>1 DEF At, IdleApp
  <1>3. r = At(pc, 0, f)
    BY <1>2, AtUpdated
  <1>4. [IdleApp EXCEPT !.pc = pc, !.fd = fd] = [r EXCEPT !.fd = fd]
    OBVIOUS
  <1> HIDE DEF r
  <1>5. [r EXCEPT !.fd = fd] = At(pc, fd, f)
    <2>1. [r EXCEPT !.fd = fd] = [At(pc, 0, f) EXCEPT !.fd = fd]
      BY <1>3
    <2>2. [At(pc, 0, f) EXCEPT !.fd = fd] = At(pc, fd, f)
      BY DEF At
    <2> QED BY <2>1, <2>2
  <1>6. /\ At(pc, fd, f) \in [pc : Pcs, fd : S, signalled : BOOLEAN]
        /\ At(pc, fd, f).pc = pc /\ At(pc, fd, f).fd = fd
    <2>1. f \in BOOLEAN
      BY <1>1
    <2> QED BY <2>1 DEF At
  <1> QED BY <1>4, <1>5, <1>6

LEMMA EnterIs ==
    ASSUME NEW pc \in Pcs, NEW fd \in {0} \cup Fds
    PROVE  /\ [IdleApp EXCEPT !.pc = pc, !.fd = fd] \in AppRecord
           /\ [IdleApp EXCEPT !.pc = pc, !.fd = fd].pc = pc
           /\ [IdleApp EXCEPT !.pc = pc, !.fd = fd].fd = fd
  BY EnterAs DEF AppRecord

\* A thread goes on inside its call, or returns from it.
LEMMA GotoIs ==
    ASSUME AppTyped, NEW t \in Threads, NEW pc \in Pcs, Goto(t, pc)
    PROVE  /\ app' \in [Threads -> AppRecord]
           /\ app'[t].pc = pc /\ app'[t].fd = app[t].fd
           /\ \A u \in Threads \ {t} : app'[u] = app[u]
  <1> DEFINE r == [app[t] EXCEPT !.pc = pc]
             s == [r EXCEPT !.signalled = FALSE]
  <1>1. app[t] \in AppRecord /\ app \in [Threads -> AppRecord]
    BY DEF AppTyped, AppRecord
  <1>2. r \in AppRecord /\ r.pc = pc /\ r.fd = app[t].fd
    BY <1>1 DEF AppRecord
  <1>3. [app[t] EXCEPT !.pc = pc, !.signalled = FALSE] = s
    OBVIOUS
  <1> HIDE DEF r
  <1>4. s \in AppRecord /\ s.pc = pc /\ s.fd = app[t].fd
    BY <1>2 DEF AppRecord
  <1>5. app' = [app EXCEPT ![t] = s]
    BY <1>3 DEF Goto
  <1> HIDE DEF s
  <1> QED BY <1>1, <1>4, <1>5

LEMMA ReturnIs ==
    ASSUME AppTyped, NEW t \in Threads, Return(t)
    PROVE  /\ app' \in [Threads -> AppRecord]
           /\ app'[t].pc = "idle"
           /\ \A u \in Threads \ {t} : app'[u] = app[u]
  BY DEF AppTyped, AppRecord, Return, IdleApp, Pcs

\* A thread outside its calls needs nothing.
LEMMA IdleOwns ==
    ASSUME NEW t \in Threads, app'[t].pc = "idle"
    PROVE  ThreadOwns(t)' /\ ~Owns(t)'
  BY DEF ThreadOwns, Owns, InConnect, InListen, InAccept, InServer, InClose, ConnectOwns,
         ListenOwns, AcceptOwns, CloseOwns

\* What the steps of a thread inside a call leave alone.
Undisturbed ==
    UNCHANGED <<maps, mac, streamsToRemove, nextScheduleStreams, scheduled, awaitsActivation,
                masterTrusted, desyncs>>

LEMMA GotoStep ==
    ASSUME IndInv, NEW t \in Threads, NEW pc \in Pcs, Goto(t, pc), Undisturbed, SmesTyped',
           UNCHANGED handles,
           \/ InConnect(t) /\ pc \in {"connectWait", "connectFail"}
           \/ InListen(t) /\ pc \in {"listenWait", "listenFail"}
           \/ InServer(t) /\ pc = "acceptWait"
           \/ InAccept(t) /\ pc = "acceptDone"
    PROVE  IndInv'
  <1> USE DEF Undisturbed, maps
  <1>1. AppTyped /\ ThreadOwns(t)
    BY DEF IndInv, Typed, Consistent, ThreadsOwn
  <1>2. /\ app' \in [Threads -> AppRecord]
        /\ app'[t].pc = pc /\ app'[t].fd = app[t].fd
        /\ \A u \in Threads \ {t} : app'[u] = app[u]
    BY <1>1, GotoIs
  <1>3. Fds' = Fds /\ \A fd \in Fds : Pending(fd)' = Pending(fd)
    BY DEF Fds, Pending
  <1>4. AppTyped'
    BY <1>1, <1>2, <1>3 DEF AppTyped, AppRecord
  <1>5. /\ InConnect(t)' <=> InConnect(t)
        /\ InListen(t)' <=> InListen(t)
        /\ InServer(t)' <=> InServer(t)
        /\ InAccept(t)' <=> InAccept(t)
        /\ ~InClose(t)' /\ app'[t].pc # "closeRemove"
    BY <1>2 DEF InConnect, InListen, InServer, InAccept, InClose
  <1>6. app[t].pc # "idle"
    BY DEF InConnect, InListen, InServer, InAccept
  <1>7. Of(t)' = Of(t) /\ (IsStream(app[t].fd)' <=> IsStream(app[t].fd))
    BY <1>2 DEF Of, IsStream
  <1>8. Owns(t)' => Owns(t)
    BY <1>5 DEF Owns
  <1>9. ConnectOwns(t)' /\ ListenOwns(t)' /\ AcceptOwns(t)' /\ CloseOwns(t)'
    <2>1. ConnectOwns(t)'
      BY <1>1, <1>2, <1>5, <1>7 DEF ThreadOwns, ConnectOwns, IsStream
    <2>2. ListenOwns(t)'
      BY <1>1, <1>2, <1>5, <1>7 DEF ThreadOwns, ListenOwns, IsStream
    <2>3. AcceptOwns(t)'
      BY <1>1, <1>2, <1>3, <1>5, <1>7 DEF ThreadOwns, AcceptOwns, IsStream
    <2>4. CloseOwns(t)'
      BY <1>5 DEF CloseOwns
    <2> QED BY <2>1, <2>2, <2>3, <2>4
  <1>10. ThreadOwns(t)'
    BY <1>1, <1>2, <1>3, <1>6, <1>8, <1>9 DEF ThreadOwns
  <1> QED BY <1>2, <1>4, <1>5, <1>8, <1>10, MoveStep

LEMMA ReturnStep ==
    ASSUME IndInv, NEW t \in Threads, Return(t), Undisturbed, SmesTyped', handles' \subseteq Fds,
           \A fd \in handles' \ handles :
               /\ fd = app[t].fd /\ Owns(t)
               /\ endpoints[fd].status \in OwnStatuses \cup {"LISTEN"}
    PROVE  IndInv'
  <1> USE DEF Undisturbed, maps
  <1>1. /\ app' \in [Threads -> AppRecord]
        /\ app'[t].pc = "idle"
        /\ \A u \in Threads \ {t} : app'[u] = app[u]
    BY ReturnIs DEF IndInv, Typed
  <1>2. AppTyped'
    BY <1>1 DEF AppTyped, AppRecord, Fds
  <1>3. ThreadOwns(t)' /\ ~Owns(t)'
    BY <1>1, IdleOwns
  <1> QED BY <1>1, <1>2, <1>3, MoveStep

\* connect() up to its return.
LEMMA ConnectStep ==
    ASSUME IndInv, NEW t \in Threads, ConnectRequest(t) \/ ConnectWake(t)
    PROVE  IndInv'
  <1> USE DEF ConnectRequest, ConnectWake
  <1>1. InConnect(t) /\ Owns(t)
    BY DEF InConnect, Owns
  <1>2. Undisturbed
    BY DEF Undisturbed, AppOnly, scheduleVars
  <1>3. SmesTyped /\ app[t].fd \in Fds /\ AppTyped
    BY DEF IndInv, Typed, Consistent, ThreadsOwn, ThreadOwns
  <1>4. SmesTyped'
    <2>1. CASE ConnectRequest(t)
      BY <1>3, <2>1, SmesQueued DEF AppOnly, SmeTypes
    <2>2. CASE ConnectWake(t)
      BY <1>3, <2>2 DEF AppOnly, SmesTyped
    <2> QED BY <2>1, <2>2
  <1>5. CASE Of(t).status = "CONNECTING" /\ Goto(t, "connectWait") /\ UNCHANGED handles
    BY <1>1, <1>2, <1>4, <1>5, GotoStep DEF Pcs
  <1>6. CASE Of(t).status = "ESTABLISHED" /\ ReturnHandle(t)
    <2>1. Return(t) /\ handles' = handles \cup {app[t].fd}
      BY <1>6 DEF ReturnHandle
    <2>2. handles' \subseteq Fds
      BY <1>3, <2>1 DEF AppTyped
    <2>3. endpoints[app[t].fd].status \in OwnStatuses \cup {"LISTEN"}
      BY <1>6 DEF Of, OwnStatuses
    <2> QED BY <1>1, <1>2, <1>4, <2>1, <2>2, <2>3, ReturnStep
  <1>7. CASE Goto(t, "connectFail") /\ UNCHANGED handles
    BY <1>1, <1>2, <1>4, <1>7, GotoStep DEF Pcs
  <1> QED BY <1>5, <1>6, <1>7 DEF EndOfConnect

\* listen() up to its return.
LEMMA ListenStep ==
    ASSUME IndInv, NEW t \in Threads, ListenRequest(t) \/ ListenWake(t)
    PROVE  IndInv'
  <1> USE DEF ListenRequest, ListenWake
  <1>1. InListen(t) /\ Owns(t)
    BY DEF InListen, Owns
  <1>2. Undisturbed
    BY DEF Undisturbed, AppOnly, scheduleVars
  <1>3. SmesTyped /\ app[t].fd \in Fds /\ AppTyped
    BY DEF IndInv, Typed, Consistent, ThreadsOwn, ThreadOwns
  <1>4. SmesTyped'
    <2>1. CASE ListenRequest(t)
      BY <1>3, <2>1, SmesQueued DEF AppOnly, SmeTypes
    <2>2. CASE ListenWake(t)
      BY <1>3, <2>2 DEF AppOnly, SmesTyped
    <2> QED BY <2>1, <2>2
  <1>5. CASE Of(t).status = "LISTEN_WAIT" /\ Goto(t, "listenWait") /\ UNCHANGED handles
    BY <1>1, <1>2, <1>4, <1>5, GotoStep DEF Pcs
  <1>6. CASE Of(t).status = "LISTEN" /\ ReturnHandle(t)
    <2>1. Return(t) /\ handles' = handles \cup {app[t].fd}
      BY <1>6 DEF ReturnHandle
    <2>2. handles' \subseteq Fds
      BY <1>3, <2>1 DEF AppTyped
    <2>3. endpoints[app[t].fd].status \in OwnStatuses \cup {"LISTEN"}
      BY <1>6 DEF Of
    <2> QED BY <1>1, <1>2, <1>4, <2>1, <2>2, <2>3, ReturnStep
  <1>7. CASE Goto(t, "listenFail") /\ UNCHANGED handles
    BY <1>1, <1>2, <1>4, <1>7, GotoStep DEF Pcs
  <1> QED BY <1>5, <1>6, <1>7 DEF EndOfListen

\* accept() takes a server whose handle the application has ...
LEMMA AcceptStep ==
    ASSUME IndInv, NEW t \in Threads, Accept(t)
    PROVE  IndInv'
  <1> USE DEF Accept
  <1>1. Undisturbed /\ SmesTyped'
    BY DEF Undisturbed, AppOnly, scheduleVars, IndInv, Typed, SmesTyped
  <1>2. PICK fd \in handles \cap fdt :
            /\ IsServer(endpoints[fd].id)
            /\ app' = [app EXCEPT ![t] = [IdleApp EXCEPT !.pc = "accept", !.fd = fd]]
    OBVIOUS
  <1> DEFINE r == [IdleApp EXCEPT !.pc = "accept", !.fd = fd]
  <1>5. fd \in Fds /\ app \in [Threads -> AppRecord] /\ handles' \subseteq Fds
    BY DEF IndInv, Typed, AppTyped, MapsTyped, AppRecord
  <1>6. r \in AppRecord /\ r.pc = "accept" /\ r.fd = fd
    BY <1>5, EnterIs DEF Pcs
  <1>4. app' = [app EXCEPT ![t] = r]
    BY <1>2
  <1> HIDE DEF r
  <1>7. /\ app' \in [Threads -> AppRecord] /\ app'[t].pc = "accept" /\ app'[t].fd = fd
        /\ \A u \in Threads \ {t} : app'[u] = app[u]
    BY <1>4, <1>5, <1>6
  <1>8. AppTyped'
    BY <1>1, <1>5, <1>7 DEF AppTyped, AppRecord, Undisturbed, maps, Fds
  <1>9. ~IsStream(fd)
    BY <1>2, IdFacts DEF IsStream
  <1>10. ThreadOwns(t)' /\ ~Owns(t)'
    BY <1>1, <1>5, <1>7, <1>9 DEF ThreadOwns, Owns, InConnect, InListen, InAccept, InServer,
        InClose, ConnectOwns, ListenOwns, AcceptOwns, CloseOwns, Undisturbed, maps, Fds, IsStream
  <1> QED BY <1>1, <1>7, <1>8, <1>10, MoveStep DEF Undisturbed, maps

\* ... and looks the stream up by its file descriptor.
LEMMA AcceptFindStep ==
    ASSUME IndInv, NEW t \in Threads, AcceptFind(t)
    PROVE  IndInv'
  <1>1. Undisturbed /\ SmesTyped' /\ handles' = handles
    BY DEF AcceptFind, Undisturbed, AppOnly, scheduleVars, IndInv, Typed, SmesTyped
  <1>2. InAccept(t) /\ "acceptDone" \in Pcs
    BY DEF AcceptFind, InAccept, Pcs
  <1>3. CASE Goto(t, "acceptDone")
    BY <1>1, <1>2, <1>3, GotoStep
  <1>4. CASE Return(t)
    BY <1>1, <1>4, ReturnStep DEF IndInv, Typed, AppTyped
  <1> QED BY <1>3, <1>4 DEF AcceptFind

\* close() takes the handle from the application.
LEMMA CloseStep ==
    ASSUME IndInv, NEW t \in Threads, Close(t)
    PROVE  IndInv'
  <1> USE DEF Close
  <1>1. Undisturbed /\ SmesTyped'
    BY DEF Undisturbed, AppOnly, scheduleVars, IndInv, Typed, SmesTyped
  <1>2. PICK fd \in handles :
            /\ handles' = handles \ {fd}
            /\ app[t].pc = "idle"
            /\ app' = IF fd \in fdt
                      THEN [app EXCEPT ![t] = [IdleApp EXCEPT !.pc = "close", !.fd = fd]]
                      ELSE app
    OBVIOUS
  <1>3. fd \in Fds /\ app \in [Threads -> AppRecord] /\ handles' \subseteq Fds
    BY <1>2 DEF IndInv, Typed, AppTyped, AppRecord
  <1>4. endpoints[fd].status \in OwnStatuses \cup {"LISTEN"}
    BY DEF IndInv, Consistent, HandlesLive
  <1>5. \A u \in Threads : Owns(u) => app[u].fd # fd
    BY DEF IndInv, Consistent, ThreadsOwn, ThreadOwns
  <1>6. CASE fd \in fdt
    <2> DEFINE r == [IdleApp EXCEPT !.pc = "close", !.fd = fd]
    <2>2. app' = [app EXCEPT ![t] = r]
      BY <1>2, <1>6
    <2>3. r \in AppRecord /\ r.pc = "close" /\ r.fd = fd
      BY <1>3, EnterIs DEF Pcs
    <2> HIDE DEF r
    <2>4. /\ app' \in [Threads -> AppRecord] /\ app'[t].pc = "close" /\ app'[t].fd = fd
          /\ \A u \in Threads \ {t} : app'[u] = app[u]
      BY <1>3, <2>2, <2>3
    <2>5. AppTyped'
      BY <1>1, <1>3, <2>4 DEF AppTyped, AppRecord, Undisturbed, maps, Fds
    <2>6. CloseOwns(t)'
      BY <1>1, <1>4, <1>6, <2>4 DEF CloseOwns, Of, InClose, Undisturbed, maps
    <2>7. ThreadOwns(t)'
      BY <1>1, <1>2, <1>3, <2>4, <2>6 DEF ThreadOwns, Owns, InConnect, InListen, InAccept,
          InServer, InClose, ConnectOwns, ListenOwns, AcceptOwns, Undisturbed, maps, Fds
    <2>8. ~InListen(t)' /\ \A u \in Threads \ {t} : Owns(u) => app[u].fd # app'[t].fd
      BY <1>5, <2>4 DEF InListen
    <2> QED BY <1>1, <1>2, <2>4, <2>5, <2>7, <2>8, MoveStep DEF Undisturbed
  <1>7. CASE fd \notin fdt
    <2>1. app' = app
      BY <1>2, <1>7
    <2>2. AppTyped'
      BY <1>1, <1>3, <2>1 DEF AppTyped, AppRecord, Undisturbed, maps, Fds
    <2>3. ThreadOwns(t)' /\ ~Owns(t)'
      BY <1>2, <2>1, IdleOwns
    <2> QED BY <1>1, <1>2, <2>1, <2>2, <2>3, MoveStep DEF Undisturbed
  <1> QED BY <1>6, <1>7

\* A thread returns after it has taken its endpoint, or a closed one, out of the maps.
LEMMA LeaveStep ==
    ASSUME IndInv, NEW t \in Threads, Owns(t), Return(t), ManagerFree,
           UNCHANGED <<endpoints, handles, smeQueue>>, AppOnly,
           MapsTyped', MapsAgree', PortsReleased', Mapped' \subseteq Mapped,
           \A id \in Mapped' : streams'[id] = streams[id],
           \A fd \in fdt : fd \notin fdt' =>
               fd = app[t].fd \/ endpoints[fd].status = "CLOSE_WAIT",
           \A u \in Threads \ {t} : ServerStays(u)
    PROVE  IndInv'
  <1> USE DEF IndInv, Typed, Consistent, AppOnly, scheduleVars
  <1>1. Fds' = Fds /\ \A fd \in Fds : Pending(fd)' = Pending(fd)
    BY DEF Fds, Pending
  <1>2. /\ app' \in [Threads -> AppRecord]
        /\ app'[t].pc = "idle"
        /\ \A u \in Threads \ {t} : app'[u] = app[u]
    BY ReturnIs
  <1>3. AppTyped'
    BY <1>1, <1>2 DEF AppTyped, AppRecord
  <1>4. EndpointsTyped' /\ ScheduleTyped' /\ SmesTyped' /\ MacTyped'
    BY <1>1 DEF EndpointsTyped, ScheduleTyped, SmesTyped, MacTyped
  <1>5. StatusByKind' /\ HandlesLive'
    BY <1>1 DEF StatusByKind, HandlesLive, IsStream
  <1>6. PendingOnce'
    BY <1>1 DEF PendingOnce, IsStream
  <1>7. MacStep'
    BY <1>1 DEF MacStep, ManagerFree, IsStream
  <1>8. ScheduleAhead'
    BY ScheduleKept DEF Status
  <1>9. ASSUME NEW u \in Threads \ {t}
        PROVE  StaysPut(u) /\ ServerStays(u) /\ StreamStays(u)
    <2>1. ThreadOwns(u) /\ Apart(t, u)
      BY DEF ThreadsOwn
    <2>2. StaysPut(u)
      BY <1>2, <2>1, OwnersAreBusy, GentleIsReflexive, EndpointFacts DEF StaysPut, Apart, Of, Gentle
    <2>3. StreamStays(u)
      BY <1>1, <2>1 DEF StreamStays, ThreadOwns, AcceptOwns
    <2> QED BY <2>2, <2>3
  <1>10. ThreadOwns(t)' /\ ~Owns(t)' /\ (InListen(t)' => Owns(t)')
    BY <1>2, IdleOwns DEF Owns
  <1>11. ThreadsOwn'
    BY <1>1, <1>9, <1>10, OthersKept
  <1> QED BY <1>3, <1>4, <1>5, <1>6, <1>7, <1>8, <1>11

\* connect() and close() take the stream they were called for out of the map.
LEMMA OwnStreamRemoved ==
    ASSUME IndInv, NEW t \in Threads, Owns(t), IsStream(app[t].fd), app[t].fd \in fdt,
           Return(t), ManagerFree, RemoveStreams({Of(t).id}),
           UNCHANGED <<endpoints, servers, handles, smeQueue>>, AppOnly
    PROVE  IndInv'
  <1> USE DEF IndInv, Typed, Consistent
  <1>1. {Of(t).id} \in SUBSET StreamIds
    BY DEF IsStream, Of
  <1>2. SameKind
    BY DEF SameKind, Fds
  <1>3. /\ MapsTyped' /\ MapsAgree' /\ PortsReleased'
        /\ Mapped' = Mapped \ {Of(t).id}
        /\ \A id \in Mapped' : streams'[id] = streams[id]
        /\ \A fd \in fdt : fd \notin fdt' => IsStream(fd) /\ endpoints[fd].id \in {Of(t).id}
    BY <1>1, <1>2, StreamsRemoved
  <1>4. streams[Of(t).id] = app[t].fd
    BY DEF MapsAgree, StreamsAgree, Of
  <1>5. \A fd \in fdt : fd \notin fdt' => fd = app[t].fd
    BY <1>3, <1>4 DEF MapsAgree, StreamsAgree
  <1>6. \A u \in Threads \ {t} : ServerStays(u)
    BY DEF ServerStays, ThreadsOwn, ThreadOwns, ListenOwns
  <1> QED BY <1>3, <1>5, <1>6, LeaveStep

\* A connect() that fails, and a close() of what the master has already closed, which is
\* always a stream: it is the thread's own, and not closed locally.
LEMMA LeavesOwn ==
    ASSUME IndInv, NEW t \in Threads, ConnectFail(t) \/ CloseRemove(t)
    PROVE  /\ Owns(t) /\ IsStream(app[t].fd) /\ app[t].fd \in fdt /\ app[t].fd \notin handles
           /\ streams[Of(t).id] = app[t].fd /\ Of(t).status # "CLOSE_WAIT"
           /\ Return(t) /\ ManagerFree /\ RemoveStreams({Of(t).id})
           /\ UNCHANGED <<endpoints, servers, handles, smeQueue>> /\ AppOnly
  <1> USE DEF IndInv, Typed, Consistent
  <1>1. ThreadOwns(t)
    BY DEF ThreadsOwn
  <1>2. CASE ConnectFail(t)
    <2>1. InConnect(t) /\ Owns(t)
      BY <1>2 DEF ConnectFail, InConnect, Owns
    <2>2. /\ IsStream(app[t].fd) /\ app[t].fd \in fdt /\ Of(t).status # "CLOSE_WAIT"
          /\ app[t].fd \notin handles
      BY <1>1, <2>1 DEF ThreadOwns, ConnectOwns, ConnectStatuses, OwnStatuses
    <2>3. streams[Of(t).id] = app[t].fd
      BY <2>2 DEF MapsAgree, StreamsAgree, Of
    <2> QED BY <1>2, <2>1, <2>2, <2>3 DEF ConnectFail
  <1>3. CASE CloseRemove(t)
    <2>1. InClose(t) /\ Owns(t)
      BY <1>3 DEF CloseRemove, InClose, Owns
    <2>2. /\ app[t].fd \in Fds /\ Of(t).status \in {"REMOTELY_CLOSED", "REOPENED"}
          /\ app[t].fd \notin handles
      BY <1>1, <1>3, <2>1, OwnersAreBusy DEF ThreadOwns, CloseOwns, CloseRemove
    <2>3. IsStream(app[t].fd)
      BY <2>2 DEF StatusByKind, Of, ListenStatuses
    <2>4. app[t].fd \in fdt /\ ~IsServer(Of(t).id)
      BY <1>1, <2>1, <2>3, IdFacts DEF ThreadOwns, CloseOwns, IsStream, Of
    <2>5. streams[Of(t).id] = app[t].fd
      BY <2>3, <2>4 DEF MapsAgree, StreamsAgree, Of
    <2>6. /\ Return(t) /\ ManagerFree /\ RemoveStreams({Of(t).id})
          /\ UNCHANGED <<endpoints, servers, handles, smeQueue>> /\ AppOnly
      BY <1>3, <2>4 DEF CloseRemove
    <2> QED BY <2>1, <2>2, <2>3, <2>4, <2>5, <2>6
  <1> QED BY <1>2, <1>3

LEMMA LeaveOwnStep ==
    ASSUME IndInv, NEW t \in Threads, ConnectFail(t) \/ CloseRemove(t)
    PROVE  IndInv'
  BY LeavesOwn, OwnStreamRemoved

\* listen() takes its server out of the map, or the closed one that has replaced it.
LEMMA ListenFailStep ==
    ASSUME IndInv, NEW t \in Threads, ListenFail(t)
    PROVE  IndInv'
  <1> USE DEF IndInv, Typed, Consistent
  <1> DEFINE p == Of(t).id.dstPort
  <1>1. InListen(t) /\ Owns(t) /\ ListenOwns(t)
    BY DEF ListenFail, InListen, Owns, ThreadsOwn, ThreadOwns
  <1>2. p \in Ports /\ (servers[p] = app[t].fd \/ endpoints[servers[p]].status = "CLOSE_WAIT")
    BY <1>1, ListenedServer DEF ListenOwns
  <1>3. /\ Return(t) /\ ManagerFree /\ RemoveServer(p) /\ AppOnly
        /\ UNCHANGED <<endpoints, streams, clientPorts, smeQueue, handles>>
    BY DEF ListenFail
  <1> HIDE DEF p
  <1>4. /\ MapsTyped' /\ MapsAgree' /\ PortsReleased' /\ Mapped' = Mapped
        /\ fdt' = fdt \ {servers[p]}
        /\ \A q \in Ports : q # p => servers'[q] = servers[q]
    BY <1>2, <1>3, ServerRemoved
  <1>5. ASSUME NEW u \in Threads \ {t}
        PROVE  ServerStays(u)
    <2> SUFFICES ASSUME InListen(u) PROVE ServerStays(u)
      BY DEF ServerStays
    <2>1. Of(u).id.dstPort \in Ports /\ Of(u).id.dstPort # p
      BY <1>1, ListenedServer DEF ThreadsOwn, Apart, p
    <2>2. servers'[Of(u).id.dstPort] = servers[Of(u).id.dstPort]
      BY <1>4, <2>1
    <2>3. ListenOwns(u) /\ UNCHANGED endpoints
      BY <1>3 DEF ThreadsOwn, ThreadOwns
    <2> QED BY <2>2, <2>3 DEF ServerStays, ListenOwns
  <1> QED BY <1>1, <1>2, <1>3, <1>4, <1>5, LeaveStep

\* A new endpoint has its constructor's fields.
LEMMA NewIs ==
    ASSUME NEW id \in StreamIds \cup ServerIds, NEW s \in Statuses
    PROVE  /\ NewEndpoint(id, s) \in Endpoint
           /\ NewEndpoint(id, s).id = id
           /\ NewEndpoint(id, s).status = s
           /\ NewEndpoint(id, s).pendingAccept = <<>>
  <1>1. SmeTimeoutMax \in 0 .. SmeTimeoutMax /\ FailTimeoutMax \in 1 .. FailTimeoutMax
    OBVIOUS
  <1>2. <<>> \in Seq(Nat)
    OBVIOUS
  <1> QED BY <1>1, <1>2 DEF NewEndpoint, Endpoint

\* A thread enters a call with a new endpoint, or leaves one behind.
LEMMA EnterStep ==
    ASSUME IndInv, NEW t \in Threads, ManagerFree,
           NEW e \in Endpoint, e.pendingAccept = <<>>, endpoints' = Append(endpoints, e),
           e.status \in IF e.id \in StreamIds THEN {"CONNECTING"} ELSE {"LISTEN_WAIT"},
           UNCHANGED <<handles, smeQueue>>, AppOnly,
           MapsTyped', MapsAgree', PortsReleased', fdt \subseteq fdt',
           \A id \in Mapped : streams'[id] = streams[id],
           \A id \in Mapped' : id \in Mapped \/ streams'[id] = Len(endpoints) + 1,
           app' \in [Threads -> [pc : Pcs, fd : {0} \cup Fds', signalled : BOOLEAN]],
           \A u \in Threads \ {t} : app'[u] = app[u] /\ ServerStays(u),
           ThreadOwns(t)', Owns(t)' => app'[t].fd = Len(endpoints) + 1,
           \A u \in Threads \ {t} :
               InListen(t)' /\ InListen(u) => Of(t)'.id.dstPort # Of(u).id.dstPort
    PROVE  IndInv'
  <1> USE DEF IndInv, Typed, Consistent, AppOnly, scheduleVars
  <1> DEFINE n == Len(endpoints) + 1
  <1>1. /\ EndpointsTyped' /\ Fds' = Fds \cup {n}
        /\ \A fd \in Fds : endpoints'[fd] = endpoints[fd]
        /\ endpoints'[n] = e
    BY AppendedEndpoint
  <1>2. n \notin Fds
    BY EndpointFacts
  <1> HIDE DEF n
  <1>3. /\ StatusByKind' /\ PendingOnce' /\ HandlesLive'
        /\ \A fd \in Fds : Pending(fd)' = Pending(fd)
        /\ \A fd \in Fds' \ Fds : Pending(fd)' = {}
    BY <1>1, <1>2, GrowStep DEF ConnectStatuses, ListenStatuses
  <1>4. AppTyped' /\ ScheduleTyped' /\ SmesTyped' /\ MacTyped'
    BY <1>1 DEF AppTyped, ScheduleTyped, SmesTyped, MacTyped
  <1>5. MacStep'
    BY DEF MacStep, ManagerFree
  <1>6. ScheduleAhead'
    <2>1. ASSUME NEW id \in Mapped', Status(id)' \in {"ACCEPT_WAIT", "ESTABLISHED"}
          PROVE  id \in Mapped /\ Status(id) \in {"ACCEPT_WAIT", "ESTABLISHED"}
      <3>1. Status(id)' = endpoints'[streams'[id]].status
        BY DEF Status, Mapped
      <3>2. id \in Mapped
        BY <1>1, <2>1, <3>1 DEF n
      <3>3. streams[id] \in Fds /\ streams[id] # 0 /\ streams'[id] = streams[id]
        BY <3>2 DEF Mapped, MapsTyped
      <3>4. endpoints'[streams'[id]] = endpoints[streams[id]]
        BY <1>1, <3>3, Zenon
      <3>5. Status(id) = endpoints[streams[id]].status
        BY <3>3, Zenon DEF Status
      <3>6. Status(id)' = Status(id)
        BY <3>1, <3>4, <3>5, Zenon
      <3> QED BY <2>1, <3>2, <3>6, Zenon
    <2> QED BY <2>1, ScheduleKept
  <1>7. ASSUME NEW u \in Threads \ {t}
        PROVE  StaysPut(u) /\ ServerStays(u) /\ StreamStays(u)
    <2>1. ThreadOwns(u)
      BY DEF ThreadsOwn
    <2>2. StaysPut(u)
      BY <1>1, <2>1, OwnersAreBusy, GentleIsReflexive, EndpointFacts DEF StaysPut, Gentle
    <2>3. StreamStays(u)
      BY <1>3, <2>1 DEF StreamStays, ThreadOwns, AcceptOwns
    <2> QED BY <2>2, <2>3
  <1>8. \A u \in Threads \ {t} : Owns(t)' /\ Owns(u) => app'[t].fd # app[u].fd
    BY <1>2, OwnersAreBusy DEF ThreadsOwn, n
  <1>9. ThreadsOwn'
    BY <1>1, <1>7, <1>8, OthersKept
  <1> QED BY <1>1, <1>3, <1>4, <1>5, <1>6, <1>9

\* A thread that has just made an endpoint for its call owns it.
LEMMA MakerOwns ==
    ASSUME IndInv, NEW t \in Threads, Fds \subseteq Fds',
           NEW n \in Fds' \ Fds, app'[t].fd = n, n \in fdt', UNCHANGED handles,
           \/ /\ app'[t].pc = "connect"
              /\ endpoints'[n].id \in StreamIds /\ endpoints'[n].status = "CONNECTING"
           \/ /\ app'[t].pc = "listen"
              /\ endpoints'[n].id \in ServerIds /\ endpoints'[n].status = "LISTEN_WAIT"
              /\ servers'[endpoints'[n].id.dstPort] = n /\ n # 0
    PROVE  ThreadOwns(t)'
  <1>1. n \notin handles
    BY DEF IndInv, Typed, AppTyped
  <1>2. ConnectOwns(t)'
    BY DEF ConnectOwns, InConnect, IsStream, Of, ConnectStatuses
  <1>3. ListenOwns(t)'
    BY IdFacts DEF ListenOwns, InListen, IsStream, Of, ListenStatuses
  <1>4. AcceptOwns(t)' /\ CloseOwns(t)'
    BY DEF AcceptOwns, CloseOwns, InAccept, InServer, InClose
  <1> QED BY <1>1, <1>2, <1>3, <1>4 DEF ThreadOwns

\* connect() makes its stream ...
LEMMA ConnectEnterStep ==
    ASSUME IndInv, NEW t \in Threads, Connect(t)
    PROVE  IndInv'
  <1> USE DEF IndInv, Typed, Consistent
  <1> DEFINE n == Len(endpoints) + 1
  <1>1. PICK dstPort \in Ports, advance \in WakeupAdvances, srcPort \in FreePorts :
            LET id == StreamId(Me, Peer, srcPort, dstPort) IN
            /\ streams[id] = 0
            /\ AddStream(id, "CONNECTING")
            /\ clientPorts' = [clientPorts EXCEPT ![srcPort] = TRUE]
            /\ app' = [app EXCEPT ![t] =
                     IF advance = "tooLong" THEN IdleApp
                     ELSE [IdleApp EXCEPT !.pc = "connect", !.fd = n]]
    BY DEF Connect
  <1> DEFINE id == StreamId(Me, Peer, srcPort, dstPort)
             e == NewEndpoint(id, "CONNECTING")
  <1>2. ManagerFree /\ AppOnly /\ UNCHANGED <<servers, smeQueue, handles>>
    BY DEF Connect
  <1>3. srcPort \in Ports /\ id \in StreamIds /\ id \in Outgoing /\ id.srcPort = srcPort
    BY IdFacts DEF FreePorts
  <1>4. e \in Endpoint /\ e.id = id /\ e.status = "CONNECTING" /\ e.pendingAccept = <<>>
    BY <1>3, NewIs DEF Statuses
  <1>5. /\ streams[id] = 0 /\ endpoints' = Append(endpoints, e)
        /\ streams' = [streams EXCEPT ![id] = n] /\ fdt' = fdt \cup {n}
    BY <1>1 DEF AddStream
  <1>6. app' = [app EXCEPT ![t] =
                     IF advance = "tooLong" THEN IdleApp
                     ELSE [IdleApp EXCEPT !.pc = "connect", !.fd = n]]
        /\ clientPorts' = [clientPorts EXCEPT ![srcPort] = TRUE]
    BY <1>1
  <1> HIDE DEF id, e
  <1>7. /\ EndpointsTyped' /\ Fds' = Fds \cup {n}
        /\ \A fd \in Fds : endpoints'[fd] = endpoints[fd]
        /\ endpoints'[n] = e
    BY <1>4, <1>5, AppendedEndpoint
  <1>8. n \notin Fds /\ n # 0
    BY EndpointFacts
  <1> HIDE DEF n
  <1>9. SameKind
    BY <1>7 DEF SameKind
  <1>10. /\ StreamsAgree' /\ Mapped' = Mapped \cup {id}
         /\ \A i \in Mapped : streams'[i] = streams[i] /\ i # id
         /\ streams' \in [StreamIds -> {0} \cup Fds']
         /\ streams'[id] = n
    <2>1. n \in Fds' \ Fds /\ n # 0 /\ n \in fdt' /\ fdt \subseteq fdt' /\ StreamsAgree
      BY <1>5, <1>7, <1>8 DEF MapsAgree
    <2>2. \A fd \in fdt' : fd \in fdt \/ fd = n \/ endpoints'[fd].id \notin StreamIds
      BY <1>5
    <2>3. endpoints'[n].id = id /\ streams[id] = 0 /\ streams' = [streams EXCEPT ![id] = n]
      BY <1>4, <1>5, <1>7
    <2>4. EndpointsTyped /\ MapsTyped /\ id \in StreamIds
      BY <1>3
    <2>5. /\ streams' \in [StreamIds -> {0} \cup Fds'] /\ streams'[id] = n
          /\ \A i \in StreamIds : i # id => streams'[i] = streams[i]
      BY <1>7, <2>3, <2>4 DEF MapsTyped
    <2> HIDE DEF IndInv, Typed, Consistent
    <2> QED BY <1>9, <2>1, <2>2, <2>3, <2>4, <2>5, StreamAdded
  <1>11. ServersAgree'
    BY <1>2, <1>5, <1>9, ServersKept DEF MapsAgree
  <1>12. MapsTyped'
    BY <1>2, <1>3, <1>5, <1>6, <1>7, <1>10 DEF MapsTyped
  <1>13. PortsReleased'
    <2>1. id \in Outgoing \cap Mapped'
      BY <1>3, <1>10
    <2> QED BY <1>3, <1>6, <1>10, <2>1 DEF PortsReleased, MapsTyped
  <1>14. \A u \in Threads \ {t} : app'[u] = app[u] /\ ServerStays(u)
    <2>1. \A u \in Threads \ {t} : app'[u] = app[u]
      BY <1>6
    <2>2. ASSUME NEW u \in Threads, InListen(u)
          PROVE  servers[Of(u).id.dstPort] \in Fds /\ ListenOwns(u)
      BY <2>2, ListenedServer DEF ThreadsOwn, ThreadOwns
    <2> QED BY <1>2, <1>7, <2>1, <2>2 DEF ServerStays, ListenOwns
  <1>15. app \in [Threads -> [pc : Pcs, fd : {0} \cup Fds', signalled : BOOLEAN]]
    <2>1. \A u \in Threads : app[u] \in [pc : Pcs, fd : {0} \cup Fds', signalled : BOOLEAN]
      BY <1>7 DEF AppTyped
    <2> QED BY <2>1 DEF AppTyped
  <1>16. /\ app' \in [Threads -> [pc : Pcs, fd : {0} \cup Fds', signalled : BOOLEAN]]
         /\ app'[t].pc = "idle" \/ (app'[t].pc = "connect" /\ app'[t].fd = n)
    <2>1. CASE advance = "tooLong"
      <3>1. IdleApp \in [pc : Pcs, fd : {0} \cup Fds', signalled : BOOLEAN]
            /\ IdleApp.pc = "idle"
        BY DEF IdleApp, Pcs
      <3>2. app' = [app EXCEPT ![t] = IdleApp]
        BY <1>6, <2>1
      <3> HIDE DEF IndInv, Typed, Consistent
      <3> QED BY <1>15, <3>1, <3>2
    <2>2. CASE advance # "tooLong"
      <3> DEFINE r == [IdleApp EXCEPT !.pc = "connect", !.fd = n]
      <3>1. app' = [app EXCEPT ![t] = r]
        BY <1>6, <2>2
      <3>2. r \in [pc : Pcs, fd : {0} \cup Fds', signalled : BOOLEAN]
            /\ r.pc = "connect" /\ r.fd = n
        <4>1. "connect" \in Pcs /\ n \in {0} \cup Fds'
          BY <1>7 DEF Pcs
        <4> QED BY <4>1, EnterAs
      <3> HIDE DEF r
      <3> QED BY <1>15, <3>1, <3>2
    <2> QED BY <2>1, <2>2
  <1>17. ThreadOwns(t)' /\ ~InListen(t)' /\ (Owns(t)' => app'[t].fd = n)
    <2>1. CASE app'[t].pc = "idle"
      BY <2>1, IdleOwns DEF InListen, Owns
    <2>2. CASE app'[t].pc = "connect" /\ app'[t].fd = n
      BY <1>2, <1>3, <1>4, <1>5, <1>7, <1>8, <2>2, MakerOwns DEF InListen
    <2> QED BY <1>16, <2>1, <2>2
  <1> QED BY <1>2, <1>4, <1>3, <1>5, <1>10, <1>11, <1>12, <1>13, <1>14, <1>16, <1>17,
             EnterStep DEF MapsAgree, n

\* ... and listen() its server, at a port that has none.
LEMMA ListenEnterStep ==
    ASSUME IndInv, NEW t \in Threads, Listen(t)
    PROVE  IndInv'
  <1> USE DEF IndInv, Typed, Consistent
  <1> DEFINE n == Len(endpoints) + 1
  <1>1. PICK port \in Ports :
            /\ servers[port] = 0
            /\ AddServer(StreamId(Me, Me, 0, port), "LISTEN_WAIT")
            /\ app' = [app EXCEPT ![t] = [IdleApp EXCEPT !.pc = "listen", !.fd = n]]
    BY DEF Listen
  <1> DEFINE id == StreamId(Me, Me, 0, port)
             e == NewEndpoint(id, "LISTEN_WAIT")
  <1>2. ManagerFree /\ AppOnly /\ UNCHANGED <<streams, clientPorts, smeQueue, handles>>
    BY DEF Listen
  <1>3. id \in ServerIds /\ id \notin StreamIds /\ id.dstPort = port
    BY IdFacts
  <1>4. e \in Endpoint /\ e.id = id /\ e.status = "LISTEN_WAIT" /\ e.pendingAccept = <<>>
    BY <1>3, NewIs DEF Statuses
  <1>5. /\ servers[port] = 0 /\ endpoints' = Append(endpoints, e)
        /\ servers' = [servers EXCEPT ![port] = n] /\ fdt' = fdt \cup {n}
    BY <1>1, <1>3 DEF AddServer
  <1>6. app' = [app EXCEPT ![t] = [IdleApp EXCEPT !.pc = "listen", !.fd = n]]
    BY <1>1
  <1> HIDE DEF id, e
  <1>7. /\ EndpointsTyped' /\ Fds' = Fds \cup {n}
        /\ \A fd \in Fds : endpoints'[fd] = endpoints[fd]
        /\ endpoints'[n] = e
    BY <1>4, <1>5, AppendedEndpoint
  <1>8. n \notin Fds /\ n # 0
    BY EndpointFacts
  <1> HIDE DEF n
  <1>9. SameKind
    BY <1>7 DEF SameKind
  <1>10. StreamsAgree' /\ Mapped' = Mapped
    BY <1>2, <1>3, <1>4, <1>5, <1>7, <1>9, StreamsKept DEF MapsAgree
  <1>11. /\ ServersAgree' /\ servers' \in [Ports -> {0} \cup Fds'] /\ servers'[port] = n
         /\ \A q \in Ports : q # port => servers'[q] = servers[q]
    BY <1>3, <1>4, <1>5, <1>7, <1>8, <1>9, ServerAdded DEF MapsAgree
  <1>12. MapsTyped'
    BY <1>2, <1>5, <1>7, <1>11 DEF MapsTyped
  <1>13. PortsReleased'
    BY <1>2, <1>10 DEF PortsReleased
  <1>14. \A u \in Threads \ {t} :
            /\ app'[u] = app[u] /\ ServerStays(u)
            /\ InListen(u) => Of(u).id.dstPort # port
    <2>1. \A u \in Threads \ {t} : app'[u] = app[u]
      BY <1>6
    <2>2. ASSUME NEW u \in Threads, InListen(u)
          PROVE  /\ servers[Of(u).id.dstPort] \in Fds /\ ListenOwns(u)
                 /\ Of(u).id.dstPort \in Ports
      BY <2>2, ListenedServer DEF ThreadsOwn, ThreadOwns
    <2>3. ASSUME NEW u \in Threads, InListen(u)
          PROVE  Of(u).id.dstPort # port
      BY <1>5, <2>2, <2>3, EndpointFacts
    <2> QED BY <1>7, <1>11, <2>1, <2>2, <2>3 DEF ServerStays, ListenOwns
  <1>15. app \in [Threads -> [pc : Pcs, fd : {0} \cup Fds', signalled : BOOLEAN]]
    <2>1. \A u \in Threads : app[u] \in [pc : Pcs, fd : {0} \cup Fds', signalled : BOOLEAN]
      BY <1>7 DEF AppTyped
    <2> QED BY <2>1 DEF AppTyped
  <1>16. /\ app' \in [Threads -> [pc : Pcs, fd : {0} \cup Fds', signalled : BOOLEAN]]
         /\ app'[t].pc = "listen" /\ app'[t].fd = n
    <2> DEFINE r == [IdleApp EXCEPT !.pc = "listen", !.fd = n]
    <2>1. app' = [app EXCEPT ![t] = r]
      BY <1>6
    <2>2. r \in [pc : Pcs, fd : {0} \cup Fds', signalled : BOOLEAN]
          /\ r.pc = "listen" /\ r.fd = n
      <3>1. "listen" \in Pcs /\ n \in {0} \cup Fds'
        BY <1>7 DEF Pcs
      <3> QED BY <3>1, EnterAs
    <2> HIDE DEF r
    <2> QED BY <1>15, <2>1, <2>2
  <1>17. ThreadOwns(t)' /\ Of(t)'.id.dstPort = port
    BY <1>2, <1>3, <1>4, <1>5, <1>7, <1>8, <1>11, <1>16, MakerOwns DEF Of
  <1> QED BY <1>2, <1>3, <1>4, <1>5, <1>10, <1>11, <1>12, <1>13, <1>14, <1>16, <1>17,
             EnterStep DEF MapsAgree, n, Mapped

\* A call that changes endpoints under their own mutex and leaves the maps alone.
LEMMA CallStep ==
    ASSUME IndInv, NEW t \in Threads, EndpointsTyped', Fds' = Fds,
           \A fd \in Fds :
               /\ endpoints'[fd].id = endpoints[fd].id
               /\ endpoints[fd].status = "CLOSE_WAIT" => endpoints'[fd].status = "CLOSE_WAIT"
               /\ endpoints'[fd].status \in {"ACCEPT_WAIT", "ESTABLISHED"} =>
                      endpoints[fd].status \in {"ACCEPT_WAIT", "ESTABLISHED"},
           UNCHANGED <<streams, servers, fdt, clientPorts>>, AppOnly,
           SmesTyped', AppTyped', StatusByKind', PendingOnce', HandlesLive',
           mac.op = "addPending" =>
               /\ endpoints'[mac.fd].status = "ACCEPT_WAIT"
               /\ \A fd \in Fds : mac.fd \notin Pending(fd)',
           \A u \in Threads \ {t} :
               /\ app'[u].pc = app[u].pc /\ app'[u].fd = app[u].fd
               /\ Owns(u) => /\ MovesGently(endpoints[app[u].fd], endpoints'[app[u].fd])
                             /\ app[u].fd \notin handles'
                             /\ Owns(t)' => app'[t].fd # app[u].fd
               /\ InAccept(u) => \A fd \in Fds : app[u].fd \notin Pending(fd)',
           ThreadOwns(t)', ~InListen(t)'
    PROVE  IndInv'
  <1> USE DEF IndInv, Typed, Consistent, AppOnly, scheduleVars
  <1>1. MapsTyped' /\ MapsAgree' /\ PortsReleased' /\ Mapped' = Mapped
    BY SameMaps DEF SameKind
  <1>2. ScheduleTyped' /\ MacTyped'
    BY DEF ScheduleTyped, MacTyped
  <1>3. MacStep'
    BY <1>1 DEF MacStep, IsStream
  <1>4. ScheduleAhead'
    <2>1. \A id \in Mapped : streams[id] \in Fds /\ Status(id) = endpoints[streams[id]].status
                             /\ Status(id)' = endpoints'[streams[id]].status
      BY DEF Mapped, MapsTyped, Status
    <2> QED BY <1>1, <2>1, ScheduleKept
  <1>5. ASSUME NEW u \in Threads \ {t}
        PROVE  StaysPut(u) /\ ServerStays(u) /\ StreamStays(u)
    <2>1. ThreadOwns(u)
      BY DEF ThreadsOwn
    <2>2. StaysPut(u)
      BY <2>1, OwnersAreBusy DEF StaysPut
    <2>3. ServerStays(u)
      <3> SUFFICES ASSUME InListen(u) PROVE ServerStays(u)
        BY DEF ServerStays
      <3>1. servers[Of(u).id.dstPort] \in Fds
        BY ListenedServer
      <3> QED BY <2>1, <3>1, EndpointFacts DEF ServerStays, ThreadOwns, ListenOwns
    <2>4. StreamStays(u)
      BY <2>1 DEF StreamStays, ThreadOwns, AcceptOwns
    <2> QED BY <2>2, <2>3, <2>4
  <1>6. \A u \in Threads \ {t} : Owns(t)' /\ Owns(u) => app'[t].fd # app[u].fd
    OBVIOUS
  <1>7. ThreadsOwn'
    BY <1>5, <1>6, OthersKept
  <1> QED BY <1>1, <1>2, <1>3, <1>4, <1>7

\* No thread works on a stream that waits at a server, other than the one that looks
\* for it in accept().
LEMMA PendingIsFree ==
    ASSUME IndInv, NEW fd \in Fds, NEW f \in Pending(fd), endpoints[fd].status # "CLOSE_WAIT"
    PROVE  /\ f \in Fds /\ IsStream(f) /\ endpoints[f].status = "ACCEPT_WAIT"
           /\ f \notin handles
           /\ \A u \in Threads : Owns(u) => app[u].fd # f
           /\ mac.op = "addPending" => mac.fd # f
  <1> USE DEF IndInv, Typed, Consistent
  <1>1. f \in Fds /\ IsStream(f) /\ endpoints[f].status = "ACCEPT_WAIT"
    BY DEF EndpointsTyped, PendingOnce
  <1>2. f \notin handles
    BY <1>1 DEF HandlesLive, OwnStatuses
  <1>3. ASSUME NEW u \in Threads, Owns(u)
        PROVE  app[u].fd # f
    BY <1>1, <1>3 DEF ThreadsOwn, ThreadOwns, Owns, ConnectOwns, ListenOwns, AcceptOwns,
        CloseOwns, Of, OwnStatuses, ConnectStatuses, ListenStatuses
  <1>4. mac.op = "addPending" => mac.fd # f
    BY DEF MacStep
  <1> QED BY <1>1, <1>2, <1>3, <1>4

\* The first of the streams that wait, and the others.
LEMMA HeadAndTail ==
    ASSUME NEW q \in Seq(Nat), q # <<>>
    PROVE  /\ Tail(q) \in Seq(Nat) /\ Len(q) \in Nat \ {0} /\ DOMAIN q = 1 .. Len(q)
           /\ DOMAIN Tail(q) = 1 .. Len(q) - 1
           /\ \A i \in DOMAIN Tail(q) : Tail(q)[i] = q[i + 1] /\ i + 1 \in DOMAIN q
           /\ Head(q) = q[1] /\ 1 \in DOMAIN q
  <1>1. Len(q) \in Nat \ {0} /\ DOMAIN q = 1 .. Len(q) /\ 1 \in DOMAIN q /\ Head(q) = q[1]
    OBVIOUS
  <1>2. /\ Tail(q) \in Seq(Nat) /\ Len(Tail(q)) = Len(q) - 1
        /\ \A i \in 1 .. Len(Tail(q)) : Tail(q)[i] = q[i + 1]
    BY HeadTailProperties
  <1>3. DOMAIN Tail(q) = 1 .. Len(q) - 1
    BY <1>2
  <1> QED BY <1>1, <1>2, <1>3

\* accept() takes the first of the streams that wait at its server.
LEMMA TakeStep ==
    ASSUME IndInv, NEW t \in Threads, InServer(t), AppOnly,
           Of(t).status = "LISTEN", Of(t).pendingAccept # <<>>,
           endpoints' = [endpoints EXCEPT ![app[t].fd].pendingAccept = Tail(@)],
           app' = [app EXCEPT ![t] = [IdleApp EXCEPT !.pc = "acceptFind",
                                                     !.fd = Head(Of(t).pendingAccept)]],
           UNCHANGED <<streams, servers, fdt, clientPorts, smeQueue, handles>>
    PROVE  IndInv'
  <1> USE DEF IndInv, Typed, Consistent
  <1>0. PICK s : s = app[t].fd
    OBVIOUS
  <1> DEFINE q == endpoints[s].pendingAccept
             e == [endpoints[s] EXCEPT !.pendingAccept = Tail(q)]
             f == Head(q)
             r == [IdleApp EXCEPT !.pc = "acceptFind", !.fd = f]
  <1>1. s \in Fds /\ ~IsStream(s) /\ endpoints[s].status = "LISTEN"
    BY <1>0 DEF ThreadsOwn, ThreadOwns, AcceptOwns, InServer, Of
  <1>2. endpoints[s] \in Endpoint /\ q \in Seq(Nat) /\ q # <<>>
    BY <1>0, <1>1, EndpointFacts DEF Endpoint, Of
  <1>3. app' = [app EXCEPT ![t] = r] /\ endpoints' = [endpoints EXCEPT ![s] = e]
    BY <1>0 DEF Of
  <1> HIDE DEF r
  <1>4. /\ Tail(q) \in Seq(Nat) /\ Len(q) \in Nat \ {0} /\ DOMAIN q = 1 .. Len(q)
        /\ DOMAIN Tail(q) = 1 .. Len(q) - 1
        /\ \A i \in DOMAIN Tail(q) : Tail(q)[i] = q[i + 1] /\ i + 1 \in DOMAIN q
        /\ f = q[1] /\ 1 \in DOMAIN q
    BY <1>2, HeadAndTail
  <1>5. e \in Endpoint /\ e.id = endpoints[s].id /\ e.status = "LISTEN"
        /\ e.pendingAccept = Tail(q)
    BY <1>1, <1>2, <1>4 DEF Endpoint
  <1> HIDE DEF e
  <1>6. /\ Fds' = Fds /\ endpoints'[s] = e
        /\ \A fd \in Fds : fd # s => endpoints'[fd] = endpoints[fd]
        /\ endpoints' \in Seq(Endpoint)
    <2>1. Fds' = Fds /\ endpoints'[s] = e
          /\ \A fd \in Fds : fd # s => endpoints'[fd] = endpoints[fd]
      BY <1>1, <1>3 DEF Fds
    <2>2. endpoints' \in Seq(Endpoint)
      <3>1. endpoints \in Seq(Endpoint) /\ s \in 1 .. Len(endpoints)
        BY <1>1, EndpointFacts DEF EndpointsTyped
      <3>2. [endpoints EXCEPT ![s] = e] \in Seq(Endpoint)
        BY <1>5, <3>1, ExceptSeq
      <3> QED BY <1>3, <3>2
    <2> QED BY <2>1, <2>2
  <1>7. f \in Pending(s)
    BY <1>4 DEF Pending
  <1>8. /\ f \in Fds /\ IsStream(f) /\ endpoints[f].status = "ACCEPT_WAIT"
        /\ f \notin handles
        /\ \A u \in Threads : Owns(u) => app[u].fd # f
        /\ mac.op = "addPending" => mac.fd # f
    BY <1>1, <1>7, PendingIsFree
  <1>9. f # s
    BY <1>1, <1>8
  <1>10. \A i, j \in DOMAIN q : q[i] = q[j] => i = j
    BY <1>1 DEF PendingOnce
  <1>11. \A fd \in Fds : fd # s => Pending(fd)' = Pending(fd)
    BY <1>6 DEF Pending
  <1>12. Pending(s)' \subseteq Pending(s) \ {f}
    <2> SUFFICES ASSUME NEW g \in Pending(s)' PROVE g \in Pending(s) /\ g # f
      OBVIOUS
    <2>1. PICK i \in DOMAIN endpoints'[s].pendingAccept : g = endpoints'[s].pendingAccept[i]
      BY DEF Pending
    <2>2. i \in DOMAIN Tail(q) /\ g = Tail(q)[i]
      <3>1. endpoints'[s].pendingAccept = Tail(q)
        BY <1>5, <1>6
      <3> HIDE DEF q
      <3> QED BY <2>1, <3>1
    <2>3. i \in Nat \ {0} /\ i + 1 \in DOMAIN q /\ g = q[i + 1]
      <3> HIDE DEF q, f
      <3>1. Tail(q)[i] = q[i + 1] /\ i + 1 \in DOMAIN q
        BY <1>4, <2>2, Zenon
      <3>2. i \in 1 .. Len(q) - 1 /\ Len(q) \in Nat
        BY <1>4, <2>2
      <3> QED BY <2>2, <3>1, <3>2
    <2>4. i + 1 # 1
      BY <2>3
    <2>5. g # f
      BY <1>4, <1>10, <2>3, <2>4
    <2> QED BY <2>3, <2>5 DEF Pending
  <1>13. \A fd \in Fds : f \notin Pending(fd)'
    <2>1. \A fd \in Fds : fd # s => f \notin Pending(fd)
      BY <1>1, <1>7 DEF PendingOnce
    <2> QED BY <1>11, <1>12, <2>1
  <1>14. \A fd \in Fds : endpoints'[fd].id = endpoints[fd].id
                         /\ endpoints'[fd].status = endpoints[fd].status
    BY <1>1, <1>5, <1>6
  <1> HIDE DEF q, f
  <1>15. EndpointsTyped'
    BY <1>6, <1>11, <1>12 DEF EndpointsTyped
  <1>16. StatusByKind'
    BY <1>6, <1>14 DEF StatusByKind, IsStream
  <1>17. HandlesLive'
    BY <1>14 DEF HandlesLive, AppTyped
  <1>18. PendingOnce'
    <2>1. ASSUME NEW fd \in Fds, NEW g \in Pending(fd)'
          PROVE  /\ ~IsStream(fd)' /\ IsStream(g)'
                 /\ endpoints'[fd].status # "CLOSE_WAIT" => endpoints'[g].status = "ACCEPT_WAIT"
      <3>1. g \in Pending(fd) /\ g \in Fds
        BY <1>11, <1>12 DEF EndpointsTyped
      <3> QED BY <1>14, <3>1 DEF PendingOnce, IsStream
    <2>2. ASSUME NEW fd \in Fds, NEW i \in DOMAIN endpoints'[fd].pendingAccept,
                 NEW j \in DOMAIN endpoints'[fd].pendingAccept,
                 endpoints'[fd].pendingAccept[i] = endpoints'[fd].pendingAccept[j]
          PROVE  i = j
      <3>1. CASE fd # s
        BY <1>6, <2>2, <3>1 DEF PendingOnce
      <3>2. CASE fd = s
        <4>1. i \in DOMAIN Tail(q) /\ j \in DOMAIN Tail(q) /\ Tail(q)[i] = Tail(q)[j]
          BY <1>5, <1>6, <2>2, <3>2
        <4>2. q[i + 1] = q[j + 1] /\ i + 1 \in DOMAIN q /\ j + 1 \in DOMAIN q
          BY <1>4, <4>1
        <4>3. i + 1 = j + 1 /\ i \in Nat /\ j \in Nat
          BY <1>4, <1>10, <4>1, <4>2
        <4> QED BY <4>3
      <3> QED BY <3>1, <3>2
    <2>3. \A fd, gd \in Fds : fd # gd => Pending(fd)' \cap Pending(gd)' = {}
      BY <1>11, <1>12 DEF PendingOnce
    <2> QED BY <1>6, <2>1, <2>2, <2>3 DEF PendingOnce
  <1>19. app \in [Threads -> AppRecord] /\ r \in AppRecord /\ r.pc = "acceptFind" /\ r.fd = f
    <2>1. "acceptFind" \in Pcs /\ f \in {0} \cup Fds
      BY <1>8 DEF Pcs
    <2> QED BY <2>1, EnterIs DEF AppTyped, AppRecord, r
  <1>20. /\ app' \in [Threads -> AppRecord]
         /\ app'[t].pc = "acceptFind" /\ app'[t].fd = f
         /\ \A u \in Threads \ {t} : app'[u] = app[u]
    BY <1>3, <1>19
  <1>21. AppTyped' /\ SmesTyped'
    BY <1>6, <1>20 DEF AppTyped, AppRecord, SmesTyped, AppOnly
  <1>22. ThreadOwns(t)' /\ ~InListen(t)'
    <2>1. AcceptOwns(t)'
      BY <1>6, <1>8, <1>13, <1>14, <1>20 DEF AcceptOwns, InServer, InAccept, IsStream, Of, AppOnly
    <2> QED BY <1>6, <1>8, <1>20, <2>1 DEF ThreadOwns, ConnectOwns, ListenOwns, CloseOwns,
            InConnect, InListen, InClose
  <1>23. \A u \in Threads \ {t} :
             InAccept(u) => \A fd \in Fds : app[u].fd \notin Pending(fd)'
    BY <1>11, <1>12 DEF ThreadsOwn, ThreadOwns, AcceptOwns
  <1>24. \A u \in Threads \ {t} :
             Owns(u) => /\ MovesGently(endpoints[app[u].fd], endpoints'[app[u].fd])
                        /\ app[u].fd \notin handles'
                        /\ app'[t].fd # app[u].fd
    BY <1>8, <1>14, <1>20, OwnersAreBusy DEF MovesGently, ThreadsOwn
  <1>25. mac.op = "addPending" =>
             /\ endpoints'[mac.fd].status = "ACCEPT_WAIT"
             /\ \A fd \in Fds : mac.fd \notin Pending(fd)'
    BY <1>11, <1>12, <1>14 DEF MacStep
  <1> HIDE DEF IndInv, Typed, Consistent
  <1> QED BY <1>6, <1>14, <1>15, <1>16, <1>17, <1>18, <1>20, <1>21, <1>22, <1>23, <1>24, <1>25,
             CallStep

LEMMA AcceptLoopStep ==
    ASSUME IndInv, NEW t \in Threads, AcceptLoop(t)
    PROVE  IndInv'
  <1>1. InServer(t) /\ "acceptWait" \in Pcs
    BY DEF AcceptLoop, InServer, Pcs
  <1>2. /\ UNCHANGED <<streams, servers, fdt, clientPorts, smeQueue, handles>> /\ AppOnly
        /\ SmesTyped' /\ handles' \subseteq Fds
    BY DEF AcceptLoop, AppOnly, IndInv, Typed, SmesTyped, AppTyped
  <1>3. CASE Goto(t, "acceptWait") /\ UNCHANGED endpoints
    <2>1. Undisturbed
      BY <1>2, <1>3 DEF Undisturbed, maps, AppOnly, scheduleVars
    <2> QED BY <1>1, <1>2, <1>3, <2>1, GotoStep
  <1>4. CASE Return(t) /\ UNCHANGED endpoints
    <2>1. Undisturbed
      BY <1>2, <1>4 DEF Undisturbed, maps, AppOnly, scheduleVars
    <2> QED BY <1>2, <1>4, <2>1, ReturnStep
  <1>5. CASE /\ Of(t).status = "LISTEN" /\ Of(t).pendingAccept # <<>>
             /\ endpoints' = [endpoints EXCEPT ![app[t].fd].pendingAccept = Tail(@)]
             /\ app' = [app EXCEPT ![t] = [IdleApp EXCEPT !.pc = "acceptFind",
                                                          !.fd = Head(Of(t).pendingAccept)]]
    BY <1>1, <1>2, <1>5, TakeStep
  <1> QED BY <1>3, <1>4, <1>5 DEF AcceptLoop

\* Nothing changes where streams wait when endpoints keep what waits at them.
LEMMA PendingKept ==
    ASSUME IndInv, Fds' = Fds,
           \A fd \in Fds : /\ endpoints'[fd].id = endpoints[fd].id
                           /\ endpoints'[fd].pendingAccept = endpoints[fd].pendingAccept,
           \A fd \in Fds : \A f \in Pending(fd) :
               endpoints'[fd].status # "CLOSE_WAIT" => endpoints'[f].status = "ACCEPT_WAIT"
    PROVE  PendingOnce' /\ \A fd \in Fds : Pending(fd)' = Pending(fd)
  <1> USE DEF IndInv, Typed, Consistent
  <1>1. \A fd \in Fds : Pending(fd)' = Pending(fd)
    BY DEF Pending
  <1>2. ASSUME NEW fd \in Fds, NEW f \in Pending(fd)
        PROVE  ~IsStream(fd)' /\ IsStream(f)'
    BY DEF PendingOnce, EndpointsTyped, IsStream
  <1>3. \A fd \in Fds : \A i, j \in DOMAIN endpoints'[fd].pendingAccept :
            endpoints'[fd].pendingAccept[i] = endpoints'[fd].pendingAccept[j] => i = j
    BY DEF PendingOnce
  <1>4. \A fd, gd \in Fds : fd # gd => Pending(fd)' \cap Pending(gd)' = {}
    BY <1>1 DEF PendingOnce
  <1> QED BY <1>1, <1>2, <1>3, <1>4 DEF PendingOnce

\* accept() establishes the stream and gives its handle to the application.
LEMMA AcceptDoneStep ==
    ASSUME IndInv, NEW t \in Threads, AcceptDone(t)
    PROVE  IndInv'
  <1> USE DEF IndInv, Typed, Consistent
  <1>0. PICK s : s = app[t].fd
    OBVIOUS
  <1>1. InAccept(t) /\ Owns(t)
    BY DEF AcceptDone, InAccept, Owns
  <1>2. /\ s \in Fds /\ IsStream(s) /\ endpoints[s].status = "ACCEPT_WAIT" /\ s \notin handles
        /\ \A fd \in Fds : s \notin Pending(fd)
        /\ mac.op = "addPending" => s # mac.fd
    BY <1>0, <1>1, OwnersAreBusy DEF ThreadsOwn, ThreadOwns, AcceptOwns, Of
  <1>3. /\ endpoints' = [endpoints EXCEPT ![s] = AcceptedStream(endpoints[s])]
        /\ Return(t) /\ handles' = handles \cup {s}
        /\ UNCHANGED <<streams, servers, fdt, clientPorts, smeQueue>> /\ AppOnly
    BY <1>0 DEF AcceptDone, ReturnHandle
  <1>4. Becomes(AcceptedStream(endpoints[s]), endpoints[s], "ESTABLISHED")
    BY <1>2, CallsMove, EndpointFacts
  <1>5. /\ Fds' = Fds /\ endpoints' = [fd \in Fds |-> endpoints'[fd]]
        /\ \A fd \in Fds : fd # s => endpoints'[fd] = endpoints[fd]
        /\ endpoints'[s] = AcceptedStream(endpoints[s])
    BY <1>2, <1>3 DEF Fds, EndpointsTyped
  <1>6. \A fd \in Fds : /\ endpoints'[fd] \in Endpoint
                        /\ endpoints'[fd].id = endpoints[fd].id
                        /\ endpoints'[fd].pendingAccept = endpoints[fd].pendingAccept
                        /\ endpoints'[fd].status = IF fd = s THEN "ESTABLISHED"
                                                   ELSE endpoints[fd].status
    <2>1. /\ endpoints'[s] \in Endpoint
          /\ endpoints'[s].id = endpoints[s].id
          /\ endpoints'[s].pendingAccept = endpoints[s].pendingAccept
          /\ endpoints'[s].status = "ESTABLISHED"
      <3>1. endpoints'[s] = AcceptedStream(endpoints[s])
        BY <1>5
      <3>2. Becomes(endpoints'[s], endpoints[s], "ESTABLISHED")
        BY <1>4, <3>1
      <3> QED BY <3>2, Zenon DEF Becomes
    <2>2. \A fd \in Fds : endpoints[fd] \in Endpoint
      BY EndpointFacts
    <2> QED BY <1>5, <2>1, <2>2
  <1>7. EndpointsTyped'
    BY <1>5, <1>6, MappedEndpoints DEF Fds
  <1>8. PendingOnce' /\ \A fd \in Fds : Pending(fd)' = Pending(fd)
    <2>1. ASSUME NEW fd \in Fds, NEW f \in Pending(fd), endpoints'[fd].status # "CLOSE_WAIT"
          PROVE  endpoints'[f].status = "ACCEPT_WAIT"
      <3>1. f \in Fds /\ f # s
        BY <1>2, <2>1 DEF EndpointsTyped
      <3>2. fd # s
        BY <1>2, <2>1 DEF PendingOnce
      <3> QED BY <1>6, <2>1, <3>1, <3>2 DEF PendingOnce
    <2> QED BY <1>5, <1>6, <2>1, PendingKept
  <1>9. StatusByKind'
    BY <1>2, <1>5, <1>6 DEF StatusByKind, IsStream, ConnectStatuses, OwnStatuses
  <1>10. HandlesLive'
    <2> SUFFICES ASSUME NEW fd \in handles'
                 PROVE  endpoints'[fd].status \in OwnStatuses \cup {"LISTEN"}
      BY DEF HandlesLive
    <2>1. CASE fd = s
      BY <1>2, <1>6, <2>1 DEF OwnStatuses
    <2>2. CASE fd # s
      <3>1. fd \in handles /\ fd \in Fds
        BY <1>3, <2>2 DEF AppTyped
      <3> QED BY <1>6, <2>2, <3>1 DEF HandlesLive
    <2> QED BY <2>1, <2>2
  <1>11. /\ app' \in [Threads -> AppRecord]
         /\ app'[t].pc = "idle"
         /\ \A u \in Threads \ {t} : app'[u] = app[u]
    BY <1>3, ReturnIs
  <1>12. AppTyped' /\ SmesTyped'
    BY <1>2, <1>3, <1>5, <1>11 DEF AppTyped, AppRecord, SmesTyped, AppOnly
  <1>13. ThreadOwns(t)' /\ ~Owns(t)' /\ ~InListen(t)'
    BY <1>11, IdleOwns DEF Owns
  <1>14. \A u \in Threads \ {t} :
            /\ Owns(u) => /\ MovesGently(endpoints[app[u].fd], endpoints'[app[u].fd])
                          /\ app[u].fd \notin handles'
            /\ InAccept(u) => \A fd \in Fds : app[u].fd \notin Pending(fd)'
    <2> SUFFICES ASSUME NEW u \in Threads \ {t}
                 PROVE  /\ Owns(u) => /\ MovesGently(endpoints[app[u].fd], endpoints'[app[u].fd])
                                      /\ app[u].fd \notin handles'
                        /\ InAccept(u) => \A fd \in Fds : app[u].fd \notin Pending(fd)'
      OBVIOUS
    <2>1. ThreadOwns(u) /\ Apart(t, u)
      BY DEF ThreadsOwn
    <2>2. Owns(u) => app[u].fd # s /\ app[u].fd \in Fds /\ app[u].fd \notin handles
      BY <1>0, <1>1, <2>1, OwnersAreBusy DEF Apart
    <2> QED BY <1>3, <1>6, <1>8, <2>1, <2>2 DEF MovesGently, ThreadOwns, AcceptOwns
  <1>15. mac.op = "addPending" =>
             /\ endpoints'[mac.fd].status = "ACCEPT_WAIT"
             /\ \A fd \in Fds : mac.fd \notin Pending(fd)'
    BY <1>2, <1>6, <1>8 DEF MacStep
  <1>16. \A fd \in Fds :
            /\ endpoints[fd].status = "CLOSE_WAIT" => endpoints'[fd].status = "CLOSE_WAIT"
            /\ endpoints'[fd].status \in {"ACCEPT_WAIT", "ESTABLISHED"} =>
                      endpoints[fd].status \in {"ACCEPT_WAIT", "ESTABLISHED"}
    BY <1>2, <1>6
  <1> HIDE DEF IndInv, Typed, Consistent
  <1> QED BY <1>3, <1>5, <1>6, <1>7, <1>8, <1>9, <1>10, <1>11, <1>12, <1>13, <1>14, <1>15, <1>16,
             CallStep

\* close() of the endpoint, and of the streams that wait at it.
LEMMA CloseEndpointStep ==
    ASSUME IndInv, NEW t \in Threads, CloseEndpoint(t)
    PROVE  IndInv'
  <1> USE DEF IndInv, Typed, Consistent
  <1>0. PICK s : s = app[t].fd
    OBVIOUS
  <1>1. InClose(t) /\ Owns(t)
    BY DEF CloseEndpoint, InClose, Owns
  <1>2. /\ s \in Fds /\ endpoints[s].status \in OwnStatuses \cup {"LISTEN"} /\ s \notin handles
        /\ IsStream(s) => s \in fdt
    BY <1>0, <1>1, OwnersAreBusy DEF ThreadsOwn, ThreadOwns, CloseOwns, Of
  <1>3. /\ endpoints' = [f \in Fds |-> IF f = s THEN Closed(endpoints[f])
                                       ELSE IF f \in Pending(s) THEN ClosedServer(endpoints[f])
                                       ELSE endpoints[f]]
        /\ \E ids : EnqueueSMEs(ids, "CLOSED")
        /\ \E notified \in Notified({s}) :
             app' = [notified EXCEPT ![t] =
                   IF CloseDeletes(endpoints[s])
                   THEN [IdleApp EXCEPT !.pc = "closeRemove", !.fd = s] ELSE IdleApp]
        /\ UNCHANGED <<streams, servers, fdt, clientPorts, handles>> /\ AppOnly
    <2>1. \E ids : EnqueueSMEs(ids, "CLOSED")
      BY Zenon DEF CloseEndpoint
    <2>2. endpoints' = [f \in Fds |-> IF f = s THEN Closed(endpoints[f])
                                       ELSE IF f \in Pending(s) THEN ClosedServer(endpoints[f])
                                       ELSE endpoints[f]]
      BY <1>0, Zenon DEF CloseEndpoint, Pending
    <2>3. \E notified \in Notified({s}) :
             app' = [notified EXCEPT ![t] =
                   IF CloseDeletes(endpoints[s])
                   THEN [IdleApp EXCEPT !.pc = "closeRemove", !.fd = s] ELSE IdleApp]
      BY <1>0, Zenon DEF CloseEndpoint
    <2>4. UNCHANGED <<streams, servers, fdt, clientPorts, handles>> /\ AppOnly
      BY DEF CloseEndpoint
    <2> QED BY <2>1, <2>2, <2>3, <2>4
  <1>4. \A f \in Pending(s) :
            /\ f \in Fds /\ IsStream(f) /\ endpoints[f].status = "ACCEPT_WAIT"
            /\ f \notin handles
            /\ \A u \in Threads : Owns(u) => app[u].fd # f
            /\ mac.op = "addPending" => mac.fd # f
    BY <1>2, PendingIsFree DEF OwnStatuses
  <1>5. Fds' = Fds /\ endpoints' = [fd \in Fds |-> endpoints'[fd]]
        /\ \A f \in Fds : endpoints'[f] = IF f = s THEN Closed(endpoints[f])
                                       ELSE IF f \in Pending(s) THEN ClosedServer(endpoints[f])
                                       ELSE endpoints[f]
    BY <1>3 DEF Fds
  <1>6. \A f \in Fds :
            /\ endpoints'[f] \in Endpoint
            /\ endpoints'[f].id = endpoints[f].id
            /\ endpoints'[f].pendingAccept = endpoints[f].pendingAccept
            /\ endpoints'[f].status =
                   IF \/ f = s /\ endpoints[f].status \in {"ESTABLISHED", "REOPENED", "LISTEN"}
                      \/ f # s /\ f \in Pending(s)
                   THEN "CLOSE_WAIT" ELSE endpoints[f].status
    BY <1>4, <1>5, CallsMove, EndpointFacts DEF Becomes
  <1>7. EndpointsTyped'
    BY <1>5, <1>6, MappedEndpoints DEF Fds
  <1>8. PendingOnce' /\ \A fd \in Fds : Pending(fd)' = Pending(fd)
    <2>1. ASSUME NEW fd \in Fds, NEW f \in Pending(fd), endpoints'[fd].status # "CLOSE_WAIT"
          PROVE  endpoints'[f].status = "ACCEPT_WAIT"
      <3>1. f \in Fds /\ endpoints[fd].status # "CLOSE_WAIT"
        BY <1>6, <2>1 DEF EndpointsTyped
      <3>2. IsStream(f) /\ ~IsStream(fd) /\ endpoints[f].status = "ACCEPT_WAIT"
        BY <2>1, <3>1 DEF PendingOnce
      <3>3. f # s
        BY <1>2, <3>2 DEF OwnStatuses
      <3>4. fd # s
        BY <1>2, <1>6, <2>1, <3>2 DEF StatusByKind, ListenStatuses, OwnStatuses
      <3>5. f \notin Pending(s)
        BY <1>2, <2>1, <3>4 DEF PendingOnce
      <3> QED BY <1>6, <3>1, <3>2, <3>3, <3>5
    <2> QED BY <1>5, <1>6, <2>1, PendingKept
  <1>9. StatusByKind'
    BY <1>5, <1>6 DEF StatusByKind, IsStream
  <1>10. HandlesLive'
    BY <1>2, <1>3, <1>4, <1>6 DEF HandlesLive, AppTyped
  <1>11. PICK notified \in Notified({s}) :
             app' = [notified EXCEPT ![t] =
                   IF CloseDeletes(endpoints[s])
                   THEN [IdleApp EXCEPT !.pc = "closeRemove", !.fd = s] ELSE IdleApp]
    BY <1>3
  <1>12. /\ notified \in [Threads -> AppRecord]
         /\ \A u \in Threads : notified[u].pc = app[u].pc /\ notified[u].fd = app[u].fd
    BY NotifiedKeeps DEF AppRecord
  <1>13. /\ app' \in [Threads -> AppRecord]
         /\ \A u \in Threads \ {t} : app'[u] = notified[u]
         /\ \/ app'[t].pc = "idle"
            \/ /\ endpoints[s].status = "REMOTELY_CLOSED"
               /\ app'[t].pc = "closeRemove" /\ app'[t].fd = s
    <2>1. CASE CloseDeletes(endpoints[s])
      <3> DEFINE r == [IdleApp EXCEPT !.pc = "closeRemove", !.fd = s]
      <3>1. app' = [notified EXCEPT ![t] = r]
        BY <1>11, <2>1
      <3>2. "closeRemove" \in Pcs /\ s \in {0} \cup Fds
        BY <1>2 DEF Pcs
      <3>3. r \in AppRecord /\ r.pc = "closeRemove" /\ r.fd = s
        BY <3>2, EnterIs
      <3> HIDE DEF r
      <3> QED BY <1>12, <2>1, <3>1, <3>3 DEF CloseDeletes
    <2>2. CASE ~CloseDeletes(endpoints[s])
      <3>1. app' = [notified EXCEPT ![t] = IdleApp]
        BY <1>11, <2>2
      <3>2. IdleApp \in AppRecord /\ IdleApp.pc = "idle"
        BY DEF IdleApp, AppRecord, Pcs
      <3> QED BY <1>12, <3>1, <3>2
    <2> QED BY <2>1, <2>2
  <1>14. AppTyped' /\ SmesTyped'
    <2>1. AppTyped'
      BY <1>3, <1>5, <1>13 DEF AppTyped, AppRecord
    <2> QED BY <1>3, <2>1, SmesQueued DEF AppOnly, SmeTypes
  <1>15. ThreadOwns(t)' /\ ~InListen(t)' /\ (Owns(t)' => app'[t].fd = s)
    <2>1. CASE app'[t].pc = "idle"
      BY <2>1, IdleOwns DEF Owns
    <2>2. CASE /\ endpoints[s].status = "REMOTELY_CLOSED"
               /\ app'[t].pc = "closeRemove" /\ app'[t].fd = s
      <3>1. endpoints'[s].status = "REMOTELY_CLOSED"
        BY <1>2, <1>6, <2>2
      <3>2. CloseOwns(t)'
        BY <1>2, <1>3, <1>6, <2>2, <3>1 DEF CloseOwns, InClose, Of, OwnStatuses, IsStream
      <3> QED BY <1>2, <1>3, <1>5, <2>2, <3>2 DEF ThreadOwns, Owns, InConnect, InListen, InAccept,
          InServer, InClose, ConnectOwns, ListenOwns, AcceptOwns
    <2> QED BY <1>13, <2>1, <2>2
  <1>16. \A u \in Threads \ {t} :
            /\ Owns(u) => /\ MovesGently(endpoints[app[u].fd], endpoints'[app[u].fd])
                          /\ app[u].fd \notin handles'
                          /\ Owns(t)' => app'[t].fd # app[u].fd
            /\ InAccept(u) => \A fd \in Fds : app[u].fd \notin Pending(fd)'
    <2> SUFFICES ASSUME NEW u \in Threads \ {t}
                 PROVE  /\ Owns(u) => /\ MovesGently(endpoints[app[u].fd], endpoints'[app[u].fd])
                                      /\ app[u].fd \notin handles'
                                      /\ Owns(t)' => app'[t].fd # app[u].fd
                        /\ InAccept(u) => \A fd \in Fds : app[u].fd \notin Pending(fd)'
      OBVIOUS
    <2>1. ThreadOwns(u) /\ Apart(t, u)
      BY DEF ThreadsOwn
    <2>2. Owns(u) => app[u].fd # s /\ app[u].fd \in Fds /\ app[u].fd \notin handles
      BY <1>0, <1>1, <2>1, OwnersAreBusy DEF Apart
    <2>3. Owns(u) => app[u].fd \notin Pending(s)
      BY <1>4
    <2> QED BY <1>3, <1>6, <1>8, <1>15, <2>1, <2>2, <2>3 DEF MovesGently, ThreadOwns, AcceptOwns
  <1>17. mac.op = "addPending" =>
             /\ endpoints'[mac.fd].status = "ACCEPT_WAIT"
             /\ \A fd \in Fds : mac.fd \notin Pending(fd)'
    BY <1>2, <1>4, <1>6, <1>8 DEF MacStep, OwnStatuses
  <1>18. \A fd \in Fds :
            /\ endpoints[fd].status = "CLOSE_WAIT" => endpoints'[fd].status = "CLOSE_WAIT"
            /\ endpoints'[fd].status \in {"ACCEPT_WAIT", "ESTABLISHED"} =>
                      endpoints[fd].status \in {"ACCEPT_WAIT", "ESTABLISHED"}
    BY <1>6
  <1>19. \A u \in Threads \ {t} : app'[u].pc = app[u].pc /\ app'[u].fd = app[u].fd
    BY <1>12, <1>13
  <1> HIDE DEF IndInv, Typed, Consistent
  <1> QED BY <1>3, <1>5, <1>6, <1>7, <1>8, <1>9, <1>10, <1>14, <1>15, <1>16, <1>17, <1>18, <1>19,
             CallStep

-----------------------------------------------------------------------------
(***************************************************************************)
(* The steps of the MAC thread.                                            *)
(***************************************************************************)
\* The MAC thread moves endpoints, notifies those who wait for them, and may take
\* streams out of their map that wait to be accepted or closed.
LEMMA MacMoves ==
    ASSUME IndInv, endpoints' = [fd \in Fds |-> endpoints'[fd]],
           \A fd \in Fds : Gentle(endpoints[fd], endpoints'[fd]),
           NEW fds, app' \in Notified(fds),
           UNCHANGED <<servers, handles>>, mac'.op # "addPending",
           NEW ids \in SUBSET StreamIds,
           \/ ids = {} /\ UNCHANGED <<streams, fdt, clientPorts>>
           \/ /\ RemoveStreams(ids)
              /\ \A id \in ids \cap Mapped : Deletable(endpoints[streams[id]])
    PROVE  /\ EndpointsTyped' /\ MapsTyped' /\ AppTyped' /\ MapsAgree' /\ StatusByKind'
           /\ PendingOnce' /\ ThreadsOwn' /\ HandlesLive' /\ PortsReleased'
           /\ Fds' = Fds /\ Mapped' = Mapped \ ids
           /\ \A id \in Mapped' : streams'[id] = streams[id] /\ streams[id] \in Fds
  <1> USE DEF IndInv, Typed, Consistent
  <1>1. DOMAIN endpoints' = Fds
    OBVIOUS
  <1>2. EndpointsTyped' /\ Fds' = Fds
    <2>1. \A fd \in Fds : /\ endpoints'[fd] \in Endpoint
                          /\ endpoints'[fd].pendingAccept = endpoints[fd].pendingAccept
      BY DEF Gentle
    <2> QED BY <1>1, <2>1, MappedEndpoints
  <1>3. /\ app' \in [Threads -> [pc : Pcs, fd : {0} \cup Fds, signalled : BOOLEAN]]
        /\ \A t \in Threads : app'[t].pc = app[t].pc /\ app'[t].fd = app[t].fd
    BY NotifiedKeeps
  <1>4. AppTyped'
    BY <1>2, <1>3 DEF AppTyped
  <1>5. SameKind
    BY <1>2 DEF SameKind, Gentle
  <1>6. /\ MapsTyped' /\ MapsAgree' /\ PortsReleased' /\ Mapped' = Mapped \ ids
        /\ \A id \in Mapped' : streams'[id] = streams[id]
        /\ \A fd \in fdt : fd \notin fdt' => endpoints[fd].status \in {"ACCEPT_WAIT", "CLOSE_WAIT"}
    <2>1. CASE ids = {} /\ UNCHANGED <<streams, fdt, clientPorts>>
      <3>1. MapsTyped' /\ MapsAgree' /\ PortsReleased' /\ Mapped' = Mapped
        BY <1>5, <2>1, SameMaps
      <3> QED BY <2>1, <3>1
    <2>2. CASE /\ RemoveStreams(ids)
               /\ \A id \in ids \cap Mapped : Deletable(endpoints[streams[id]])
      <3>1. /\ MapsTyped' /\ MapsAgree' /\ PortsReleased' /\ Mapped' = Mapped \ ids
            /\ \A id \in Mapped' : streams'[id] = streams[id]
            /\ \A fd \in fdt : fd \notin fdt' => IsStream(fd) /\ endpoints[fd].id \in ids
        BY <1>5, <2>2, StreamsRemoved
      <3>2. ASSUME NEW fd \in fdt, fd \notin fdt'
            PROVE  endpoints[fd].status \in {"ACCEPT_WAIT", "CLOSE_WAIT"}
        <4>1. IsStream(fd) /\ endpoints[fd].id \in ids /\ streams[endpoints[fd].id] = fd
          BY <3>1, <3>2 DEF MapsAgree, StreamsAgree
        <4>2. fd \in Fds /\ fd # 0
          BY EndpointFacts DEF MapsTyped
        <4>3. endpoints[fd].id \in ids \cap Mapped
          BY <4>1, <4>2 DEF Mapped
        <4> QED BY <2>2, <4>1, <4>3 DEF Deletable
      <3> QED BY <3>1, <3>2
    <2> QED BY <2>1, <2>2
  <1>7. StatusByKind' /\ PendingOnce' /\ HandlesLive' /\ ThreadsOwn'
    BY <1>2, <1>3, <1>6, GentleStep
  <1>8. \A id \in Mapped : streams[id] \in Fds
    BY DEF Mapped, MapsTyped
  <1> QED BY <1>2, <1>4, <1>6, <1>7, <1>8

LEMMA MacMovesOnly ==
    ASSUME IndInv, endpoints' = [fd \in Fds |-> endpoints'[fd]],
           \A fd \in Fds : Gentle(endpoints[fd], endpoints'[fd]),
           NEW fds, app' \in Notified(fds), mac'.op # "addPending",
           UNCHANGED <<servers, handles, streams, fdt, clientPorts>>
    PROVE  /\ EndpointsTyped' /\ MapsTyped' /\ AppTyped' /\ MapsAgree' /\ StatusByKind'
           /\ PendingOnce' /\ ThreadsOwn' /\ HandlesLive' /\ PortsReleased'
           /\ Fds' = Fds /\ Mapped' = Mapped
           /\ \A id \in Mapped : streams'[id] = streams[id] /\ streams[id] \in Fds
  <1>1. PICK none \in SUBSET StreamIds : none = {}
    OBVIOUS
  <1>2. /\ EndpointsTyped' /\ MapsTyped' /\ AppTyped' /\ MapsAgree' /\ StatusByKind'
        /\ PendingOnce' /\ ThreadsOwn' /\ HandlesLive' /\ PortsReleased'
        /\ Fds' = Fds /\ Mapped' = Mapped \ none
        /\ \A id \in Mapped' : streams'[id] = streams[id] /\ streams[id] \in Fds
    BY <1>1, MacMoves
  <1> QED BY <1>1, <1>2

\* With no operation under way there is nothing left to add.
LEMMA IdleMacStep ==
    ASSUME IndInv, mac.op = "idle", UNCHANGED mac
    PROVE  MacStep'
  BY DEF IndInv, Consistent, MacStep

\* The periodic update.
LEMMA TickStep ==
    ASSUME IndInv, Tick
    PROVE  IndInv'
  <1> USE DEF IndInv, Typed, Consistent
  <1> DEFINE fds == {streams[id] : id \in Mapped} \cup ({servers[p] : p \in Ports} \ {0})
             updated == [fd \in fds |-> PeriodicUpdate(endpoints[fd])]
             failed == {fd \in fds : updated[fd].endpoint.status # endpoints[fd].status}
  <1>1. /\ mac.op = "idle"
        /\ endpoints' = [fd \in Fds |-> IF fd \in fds THEN updated[fd].endpoint
                                        ELSE endpoints[fd]]
        /\ smeQueue' = [id \in DOMAIN smeQueue |->
               IF \E fd \in fds : endpoints[fd].id = id /\ updated[fd].sme # "none"
               THEN updated[CHOOSE fd \in fds : endpoints[fd].id = id].sme
               ELSE smeQueue[id]]
        /\ app' \in Notified(failed)
        /\ UNCHANGED <<streams, servers, fdt, clientPorts, scheduleVars, mac, smesSent, desyncs>>
        /\ MacOnly
    BY DEF Tick
  <1>2. \A fd \in fds : updated[fd] = PeriodicUpdate(endpoints[fd])
    OBVIOUS
  <1>3. fds \subseteq Fds
    BY DEF Mapped, MapsTyped
  <1> HIDE DEF fds, updated, failed
  <1>4. \A fd \in Fds :
            /\ Gentle(endpoints[fd], endpoints'[fd])
            /\ endpoints'[fd].status \in {"ACCEPT_WAIT", "ESTABLISHED"} =>
                   endpoints'[fd].status = endpoints[fd].status
    <2>1. \A fd \in Fds : endpoints[fd] \in Endpoint
      BY EndpointFacts
    <2>2. \A fd \in fds :
            /\ Gentle(endpoints[fd], updated[fd].endpoint)
            /\ updated[fd].endpoint.status \in {"ACCEPT_WAIT", "ESTABLISHED"} =>
                   updated[fd].endpoint.status = endpoints[fd].status
      BY <1>2, <1>3, <2>1, UpdateIsGentle
    <2>3. \A fd \in Fds : endpoints'[fd] = IF fd \in fds THEN updated[fd].endpoint
                                           ELSE endpoints[fd]
      BY <1>1
    <2> QED BY <2>1, <2>2, <2>3, GentleIsReflexive
  <1>5. endpoints' = [fd \in Fds |-> endpoints'[fd]]
    BY <1>1
  <1>6. mac'.op # "addPending" /\ UNCHANGED <<servers, handles, streams, fdt, clientPorts>>
    BY <1>1 DEF MacOnly
  <1>7. /\ EndpointsTyped' /\ MapsTyped' /\ AppTyped' /\ MapsAgree' /\ StatusByKind'
        /\ PendingOnce' /\ ThreadsOwn' /\ HandlesLive' /\ PortsReleased'
        /\ Fds' = Fds /\ Mapped' = Mapped
        /\ \A id \in Mapped : streams'[id] = streams[id] /\ streams[id] \in Fds
    <2>1. app' \in Notified(failed) /\ \A fd \in Fds : Gentle(endpoints[fd], endpoints'[fd])
      BY <1>1, <1>4
    <2> HIDE DEF IndInv, Typed, Consistent
    <2> QED BY <1>5, <1>6, <2>1, MacMovesOnly
  <1>8. SmesTyped'
    <2>1. ASSUME NEW id \in StreamIds \cup ServerIds
          PROVE  smeQueue'[id] \in SmeTypes \cup {"none"}
      <3>1. id \in DOMAIN smeQueue
        BY DEF SmesTyped
      <3>2. CASE \E fd \in fds : endpoints[fd].id = id /\ updated[fd].sme # "none"
        <4> DEFINE c == CHOOSE fd \in fds : endpoints[fd].id = id
        <4>1. c \in fds
          BY <3>2
        <4>2. smeQueue'[id] = updated[c].sme
          BY <1>1, <3>1, <3>2
        <4> HIDE DEF c
        <4> QED BY <1>2, <1>3, <4>1, <4>2, UpdateIsGentle, EndpointFacts
      <3>3. CASE ~ \E fd \in fds : endpoints[fd].id = id /\ updated[fd].sme # "none"
        BY <1>1, <3>1, <3>3 DEF SmesTyped
      <3> QED BY <3>2, <3>3
    <2>2. smeQueue' = [id \in StreamIds \cup ServerIds |-> smeQueue'[id]]
      BY <1>1 DEF SmesTyped
    <2> QED BY <1>1, <2>1, <2>2 DEF SmesTyped
  <1>9. ScheduleTyped' /\ MacTyped'
    BY <1>1, <1>7 DEF ScheduleTyped, MacTyped, scheduleVars, MacOnly
  <1>10. ScheduleAhead'
    <2>1. \A id \in Mapped' :
            /\ id \in Mapped /\ Status(id)' = endpoints'[streams[id]].status
            /\ Status(id) = endpoints[streams[id]].status
      BY <1>7 DEF Status, Mapped
    <2>2. \A id \in Mapped' : Status(id)' \in {"ACCEPT_WAIT", "ESTABLISHED"} =>
               id \in Mapped /\ Status(id) \in {"ACCEPT_WAIT", "ESTABLISHED"}
      BY <1>4, <1>7, <2>1
    <2> QED BY <1>1, <2>2, ScheduleKept DEF scheduleVars
  <1> QED BY <1>1, <1>7, <1>8, <1>9, <1>10, IdleMacStep

\* A schedule is applied: what is established afterwards is in it.
LEMMA ApplyScheduleStep ==
    ASSUME IndInv, ApplySchedule
    PROVE  IndInv'
  <1> USE DEF IndInv, Typed, Consistent
  <1> DEFINE added == {streams[id] : id \in nextScheduleStreams \cap Mapped}
             removed == {streams[id] : id \in streamsToRemove}
             ids == {id \in streamsToRemove : Deletable(endpoints[streams[id]])}
  <1>1. /\ mac.op = "idle" /\ awaitsActivation
        /\ UNCHANGED <<smeQueue, nextScheduleStreams, schedulesReceived, smesSent, desyncs>>
        /\ UNCHANGED <<handles, masterTrusted>>
    BY DEF ApplySchedule, MacOnly
  <1>2. SmesTyped'
    BY <1>1 DEF SmesTyped
  <1>3. CASE /\ mac' = [mac EXCEPT !.op = "crashed"]
             /\ UNCHANGED <<maps, app, streamsToRemove, scheduled, awaitsActivation>>
    <2>1. mac'.op = "crashed" /\ mac'.todo = mac.todo /\ MacTyped'
      BY <1>3 DEF MacTyped, maps, Fds
    <2>2. /\ EndpointsTyped' /\ MapsTyped' /\ AppTyped' /\ MapsAgree' /\ StatusByKind'
          /\ PendingOnce' /\ ThreadsOwn' /\ HandlesLive' /\ PortsReleased'
          /\ Fds' = Fds /\ Mapped' = Mapped
      BY <1>1, <1>3, <2>1, QuietStep
    <2>3. MacStep'
      BY <1>1, <2>1 DEF MacStep
    <2>4. ScheduleTyped' /\ ScheduleAhead'
      BY <1>1, <1>3, <2>2 DEF ScheduleTyped, ScheduleAhead, Status, maps
    <2> QED BY <1>2, <2>1, <2>2, <2>3, <2>4
  <1>4. CASE /\ streamsToRemove \subseteq Mapped
             /\ awaitsActivation' = FALSE
             /\ scheduled' = nextScheduleStreams
             /\ endpoints' = [fd \in Fds |->
                   IF fd \in added THEN AddedStream(endpoints[fd])
                   ELSE IF fd \in removed THEN RemovedStream(endpoints[fd])
                   ELSE endpoints[fd]]
             /\ RemoveStreams(ids)
             /\ app' \in Notified(added)
             /\ streamsToRemove' = {}
             /\ UNCHANGED <<servers, mac>>
    <2>1. endpoints' = [fd \in Fds |-> endpoints'[fd]]
          /\ \A fd \in Fds : endpoints'[fd] =
                   IF fd \in added THEN AddedStream(endpoints[fd])
                   ELSE IF fd \in removed THEN RemovedStream(endpoints[fd])
                   ELSE endpoints[fd]
      BY <1>4
    <2>2. \A id \in ids : id \in Mapped /\ Deletable(endpoints[streams[id]])
      BY <1>4
    <2>3. ids \in SUBSET StreamIds
      BY DEF ScheduleTyped
    <2>4. \A id \in Mapped :
              /\ id \in nextScheduleStreams => streams[id] \in added
              /\ id \in streamsToRemove => streams[id] \in removed
      OBVIOUS
    <2>5. \A fd \in added \cup removed : \E id \in Mapped :
              /\ fd = streams[id]
              /\ fd \in added => \E i \in Mapped \cap nextScheduleStreams : fd = streams[i]
              /\ fd \in removed => \E i \in Mapped \cap streamsToRemove : fd = streams[i]
      BY <1>4
    <2>6. \A id \in streamsToRemove : Deletable(endpoints[streams[id]]) => id \in ids
      OBVIOUS
    <2>7. RemoveStreams(ids) /\ app' \in Notified(added)
      BY <1>4
    <2> HIDE DEF added, removed, ids
    <2>8. \A id, i \in Mapped : streams[id] = streams[i] => id = i
      BY DEF MapsAgree, StreamsAgree
    <2>9. \A fd \in Fds : Gentle(endpoints[fd], endpoints'[fd])
      BY <2>1, HandlersAreGentle, GentleIsReflexive, EndpointFacts
    <2>10. /\ EndpointsTyped' /\ MapsTyped' /\ AppTyped' /\ MapsAgree' /\ StatusByKind'
           /\ PendingOnce' /\ ThreadsOwn' /\ HandlesLive' /\ PortsReleased'
           /\ Fds' = Fds /\ Mapped' = Mapped \ ids
           /\ \A id \in Mapped' : streams'[id] = streams[id] /\ streams[id] \in Fds
      <3>1. mac'.op # "addPending" /\ UNCHANGED <<servers, handles>>
        BY <1>1, <1>4
      <3> HIDE DEF IndInv, Typed, Consistent
      <3> QED BY <2>1, <2>2, <2>3, <2>7, <2>9, <3>1, MacMoves
    <2>11. ScheduleTyped' /\ MacTyped'
      BY <1>1, <1>4, <2>10 DEF ScheduleTyped, MacTyped
    <2>12. ASSUME NEW id \in Mapped', Status(id)' \in {"ACCEPT_WAIT", "ESTABLISHED"}
           PROVE  id \in nextScheduleStreams
      <3> SUFFICES ASSUME id \notin nextScheduleStreams PROVE FALSE
        OBVIOUS
      <3> DEFINE fd == streams[id]
      <3>1. id \in Mapped /\ id \notin ids /\ streams'[id] = fd /\ fd \in Fds /\ fd # 0
        BY <2>10, <2>12 DEF Mapped
      <3>2. Status(id)' = endpoints'[fd].status /\ Status(id) = endpoints[fd].status
        BY <3>1 DEF Status
      <3>3. endpoints[fd] \in Endpoint /\ Gentle(endpoints[fd], endpoints'[fd])
        BY <2>9, <3>1, EndpointFacts
      <3> HIDE DEF fd
      <3>4. fd \notin added
        BY <2>5, <2>8, <3>1 DEF fd
      <3>5. CASE id \in streamsToRemove
        <4>1. ~Deletable(endpoints[fd])
          BY <2>6, <3>1, <3>5 DEF fd
        <4>2. endpoints'[fd] = RemovedStream(endpoints[fd])
          BY <2>1, <2>4, <3>1, <3>4, <3>5 DEF fd
        <4>3. endpoints'[fd].status = "ACCEPT_WAIT"
          BY <2>12, <3>2, <3>3, <4>2, HandlersAreGentle
        <4> QED BY <3>3, <4>1, <4>3 DEF Gentle, MovesGently, GentleMoves, Deletable
      <3>6. CASE id \notin streamsToRemove
        <4>1. fd \notin removed
          BY <2>5, <2>8, <3>1, <3>6 DEF fd
        <4>2. endpoints'[fd] = endpoints[fd]
          BY <2>1, <3>1, <3>4, <4>1
        <4> QED BY <1>1, <2>12, <3>1, <3>2, <3>6, <4>2 DEF ScheduleAhead
      <3> QED BY <3>5, <3>6
    <2>13. ScheduleAhead'
      BY <1>4, <2>12 DEF ScheduleAhead
    <2> HIDE DEF IndInv
    <2>14. MacStep'
      BY <1>1, <1>4, IdleMacStep
    <2> QED BY <1>2, <2>10, <2>11, <2>13, <2>14 DEF IndInv
  <1> HIDE DEF IndInv, Typed, Consistent
  <1> QED BY <1>3, <1>4 DEF ApplySchedule

\* The master rejects a stream.
LEMMA StreamRejectStep ==
    ASSUME IndInv, StreamReject
    PROVE  IndInv'
  <1> USE DEF IndInv, Typed, Consistent
  <1>1. PICK id \in Outgoing \cap Mapped :
            /\ endpoints' = [endpoints EXCEPT ![streams[id]] = RejectedStream(endpoints[streams[id]])]
            /\ app' \in Notified({streams[id]})
    BY DEF StreamReject
  <1>2. PICK s : s = streams[id]
    OBVIOUS
  <1>3. /\ mac.op = "idle"
        /\ smesSent' \subseteq smesSent
        /\ UNCHANGED <<streams, servers, fdt, clientPorts, smeQueue, scheduleVars, mac,
                       desyncs, handles, masterTrusted>>
    BY DEF StreamReject, MacOnly
  <1>4. s \in Fds
    BY <1>2 DEF Mapped, MapsTyped
  <1>5. /\ endpoints' = [fd \in Fds |-> endpoints'[fd]]
        /\ \A fd \in Fds : endpoints'[fd] = IF fd = s THEN RejectedStream(endpoints[s])
                                            ELSE endpoints[fd]
    BY <1>1, <1>2, <1>4 DEF Fds, EndpointsTyped
  <1>6. \A fd \in Fds : Gentle(endpoints[fd], endpoints'[fd])
    BY <1>5, HandlersAreGentle, GentleIsReflexive, EndpointFacts
  <1>7. endpoints'[s].status \in {"ACCEPT_WAIT", "ESTABLISHED"} =>
            endpoints'[s].status = endpoints[s].status
    BY <1>4, <1>5, InStatusIs, EndpointFacts DEF RejectedStream, Switch, Statuses
  <1>8. /\ EndpointsTyped' /\ MapsTyped' /\ AppTyped' /\ MapsAgree' /\ StatusByKind'
        /\ PendingOnce' /\ ThreadsOwn' /\ HandlesLive' /\ PortsReleased'
        /\ Fds' = Fds /\ Mapped' = Mapped
        /\ \A i \in Mapped : streams'[i] = streams[i] /\ streams[i] \in Fds
    <2>1. app' \in Notified({s}) /\ mac'.op # "addPending"
          /\ UNCHANGED <<servers, handles, streams, fdt, clientPorts>>
      BY <1>1, <1>2, <1>3
    <2> HIDE DEF IndInv, Typed, Consistent
    <2> QED BY <1>5, <1>6, <2>1, MacMovesOnly
  <1>9. ScheduleTyped' /\ MacTyped' /\ SmesTyped'
    BY <1>3, <1>8 DEF ScheduleTyped, MacTyped, SmesTyped, scheduleVars
  <1>10. ScheduleAhead'
    <2>1. \A i \in Mapped : /\ Status(i)' = endpoints'[streams[i]].status
                            /\ Status(i) = endpoints[streams[i]].status
      BY <1>8 DEF Status, Mapped
    <2>2. \A fd \in Fds : endpoints'[fd].status \in {"ACCEPT_WAIT", "ESTABLISHED"} =>
              endpoints[fd].status \in {"ACCEPT_WAIT", "ESTABLISHED"}
      BY <1>5, <1>7
    <2> QED BY <1>3, <1>8, <2>1, <2>2, ScheduleKept DEF scheduleVars
  <1> HIDE DEF IndInv
  <1>11. MacStep'
    BY <1>3, IdleMacStep
  <1> QED BY <1>8, <1>9, <1>10, <1>11 DEF IndInv

\* The node loses the synchronization: nothing is established afterwards.
LEMMA DesyncStep ==
    ASSUME IndInv, Desync
    PROVE  IndInv'
  <1> USE DEF IndInv, Typed, Consistent
  <1> DEFINE told == {streams[id] : id \in Mapped}
             ids == {id \in Mapped : Deletable(endpoints[streams[id]])}
  <1>1. /\ mac' = [IdleMac EXCEPT !.op = "desync"]
        /\ endpoints' = [fd \in Fds |-> IF \E id \in Mapped : streams[id] = fd
                                    THEN DesyncedStream(endpoints[fd]) ELSE endpoints[fd]]
        /\ RemoveStreams(ids)
        /\ app' \in Notified(told)
        /\ scheduled' = {} /\ awaitsActivation' = FALSE /\ masterTrusted' = ~MasterChallenge
        /\ desyncs' = desyncs + 1
        /\ UNCHANGED <<servers, smeQueue, handles, streamsToRemove, nextScheduleStreams,
                       smesSent>>
    BY DEF Desync
  <1>2. \A id \in ids : id \in Mapped /\ Deletable(endpoints[streams[id]])
    OBVIOUS
  <1>3. ids \in SUBSET StreamIds
    BY DEF Mapped
  <1>4. \A id \in Mapped : Deletable(endpoints[streams[id]]) => id \in ids
    OBVIOUS
  <1> HIDE DEF told, ids
  <1>5. \A fd \in Fds : Gentle(endpoints[fd], endpoints'[fd])
    BY <1>1, HandlersAreGentle, GentleIsReflexive, EndpointFacts
  <1>6. /\ mac'.op = "desync" /\ mac'.todo = {} /\ mac'.fd = 0 /\ mac'.server = 0
        /\ mac' \in [op : {"idle", "setSchedule", "addPending", "desync", "crashed"},
                     todo : SUBSET StreamIds, fd : {0} \cup Fds, server : {0} \cup Fds]
    BY <1>1 DEF IdleMac
  <1>7. /\ EndpointsTyped' /\ MapsTyped' /\ AppTyped' /\ MapsAgree' /\ StatusByKind'
        /\ PendingOnce' /\ ThreadsOwn' /\ HandlesLive' /\ PortsReleased'
        /\ Fds' = Fds /\ Mapped' = Mapped \ ids
        /\ \A i \in Mapped' : streams'[i] = streams[i] /\ streams[i] \in Fds
    <2>1. endpoints' = [fd \in Fds |-> endpoints'[fd]]
      BY <1>1
    <2>2. RemoveStreams(ids) /\ app' \in Notified(told) /\ mac'.op # "addPending"
          /\ UNCHANGED <<servers, handles>>
      BY <1>1, <1>6
    <2> HIDE DEF IndInv, Typed, Consistent
    <2> QED BY <1>2, <1>3, <1>5, <2>1, <2>2, MacMoves
  <1>8. MacTyped' /\ SmesTyped'
    BY <1>1, <1>6, <1>7 DEF MacTyped, SmesTyped
  <1>9. ScheduleTyped'
    <2>1. desyncs' \in Nat
      BY <1>1 DEF ScheduleTyped
    <2>2. masterTrusted' \in BOOLEAN
      BY <1>1, Zenon
    <2>3. awaitsActivation' \in BOOLEAN
      BY <1>1, Zenon
    <2> QED BY <1>1, <2>1, <2>2, <2>3 DEF ScheduleTyped
  <1>10. MacStep'
    BY <1>6 DEF MacStep
  <1>11. ASSUME NEW id \in Mapped'
         PROVE  Status(id)' \notin {"ACCEPT_WAIT", "ESTABLISHED"}
    <2>1. id \in Mapped /\ id \notin ids /\ streams'[id] = streams[id] /\ streams[id] \in Fds
      BY <1>7
    <2>2. /\ endpoints'[streams[id]] = DesyncedStream(endpoints[streams[id]])
          /\ Status(id)' = endpoints'[streams[id]].status
          /\ endpoints[streams[id]] \in Endpoint
      BY <1>1, <2>1, EndpointFacts DEF Status, Mapped
    <2>3. ~Deletable(endpoints[streams[id]])
      BY <1>4, <2>1
    <2>4. /\ Gentle(endpoints[streams[id]], endpoints'[streams[id]])
          /\ endpoints'[streams[id]].status # "ESTABLISHED"
      BY <2>2, HandlersAreGentle
    <2> QED BY <2>2, <2>3, <2>4 DEF Deletable, Gentle, MovesGently, GentleMoves
  <1>12. ScheduleAhead'
    BY <1>1, <1>11 DEF ScheduleAhead
  <1> QED BY <1>7, <1>8, <1>9, <1>10, <1>12

\* The steps that touch neither endpoints nor threads.
LEMMA SetScheduleStep ==
    ASSUME IndInv, SetSchedule
    PROVE  IndInv'
  <1> USE DEF IndInv, Typed, Consistent
  <1>1. PICK ids \in SUBSET Schedulable :
            /\ streamsToRemove' = Mapped \ ids
            /\ nextScheduleStreams' = ids
            /\ mac' = IF ids \ Mapped = {} THEN IdleMac
                      ELSE [IdleMac EXCEPT !.op = "setSchedule", !.todo = ids \ Mapped]
    BY DEF SetSchedule
  <1>2. /\ mac.op = "idle" /\ ~awaitsActivation /\ awaitsActivation' = TRUE
        /\ UNCHANGED <<maps, smeQueue, app, scheduled, smesSent, desyncs, handles, masterTrusted>>
    BY DEF SetSchedule, MacOnly
  <1>3. ids \subseteq StreamIds /\ Mapped \subseteq StreamIds
    BY DEF Schedulable, Outgoing, Incoming, StreamIds, Mapped
  <1>4. /\ mac'.op \in {"idle", "setSchedule"}
        /\ mac'.todo = ids \ Mapped /\ (mac'.op = "idle" => mac'.todo = {})
        /\ mac' \in [op : {"idle", "setSchedule", "addPending", "desync", "crashed"},
                     todo : SUBSET StreamIds, fd : {0} \cup Fds, server : {0} \cup Fds]
    <2>1. CASE ids \ Mapped = {}
      BY <1>1, <2>1 DEF IdleMac
    <2>2. CASE ids \ Mapped # {}
      <3>1. mac' = [op |-> "setSchedule", todo |-> ids \ Mapped, fd |-> 0, server |-> 0]
        BY <1>1, <2>2 DEF IdleMac
      <3> QED BY <1>3, <3>1
    <2> QED BY <2>1, <2>2
  <1>5. /\ EndpointsTyped' /\ MapsTyped' /\ AppTyped' /\ MapsAgree' /\ StatusByKind'
        /\ PendingOnce' /\ ThreadsOwn' /\ HandlesLive' /\ PortsReleased'
        /\ Fds' = Fds /\ Mapped' = Mapped
    BY <1>2, <1>4, QuietStep
  <1>6. ScheduleTyped' /\ SmesTyped' /\ MacTyped'
    BY <1>1, <1>2, <1>3, <1>4, <1>5 DEF ScheduleTyped, SmesTyped, MacTyped
  <1>7. MacStep'
    BY <1>1, <1>2, <1>4, <1>5 DEF MacStep
  <1>8. ScheduleAhead'
    <2>1. \A id \in Mapped : Status(id)' = Status(id)
      BY <1>2 DEF Status, maps
    <2> QED BY <1>1, <1>2, <1>5, <2>1 DEF ScheduleAhead
  <1> QED BY <1>5, <1>6, <1>7, <1>8

\* The uplink takes the SMEs, a loss of synchronization clears them, the master is
\* trusted again.
LEMMA QuietMacStep ==
    ASSUME IndInv, DequeueSMEs \/ ClearSMEs \/ TrustMaster \/ UNCHANGED vars
    PROVE  IndInv'
  <1> USE DEF IndInv, Typed, Consistent
  <1>1. /\ UNCHANGED <<maps, app, handles>>
        /\ UNCHANGED <<streamsToRemove, nextScheduleStreams, scheduled, awaitsActivation, desyncs>>
        /\ masterTrusted' \in BOOLEAN
        /\ UNCHANGED mac \/ mac' = IdleMac
    BY DEF DequeueSMEs, ClearSMEs, TrustMaster, vars, scheduleVars, MacOnly, ScheduleTyped
  <1>2. UNCHANGED mac \/ mac'.op # "addPending"
    BY <1>1 DEF IdleMac
  <1>3. /\ EndpointsTyped' /\ MapsTyped' /\ AppTyped' /\ MapsAgree' /\ StatusByKind'
        /\ PendingOnce' /\ ThreadsOwn' /\ HandlesLive' /\ PortsReleased'
        /\ Fds' = Fds /\ Mapped' = Mapped
    BY <1>1, <1>2, QuietStep
  <1>4. ScheduleTyped'
    BY <1>1 DEF ScheduleTyped
  <1>5. SmesTyped'
    <2>1. CASE DequeueSMEs
      BY <2>1 DEF DequeueSMEs, SmesTyped
    <2>2. CASE ClearSMEs
      BY <2>2 DEF ClearSMEs, SmesTyped
    <2>3. CASE TrustMaster \/ UNCHANGED vars
      BY <2>3 DEF TrustMaster, vars, SmesTyped
    <2> QED BY <2>1, <2>2, <2>3
  <1>6. MacTyped' /\ MacStep'
    <2>1. CASE UNCHANGED mac
      BY <1>1, <1>3, <2>1 DEF MacTyped, MacStep, IsStream, Pending, maps
    <2>2. CASE mac' = IdleMac
      BY <1>3, <2>2 DEF MacTyped, MacStep, IdleMac
    <2> QED BY <1>1, <2>1, <2>2
  <1>7. ScheduleAhead'
    BY <1>1, <1>3 DEF ScheduleAhead, Status, maps
  <1> QED BY <1>3, <1>4, <1>5, <1>6, <1>7

\* The MAC thread adds a stream that waits to be accepted at a server that listens.
LEMMA AddToServerStep ==
    ASSUME IndInv, AddToServer
    PROVE  IndInv'
  <1> USE DEF IndInv, Typed, Consistent
  <1> DEFINE n == Len(endpoints) + 1
  <1>1. PICK id \in mac.todo :
            /\ mac.op = "setSchedule"
            /\ Listening(id.dstPort)
            /\ AddStream(id, "ACCEPT_WAIT")
            /\ mac' = [op |-> "addPending", todo |-> mac.todo \ {id},
                       fd |-> n, server |-> servers[id.dstPort]]
            /\ UNCHANGED <<servers, clientPorts, smeQueue, app, scheduleVars, smesSent, desyncs>>
            /\ UNCHANGED <<handles, masterTrusted>>
    BY DEF AddToServer, MacOnly
  <1> DEFINE e == NewEndpoint(id, "ACCEPT_WAIT")
  <1>2. /\ id \in StreamIds /\ streams[id] = 0 /\ id \in nextScheduleStreams /\ awaitsActivation
        /\ id.dstPort \in Ports /\ mac.todo \subseteq StreamIds
    <2>1. mac.todo \subseteq StreamIds
      BY DEF MacTyped
    <2> QED BY <1>1, <2>1, IdFacts DEF MacStep, Mapped
  <1>3. servers[id.dstPort] \in Fds /\ ~IsStream(servers[id.dstPort])
    BY <1>1, <1>2 DEF Listening, MapsTyped, MapsAgree, ServersAgree
  <1>4. e \in Endpoint /\ e.id = id /\ e.status = "ACCEPT_WAIT" /\ e.pendingAccept = <<>>
    BY <1>2, NewIs DEF Statuses
  <1>5. /\ endpoints' = Append(endpoints, e) /\ fdt' = fdt \cup {n}
        /\ streams' = [streams EXCEPT ![id] = n]
    BY <1>1 DEF AddStream
  <1> HIDE DEF e
  <1>6. /\ EndpointsTyped' /\ Fds' = Fds \cup {n}
        /\ \A fd \in Fds : endpoints'[fd] = endpoints[fd]
        /\ endpoints'[n] = e
    BY <1>4, <1>5, AppendedEndpoint
  <1>7. n \notin Fds /\ n # 0
    BY EndpointFacts
  <1> HIDE DEF n
  <1>8. SameKind
    BY <1>6 DEF SameKind
  <1>9. /\ streams' \in [StreamIds -> {0} \cup Fds'] /\ streams'[id] = n
        /\ \A i \in StreamIds : i # id => streams'[i] = streams[i]
    BY <1>2, <1>5, <1>6 DEF MapsTyped
  <1>10. /\ StreamsAgree' /\ Mapped' = Mapped \cup {id}
         /\ \A i \in Mapped : streams'[i] = streams[i] /\ i # id
    <2>1. n \in Fds' \ Fds /\ n \in fdt' /\ fdt \subseteq fdt' /\ StreamsAgree
          /\ endpoints'[n].id = id
      BY <1>4, <1>5, <1>6, <1>7 DEF MapsAgree
    <2>2. \A fd \in fdt' : fd \in fdt \/ fd = n \/ endpoints'[fd].id \notin StreamIds
      BY <1>5
    <2>3. EndpointsTyped /\ MapsTyped
      OBVIOUS
    <2> HIDE DEF IndInv, Typed, Consistent
    <2> QED BY <1>2, <1>7, <1>8, <1>9, <2>1, <2>2, <2>3, StreamAdded
  <1>11. ServersAgree'
    BY <1>1, <1>5, <1>8, ServersKept DEF MapsAgree
  <1>12. MapsTyped'
    BY <1>1, <1>5, <1>6, <1>9 DEF MapsTyped
  <1>13. PortsReleased'
    BY <1>1, <1>10 DEF PortsReleased
  <1>14. /\ StatusByKind' /\ PendingOnce' /\ HandlesLive'
         /\ \A fd \in Fds : Pending(fd)' = Pending(fd)
         /\ \A fd \in Fds' \ Fds : Pending(fd)' = {}
    BY <1>1, <1>2, <1>4, <1>6, GrowStep
  <1>15. AppTyped' /\ ScheduleTyped' /\ SmesTyped'
    BY <1>1, <1>6 DEF AppTyped, ScheduleTyped, SmesTyped, scheduleVars
  <1>16. /\ mac'.op = "addPending" /\ mac'.fd = n /\ mac'.server = servers[id.dstPort]
         /\ mac'.todo = mac.todo \ {id} /\ MacTyped'
    BY <1>1, <1>2, <1>3, <1>6 DEF MacTyped
  <1>17. MacStep'
    <2>1. mac'.todo \cap Mapped' = {} /\ mac'.todo \subseteq nextScheduleStreams'
      BY <1>1, <1>10, <1>16 DEF MacStep, scheduleVars
    <2>2. awaitsActivation'
      BY <1>1, <1>2 DEF scheduleVars
    <2>3. /\ mac'.fd \in Fds' /\ endpoints'[mac'.fd].id \in StreamIds
          /\ endpoints'[mac'.fd].status = "ACCEPT_WAIT"
          /\ mac'.server \in Fds' /\ endpoints'[mac'.server].id \notin StreamIds
      BY <1>2, <1>3, <1>4, <1>6, <1>16 DEF IsStream
    <2>4. \A fd \in Fds' : mac'.fd \notin Pending(fd)'
      BY <1>6, <1>7, <1>14, <1>16 DEF EndpointsTyped
    <2> QED BY <1>16, <2>1, <2>2, <2>3, <2>4 DEF MacStep, IsStream
  <1>18. ScheduleAhead'
    <2>1. \A i \in Mapped : Status(i)' = Status(i)
      BY <1>6, <1>10 DEF Status, Mapped, MapsTyped
    <2> QED BY <1>1, <1>2, <1>10, <2>1 DEF ScheduleAhead, scheduleVars
  <1>19. ASSUME NEW t \in Threads
         PROVE  StaysPut(t) /\ ServerStays(t) /\ StreamStays(t)
    <2>1. ThreadOwns(t)
      BY DEF ThreadsOwn
    <2>2. StaysPut(t)
      BY <1>1, <1>5, <1>6, <2>1, OwnersAreBusy DEF StaysPut, MovesGently
    <2>3. ServerStays(t)
      <3> SUFFICES ASSUME InListen(t) PROVE ServerStays(t)
        BY DEF ServerStays
      <3>1. servers[Of(t).id.dstPort] \in Fds /\ ListenOwns(t)
        BY <2>1, ListenedServer DEF ThreadOwns
      <3> QED BY <1>1, <1>6, <3>1 DEF ServerStays, ListenOwns
    <2>4. StreamStays(t)
      <3> SUFFICES ASSUME InAccept(t) PROVE StreamStays(t)
        BY DEF StreamStays
      <3>1. app[t].fd \in Fds /\ \A fd \in Fds : app[t].fd \notin Pending(fd)
        BY <2>1, OwnersAreBusy DEF ThreadOwns, AcceptOwns, Owns
      <3> QED BY <1>6, <1>7, <1>14, <1>16, <3>1 DEF StreamStays
    <2> QED BY <2>2, <2>3, <2>4
  <1>20. ThreadsOwn'
    BY <1>6, <1>19, ThreadsKept
  <1> QED BY <1>6, <1>10, <1>11, <1>12, <1>13, <1>14, <1>15, <1>16, <1>17, <1>18, <1>20
          DEF MapsAgree

\* A sequence with one element more at its end.
LEMMA Appended ==
    ASSUME NEW q \in Seq(Nat), NEW x \in Nat
    PROVE  /\ Append(q, x) \in Seq(Nat)
           /\ Len(q) \in Nat /\ DOMAIN q = 1 .. Len(q)
           /\ DOMAIN Append(q, x) = 1 .. Len(q) + 1
           /\ \A i \in 1 .. Len(q) + 1 :
                  Append(q, x)[i] = IF i = Len(q) + 1 THEN x ELSE q[i]
  <1>1. /\ Append(q, x) \in Seq(Nat) /\ Len(Append(q, x)) = Len(q) + 1
        /\ \A i \in 1 .. Len(q) : Append(q, x)[i] = q[i]
        /\ Append(q, x)[Len(q) + 1] = x
    BY AppendProperties
  <1>2. Len(q) \in Nat /\ DOMAIN q = 1 .. Len(q)
    OBVIOUS
  <1>3. DOMAIN Append(q, x) = 1 .. Len(q) + 1
    BY <1>1, <1>2
  <1>4. ASSUME NEW i \in 1 .. Len(q) + 1
        PROVE  Append(q, x)[i] = IF i = Len(q) + 1 THEN x ELSE q[i]
    <2>1. i \in 1 .. Len(q) \/ i = Len(q) + 1
      BY <1>2
    <2>2. i \in 1 .. Len(q) => i # Len(q) + 1
      BY <1>2
    <2> QED BY <1>1, <2>1, <2>2
  <1> QED BY <1>1, <1>2, <1>3, <1>4

\* The server gets the stream that waits to be accepted.
LEMMA AddPendingStep ==
    ASSUME IndInv, AddPendingStream
    PROVE  IndInv'
  <1> USE DEF IndInv, Typed, Consistent
  <1>0. PICK s, x : s = mac.server /\ x = mac.fd
    OBVIOUS
  <1> DEFINE q == endpoints[s].pendingAccept
             e == [endpoints[s] EXCEPT !.pendingAccept = Append(q, x)]
  <1>1. /\ mac.op = "addPending"
        /\ endpoints' = [endpoints EXCEPT ![s] = e]
        /\ app' \in Notified({s})
        /\ mac' = IF mac.todo = {} THEN IdleMac
                  ELSE [IdleMac EXCEPT !.op = "setSchedule", !.todo = mac.todo]
        /\ UNCHANGED <<streams, servers, fdt, clientPorts, smeQueue, scheduleVars, smesSent,
                       desyncs>>
        /\ UNCHANGED <<handles, masterTrusted>>
    BY <1>0 DEF AddPendingStream, MacOnly
  <1>2. /\ x \in Fds /\ IsStream(x) /\ endpoints[x].status = "ACCEPT_WAIT"
        /\ s \in Fds /\ ~IsStream(s) /\ \A fd \in Fds : x \notin Pending(fd)
        /\ awaitsActivation
    BY <1>0, <1>1 DEF MacStep
  <1>3. endpoints[s] \in Endpoint /\ q \in Seq(Nat) /\ x \in Nat /\ x # s
    BY <1>2, EndpointFacts DEF Endpoint
  <1>4. /\ Append(q, x) \in Seq(Nat)
        /\ Len(q) \in Nat /\ DOMAIN q = 1 .. Len(q)
        /\ DOMAIN Append(q, x) = 1 .. Len(q) + 1
        /\ \A i \in 1 .. Len(q) + 1 :
               Append(q, x)[i] = IF i = Len(q) + 1 THEN x ELSE q[i]
    BY <1>3, Appended
  <1>5. /\ e \in Endpoint /\ e.id = endpoints[s].id /\ e.status = endpoints[s].status
        /\ e.pendingAccept = Append(q, x)
    BY <1>3, <1>4 DEF Endpoint
  <1> HIDE DEF e
  <1>6. /\ Fds' = Fds /\ endpoints'[s] = e
        /\ \A fd \in Fds : fd # s => endpoints'[fd] = endpoints[fd]
    BY <1>1, <1>2 DEF Fds
  <1>7. endpoints' \in Seq(Endpoint)
    <2>1. endpoints \in Seq(Endpoint) /\ s \in 1 .. Len(endpoints)
      BY <1>2, EndpointFacts DEF EndpointsTyped
    <2>2. [endpoints EXCEPT ![s] = e] \in Seq(Endpoint)
      BY <1>5, <2>1, ExceptSeq
    <2> QED BY <1>1, <2>2
  <1>8. endpoints'[s].pendingAccept = Append(q, x)
    BY <1>5, <1>6
  <1>9. \A fd \in Fds : fd # s => Pending(fd)' = Pending(fd)
    BY <1>6 DEF Pending
  <1>10. \A g \in Pending(s)' : g \in Pending(s) \/ g = x
    <2> SUFFICES ASSUME NEW g \in Pending(s)' PROVE g \in Pending(s) \/ g = x
      OBVIOUS
    <2>1. PICK i \in DOMAIN endpoints'[s].pendingAccept : g = endpoints'[s].pendingAccept[i]
      BY DEF Pending
    <2>2. i \in 1 .. Len(q) + 1 /\ g = IF i = Len(q) + 1 THEN x ELSE q[i]
      <3> HIDE DEF q
      <3> QED BY <1>4, <1>8, <2>1
    <2>3. i = Len(q) + 1 \/ i \in DOMAIN q
      <3> HIDE DEF q
      <3> QED BY <1>4, <2>2
    <2> QED BY <2>2, <2>3 DEF Pending
  <1>11. \A i \in DOMAIN q : q[i] # x
    BY <1>2 DEF Pending
  <1>12. \A i, j \in DOMAIN q : q[i] = q[j] => i = j
    BY <1>2 DEF PendingOnce
  <1> HIDE DEF q
  <1>13. \A fd \in Fds : endpoints'[fd].id = endpoints[fd].id
                         /\ endpoints'[fd].status = endpoints[fd].status
    BY <1>2, <1>5, <1>6
  <1>14. SameKind /\ EndpointsTyped'
    <2>1. \A fd \in Fds : Pending(fd)' \subseteq Fds
      BY <1>2, <1>9, <1>10 DEF EndpointsTyped
    <2> QED BY <1>6, <1>7, <1>13, <2>1 DEF EndpointsTyped, SameKind
  <1>15. MapsTyped' /\ MapsAgree' /\ PortsReleased' /\ Mapped' = Mapped
    BY <1>1, <1>14, SameMaps
  <1>16. StatusByKind'
    BY <1>6, <1>13 DEF StatusByKind, IsStream
  <1>17. HandlesLive'
    BY <1>1, <1>13 DEF HandlesLive, AppTyped
  <1>18. PendingOnce'
    <2>1. ASSUME NEW fd \in Fds, NEW g \in Pending(fd)'
          PROVE  /\ ~IsStream(fd)' /\ IsStream(g)'
                 /\ endpoints'[fd].status # "CLOSE_WAIT" => endpoints'[g].status = "ACCEPT_WAIT"
      <3>1. CASE g \in Pending(fd)
        <4>1. g \in Fds
          BY <3>1 DEF EndpointsTyped
        <4> QED BY <1>13, <3>1, <4>1 DEF PendingOnce, IsStream
      <3>2. CASE fd = s /\ g = x
        BY <1>2, <1>13, <3>2 DEF IsStream
      <3> QED BY <1>9, <1>10, <2>1, <3>1, <3>2
    <2>2. ASSUME NEW fd \in Fds, NEW i \in DOMAIN endpoints'[fd].pendingAccept,
                 NEW j \in DOMAIN endpoints'[fd].pendingAccept,
                 endpoints'[fd].pendingAccept[i] = endpoints'[fd].pendingAccept[j]
          PROVE  i = j
      <3>1. CASE fd # s
        BY <1>6, <2>2, <3>1 DEF PendingOnce
      <3>2. CASE fd = s
        <4>1. /\ i \in 1 .. Len(q) + 1 /\ j \in 1 .. Len(q) + 1
              /\ Append(q, x)[i] = Append(q, x)[j]
          BY <1>4, <1>8, <2>2, <3>2
        <4>2. (i = Len(q) + 1 \/ i \in DOMAIN q) /\ (j = Len(q) + 1 \/ j \in DOMAIN q)
          BY <1>4, <4>1
        <4> QED BY <1>4, <1>11, <1>12, <4>1, <4>2
      <3> QED BY <3>1, <3>2
    <2>3. ASSUME NEW fd \in Fds, NEW gd \in Fds, fd # gd
          PROVE  Pending(fd)' \cap Pending(gd)' = {}
      <3>1. Pending(fd) \cap Pending(gd) = {}
        BY <2>3 DEF PendingOnce
      <3> QED BY <1>2, <1>9, <1>10, <2>3, <3>1
    <2> QED BY <1>6, <2>1, <2>2, <2>3 DEF PendingOnce
  <1>19. /\ app' \in [Threads -> [pc : Pcs, fd : {0} \cup Fds, signalled : BOOLEAN]]
         /\ \A t \in Threads : app'[t].pc = app[t].pc /\ app'[t].fd = app[t].fd
    BY <1>1, NotifiedKeeps
  <1>20. AppTyped' /\ ScheduleTyped' /\ SmesTyped'
    BY <1>1, <1>6, <1>19 DEF AppTyped, ScheduleTyped, SmesTyped, scheduleVars
  <1>21. /\ mac'.op \in {"idle", "setSchedule"} /\ mac'.todo = mac.todo
         /\ (mac'.op = "idle" => mac'.todo = {})
         /\ mac' \in [op : {"idle", "setSchedule", "addPending", "desync", "crashed"},
                      todo : SUBSET StreamIds, fd : {0} \cup Fds, server : {0} \cup Fds]
    <2>1. CASE mac.todo = {}
      BY <1>1, <2>1 DEF IdleMac
    <2>2. CASE mac.todo # {}
      <3>1. mac' = [op |-> "setSchedule", todo |-> mac.todo, fd |-> 0, server |-> 0]
        BY <1>1, <2>2 DEF IdleMac
      <3> QED BY <3>1 DEF MacTyped
    <2> QED BY <2>1, <2>2
  <1>22. MacTyped' /\ MacStep'
    BY <1>1, <1>2, <1>6, <1>15, <1>21 DEF MacTyped, MacStep, scheduleVars
  <1>23. ScheduleAhead'
    <2>1. \A i \in Mapped : Status(i)' = Status(i)
      BY <1>1, <1>13 DEF Status, Mapped, MapsTyped
    <2> QED BY <1>1, <1>15, <2>1 DEF ScheduleAhead, scheduleVars
  <1>24. ASSUME NEW t \in Threads
         PROVE  StaysPut(t) /\ ServerStays(t) /\ StreamStays(t)
    <2>1. ThreadOwns(t)
      BY DEF ThreadsOwn
    <2>2. StaysPut(t)
      BY <1>1, <1>13, <1>19, <2>1, OwnersAreBusy DEF StaysPut, MovesGently
    <2>3. ServerStays(t)
      <3> SUFFICES ASSUME InListen(t) PROVE ServerStays(t)
        BY DEF ServerStays
      <3>1. servers[Of(t).id.dstPort] \in Fds /\ ListenOwns(t)
        BY <2>1, ListenedServer DEF ThreadOwns
      <3> QED BY <1>1, <1>13, <3>1 DEF ServerStays, ListenOwns
    <2>4. StreamStays(t)
      BY <1>0, <1>1, <1>6, <1>9, <1>10, <1>21, <2>1 DEF StreamStays, ThreadOwns, AcceptOwns
    <2> QED BY <2>2, <2>3, <2>4
  <1>25. ThreadsOwn'
    BY <1>6, <1>24, ThreadsKept
  <1> QED BY <1>14, <1>15, <1>16, <1>17, <1>18, <1>20, <1>22, <1>23, <1>25

\* The MAC thread adds a stream that nobody listens for, and a server, both closed.
LEMMA AddClosedStep ==
    ASSUME IndInv, AddClosed
    PROVE  IndInv'
  <1> USE DEF IndInv, Typed, Consistent
  <1> DEFINE n == Len(endpoints) + 1
             m == Len(endpoints) + 2
  <1>1. PICK id \in mac.todo :
            /\ mac.op = "setSchedule"
            /\ endpoints' = endpoints \o <<NewEndpoint(id, "CLOSE_WAIT"),
                                           NewEndpoint(GetServerId(id), "CLOSE_WAIT")>>
            /\ streams' = [streams EXCEPT ![id] = n]
            /\ servers' = [servers EXCEPT ![id.dstPort] = m]
            /\ fdt' = fdt \cup {n, m}
            /\ EnqueueSMEs({id, GetServerId(id)}, "CLOSED")
            /\ mac' = IF mac.todo = {id} THEN IdleMac ELSE [mac EXCEPT !.todo = @ \ {id}]
            /\ UNCHANGED <<clientPorts, app, scheduleVars, smesSent, desyncs>>
            /\ UNCHANGED <<handles, masterTrusted>>
    BY DEF AddClosed, MacOnly
  <1> DEFINE e == NewEndpoint(id, "CLOSE_WAIT")
             f == NewEndpoint(GetServerId(id), "CLOSE_WAIT")
             p == id.dstPort
  <1>2. /\ id \in StreamIds /\ streams[id] = 0 /\ awaitsActivation
        /\ p \in Ports /\ GetServerId(id) \in ServerIds /\ GetServerId(id).dstPort = p
        /\ GetServerId(id) \notin StreamIds
    <2>1. mac.todo \subseteq StreamIds
      BY DEF MacTyped
    <2> QED BY <1>1, <2>1, IdFacts DEF MacStep, Mapped
  <1>3. /\ e \in Endpoint /\ e.id = id /\ e.status = "CLOSE_WAIT" /\ e.pendingAccept = <<>>
        /\ f \in Endpoint /\ f.id = GetServerId(id) /\ f.status = "CLOSE_WAIT"
        /\ f.pendingAccept = <<>>
    BY <1>2, NewIs DEF Statuses
  <1>4. endpoints' = endpoints \o <<e, f>>
    BY <1>1
  <1> HIDE DEF e, f
  <1>5. /\ EndpointsTyped' /\ Fds' = Fds \cup {n, m}
        /\ \A fd \in Fds : endpoints'[fd] = endpoints[fd]
        /\ endpoints'[n] = e /\ endpoints'[m] = f
    BY <1>3, <1>4, AppendedTwo
  <1>6. n \notin Fds /\ n # 0 /\ m \notin Fds /\ m # 0 /\ m # n
    BY EndpointFacts
  <1> HIDE DEF n, m, p
  <1>7. SameKind
    BY <1>5 DEF SameKind
  <1>8. /\ streams' \in [StreamIds -> {0} \cup Fds'] /\ streams'[id] = n
        /\ \A i \in StreamIds : i # id => streams'[i] = streams[i]
    BY <1>1, <1>2, <1>5 DEF MapsTyped
  <1>9. n \in fdt' /\ m \in fdt' /\ fdt \subseteq fdt'
    BY <1>1
  <1>10. /\ StreamsAgree' /\ Mapped' = Mapped \cup {id}
         /\ \A i \in Mapped : streams'[i] = streams[i] /\ i # id
    <2>1. n \in Fds' \ Fds /\ endpoints'[n].id = id /\ StreamsAgree
      BY <1>3, <1>5, <1>6 DEF MapsAgree
    <2>2. \A fd \in fdt' : fd \in fdt \/ fd = n \/ endpoints'[fd].id \notin StreamIds
      BY <1>1, <1>2, <1>3, <1>5
    <2>3. EndpointsTyped /\ MapsTyped
      OBVIOUS
    <2> HIDE DEF IndInv, Typed, Consistent
    <2> QED BY <1>2, <1>6, <1>7, <1>8, <1>9, <2>1, <2>2, <2>3, StreamAdded
  <1>11. /\ ServersAgree' /\ servers' \in [Ports -> {0} \cup Fds'] /\ servers'[p] = m
         /\ \A q \in Ports : q # p => servers'[q] = servers[q]
    <2>1. m \in Fds' \ Fds /\ endpoints'[m].id \in ServerIds /\ endpoints'[m].id.dstPort = p
      BY <1>2, <1>3, <1>5, <1>6
    <2>2. MapsTyped /\ ServersAgree /\ servers' = [servers EXCEPT ![p] = m]
      BY <1>1 DEF MapsAgree, p
    <2> HIDE DEF IndInv, Typed, Consistent
    <2> QED BY <1>2, <1>7, <1>9, <2>1, <2>2, ServerAdded
  <1>12. MapsTyped'
    BY <1>1, <1>5, <1>8, <1>11 DEF MapsTyped
  <1>13. PortsReleased'
    BY <1>1, <1>10 DEF PortsReleased
  <1>14. /\ StatusByKind' /\ PendingOnce' /\ HandlesLive'
         /\ \A fd \in Fds : Pending(fd)' = Pending(fd)
         /\ \A fd \in Fds' \ Fds : Pending(fd)' = {}
    BY <1>1, <1>2, <1>3, <1>5, GrowStep
  <1>15. AppTyped' /\ ScheduleTyped'
    BY <1>1, <1>5 DEF AppTyped, ScheduleTyped, scheduleVars
  <1>16. SmesTyped'
    BY <1>1, SmesQueued DEF SmeTypes
  <1>17. /\ mac'.op \in {"idle", "setSchedule"} /\ mac'.todo = mac.todo \ {id}
         /\ (mac'.op = "idle" => mac'.todo = {}) /\ MacTyped'
    BY <1>1, <1>5 DEF MacTyped, IdleMac
  <1>18. MacStep'
    BY <1>1, <1>2, <1>10, <1>17 DEF MacStep, scheduleVars
  <1>19. ScheduleAhead'
    <2>1. \A i \in Mapped : Status(i)' = Status(i)
      BY <1>5, <1>10 DEF Status, Mapped, MapsTyped
    <2>2. Status(id)' = "CLOSE_WAIT"
      BY <1>3, <1>5, <1>6, <1>8 DEF Status
    <2> QED BY <1>1, <1>10, <2>1, <2>2, ScheduleKept DEF scheduleVars
  <1>20. ASSUME NEW t \in Threads
         PROVE  StaysPut(t) /\ ServerStays(t) /\ StreamStays(t)
    <2>1. ThreadOwns(t)
      BY DEF ThreadsOwn
    <2>2. StaysPut(t)
      BY <1>1, <1>5, <1>9, <2>1, OwnersAreBusy DEF StaysPut, MovesGently
    <2>3. ServerStays(t)
      <3> SUFFICES ASSUME InListen(t) PROVE ServerStays(t)
        BY DEF ServerStays
      <3>1. /\ servers[Of(t).id.dstPort] \in Fds /\ ListenOwns(t)
            /\ Of(t).id.dstPort \in Ports /\ app[t].fd \in Fds
        BY <2>1, ListenedServer DEF ThreadOwns
      <3>2. CASE Of(t).id.dstPort = p
        BY <1>3, <1>5, <1>6, <1>11, <3>2 DEF ServerStays
      <3>3. CASE Of(t).id.dstPort # p
        BY <1>5, <1>11, <3>1, <3>3 DEF ServerStays, ListenOwns
      <3> QED BY <3>2, <3>3
    <2>4. StreamStays(t)
      <3> SUFFICES ASSUME InAccept(t) PROVE StreamStays(t)
        BY DEF StreamStays
      <3>1. app[t].fd \in Fds /\ \A fd \in Fds : app[t].fd \notin Pending(fd)
        BY <2>1, OwnersAreBusy DEF ThreadOwns, AcceptOwns, Owns
      <3> QED BY <1>14, <1>17, <3>1 DEF StreamStays
    <2> QED BY <2>2, <2>3, <2>4
  <1>21. ThreadsOwn'
    BY <1>5, <1>20, ThreadsKept
  <1> QED BY <1>5, <1>10, <1>11, <1>12, <1>13, <1>14, <1>15, <1>16, <1>17, <1>18, <1>19, <1>21
          DEF MapsAgree

\* The master opens or closes a server that the node has ...
LEMMA ServerToldStep ==
    ASSUME IndInv, NEW port \in Ports, NEW opened \in BOOLEAN, ServerInfo(port, opened),
           servers[port] # 0
    PROVE  IndInv'
  <1> USE DEF IndInv, Typed, Consistent
  <1>0. PICK s : s = servers[port]
    OBVIOUS
  <1>1. /\ mac.op = "idle"
        /\ endpoints' = [endpoints EXCEPT ![s] = IF opened THEN AcceptedServer(endpoints[s])
                                                 ELSE RejectedServer(endpoints[s])]
        /\ app' \in Notified({s})
        /\ UNCHANGED <<servers, fdt, smeQueue, streams, clientPorts, scheduleVars, mac,
                       smesSent, desyncs, handles, masterTrusted>>
    BY <1>0 DEF ServerInfo, MacOnly
  <1>2. s \in Fds /\ ~IsStream(s)
    BY <1>0 DEF MapsTyped, MapsAgree, ServersAgree
  <1>3. /\ endpoints' = [fd \in Fds |-> endpoints'[fd]]
        /\ \A fd \in Fds : endpoints'[fd] =
               IF fd = s THEN IF opened THEN AcceptedServer(endpoints[s])
                              ELSE RejectedServer(endpoints[s])
               ELSE endpoints[fd]
    BY <1>1, <1>2 DEF Fds, EndpointsTyped
  <1>4. \A fd \in Fds : Gentle(endpoints[fd], endpoints'[fd])
    <2>1. \A fd \in Fds : fd # s => Gentle(endpoints[fd], endpoints'[fd])
      BY <1>3, GentleIsReflexive, EndpointFacts
    <2>2. Gentle(endpoints[s], endpoints'[s])
      BY <1>2, <1>3, HandlersAreGentle, EndpointFacts
    <2> QED BY <2>1, <2>2
  <1>5. /\ EndpointsTyped' /\ MapsTyped' /\ AppTyped' /\ MapsAgree' /\ StatusByKind'
        /\ PendingOnce' /\ ThreadsOwn' /\ HandlesLive' /\ PortsReleased'
        /\ Fds' = Fds /\ Mapped' = Mapped
        /\ \A i \in Mapped : streams'[i] = streams[i] /\ streams[i] \in Fds
    <2>1. app' \in Notified({s}) /\ mac'.op # "addPending"
          /\ UNCHANGED <<servers, handles, streams, fdt, clientPorts>>
      BY <1>1
    <2> HIDE DEF IndInv, Typed, Consistent
    <2> QED BY <1>3, <1>4, <2>1, MacMovesOnly
  <1>6. ScheduleTyped' /\ MacTyped' /\ SmesTyped'
    BY <1>1, <1>5 DEF ScheduleTyped, MacTyped, SmesTyped, scheduleVars
  <1>7. ScheduleAhead'
    <2>1. \A i \in Mapped : streams[i] # s
      BY <1>2 DEF MapsAgree, StreamsAgree, IsStream, Mapped
    <2>2. \A i \in Mapped : Status(i)' = Status(i)
      BY <1>3, <1>5, <2>1 DEF Status
    <2> QED BY <1>1, <1>5, <2>2, ScheduleKept DEF scheduleVars
  <1> HIDE DEF IndInv
  <1>8. MacStep'
    BY <1>1, IdleMacStep
  <1> QED BY <1>5, <1>6, <1>7, <1>8 DEF IndInv

\* ... or one that it has not, and makes to close it.
LEMMA ServerMadeStep ==
    ASSUME IndInv, NEW port \in Ports, NEW opened \in BOOLEAN, ServerInfo(port, opened),
           servers[port] = 0
    PROVE  IndInv'
  <1> USE DEF IndInv, Typed, Consistent
  <1> DEFINE n == Len(endpoints) + 1
             id == StreamId(Me, Me, 0, port)
             e == NewEndpoint(id, "CLOSE_WAIT")
  <1>1. /\ mac.op = "idle"
        /\ AddServer(id, "CLOSE_WAIT")
        /\ EnqueueSMEs({id}, "CLOSED")
        /\ UNCHANGED <<app, streams, clientPorts, scheduleVars, mac, smesSent, desyncs,
                       handles, masterTrusted>>
    BY DEF ServerInfo, MacOnly
  <1>2. id \in ServerIds /\ id \notin StreamIds /\ id.dstPort = port
    BY IdFacts
  <1>3. e \in Endpoint /\ e.id = id /\ e.status = "CLOSE_WAIT" /\ e.pendingAccept = <<>>
    BY <1>2, NewIs DEF Statuses
  <1>4. /\ endpoints' = Append(endpoints, e)
        /\ servers' = [servers EXCEPT ![port] = n] /\ fdt' = fdt \cup {n}
    BY <1>1, <1>2 DEF AddServer
  <1> HIDE DEF id, e
  <1>5. /\ EndpointsTyped' /\ Fds' = Fds \cup {n}
        /\ \A fd \in Fds : endpoints'[fd] = endpoints[fd]
        /\ endpoints'[n] = e
    BY <1>3, <1>4, AppendedEndpoint
  <1>6. n \notin Fds /\ n # 0
    BY EndpointFacts
  <1> HIDE DEF n
  <1>7. SameKind
    BY <1>5 DEF SameKind
  <1>8. StreamsAgree' /\ Mapped' = Mapped
    BY <1>1, <1>2, <1>3, <1>4, <1>5, <1>7, StreamsKept DEF MapsAgree
  <1>9. /\ ServersAgree' /\ servers' \in [Ports -> {0} \cup Fds'] /\ servers'[port] = n
        /\ \A q \in Ports : q # port => servers'[q] = servers[q]
    BY <1>2, <1>3, <1>4, <1>5, <1>6, <1>7, ServerAdded DEF MapsAgree
  <1>10. MapsTyped'
    BY <1>1, <1>4, <1>5, <1>9 DEF MapsTyped
  <1>11. PortsReleased'
    BY <1>1, <1>8 DEF PortsReleased
  <1>12. /\ StatusByKind' /\ PendingOnce' /\ HandlesLive'
         /\ \A fd \in Fds : Pending(fd)' = Pending(fd)
         /\ \A fd \in Fds' \ Fds : Pending(fd)' = {}
    BY <1>1, <1>2, <1>3, <1>5, GrowStep
  <1>13. AppTyped' /\ ScheduleTyped' /\ MacTyped'
    BY <1>1, <1>5 DEF AppTyped, ScheduleTyped, MacTyped, scheduleVars
  <1>14. SmesTyped'
    BY <1>1, SmesQueued DEF SmeTypes
  <1>15. ScheduleAhead'
    <2>1. \A i \in Mapped : Status(i)' = Status(i)
      BY <1>1, <1>5 DEF Status, Mapped, MapsTyped
    <2> QED BY <1>1, <1>8, <2>1, ScheduleKept DEF scheduleVars
  <1>16. ASSUME NEW t \in Threads
         PROVE  StaysPut(t) /\ ServerStays(t) /\ StreamStays(t)
    <2>1. ThreadOwns(t)
      BY DEF ThreadsOwn
    <2>2. StaysPut(t)
      BY <1>1, <1>4, <1>5, <2>1, OwnersAreBusy DEF StaysPut, MovesGently
    <2>3. ServerStays(t)
      <3> SUFFICES ASSUME InListen(t) PROVE ServerStays(t)
        BY DEF ServerStays
      <3>1. /\ servers[Of(t).id.dstPort] \in Fds /\ ListenOwns(t)
            /\ Of(t).id.dstPort \in Ports /\ app[t].fd \in Fds
        BY <2>1, ListenedServer DEF ThreadOwns
      <3>2. Of(t).id.dstPort # port
        BY <3>1 DEF ListenOwns
      <3> QED BY <1>5, <1>9, <3>1, <3>2 DEF ServerStays, ListenOwns
    <2>4. StreamStays(t)
      <3> SUFFICES ASSUME InAccept(t) PROVE StreamStays(t)
        BY DEF StreamStays
      <3>1. app[t].fd \in Fds /\ \A fd \in Fds : app[t].fd \notin Pending(fd)
        BY <2>1, OwnersAreBusy DEF ThreadOwns, AcceptOwns, Owns
      <3> QED BY <1>1, <1>12, <3>1 DEF StreamStays
    <2> QED BY <2>2, <2>3, <2>4
  <1>17. ThreadsOwn'
    BY <1>5, <1>16, ThreadsKept
  <1>18. MacStep'
    BY <1>1, <1>8 DEF MacStep
  <1> QED BY <1>5, <1>8, <1>9, <1>10, <1>11, <1>12, <1>13, <1>14, <1>15, <1>17, <1>18
          DEF MapsAgree

-----------------------------------------------------------------------------
(***************************************************************************)
(* The theorems.                                                           *)
(***************************************************************************)
LEMMA InitHolds == Init => IndInv
  <1> SUFFICES ASSUME Init PROVE IndInv
    OBVIOUS
  <1> USE DEF Init
  <1>1. Fds = {} /\ Mapped = {}
    BY DEF Fds, Mapped
  <1>2. EndpointsTyped /\ MapsTyped
    BY <1>1 DEF EndpointsTyped, MapsTyped
  <1>3. ScheduleTyped
    <2>1. masterTrusted \in BOOLEAN /\ awaitsActivation \in BOOLEAN
      BY Zenon
    <2> QED BY <2>1 DEF ScheduleTyped
  <1>4. SmesTyped /\ MacTyped
    BY DEF SmesTyped, MacTyped, IdleMac
  <1>5. AppTyped
    BY DEF AppTyped, IdleApp, Pcs
  <1>6. MapsAgree /\ StatusByKind /\ PendingOnce
    BY <1>1 DEF MapsAgree, StreamsAgree, ServersAgree, StatusByKind, PendingOnce
  <1>7. MacStep
    BY DEF MacStep, IdleMac
  <1>8. ScheduleAhead /\ HandlesLive /\ PortsReleased
    BY <1>1 DEF ScheduleAhead, HandlesLive, PortsReleased
  <1>9. ThreadsOwn
    <2>1. \A t \in Threads : app[t].pc = "idle"
      BY DEF IdleApp
    <2> QED BY <2>1 DEF ThreadsOwn, ThreadOwns, Apart, Owns, InConnect, InListen, InAccept, InServer,
            InClose, ConnectOwns, ListenOwns, AcceptOwns, CloseOwns
  <1> QED BY <1>2, <1>3, <1>4, <1>5, <1>6, <1>7, <1>8, <1>9 DEF IndInv, Typed, Consistent

LEMMA StepKeeps == IndInv /\ [Next]_vars => IndInv'
  <1> SUFFICES ASSUME IndInv, [Next]_vars PROVE IndInv'
    OBVIOUS
  <1>1. ASSUME NEW t \in Threads, AppStep(t)
        PROVE  IndInv'
    BY <1>1, ConnectEnterStep, ConnectStep, LeaveOwnStep, ListenEnterStep, ListenStep,
       ListenFailStep, AcceptStep, AcceptLoopStep, AcceptFindStep, AcceptDoneStep, CloseStep,
       CloseEndpointStep DEF AppStep
  <1>2. CASE MacContinue
    BY <1>2, AddToServerStep, AddPendingStep, AddClosedStep, QuietMacStep DEF MacContinue
  <1>3. CASE Tick \/ SetSchedule \/ ApplySchedule \/ StreamReject \/ Desync
    BY <1>3, TickStep, SetScheduleStep, ApplyScheduleStep, StreamRejectStep, DesyncStep
  <1>4. ASSUME NEW port \in Ports, NEW opened \in BOOLEAN, ServerInfo(port, opened)
        PROVE  IndInv'
    BY <1>4, ServerToldStep, ServerMadeStep
  <1>5. CASE DequeueSMEs \/ TrustMaster \/ UNCHANGED vars
    BY <1>5, QuietMacStep
  <1> QED BY <1>1, <1>2, <1>3, <1>4, <1>5 DEF Next

\* The maps, the endpoints, the threads, the handles and the schedule stay consistent,
\* whatever the threads, the MAC thread and the master do.
THEOREM Invariance == Spec => []IndInv
  <1>1. Init => IndInv
    BY InitHolds
  <1>2. IndInv /\ [Next]_vars => IndInv'
    BY StepKeeps
  <1> QED BY <1>1, <1>2, PTL DEF Spec

\* Endpoints, maps, queues, threads and handles keep their types.
THEOREM TypeCorrect == Spec => []TypeOK
  <1>1. IndInv => TypeOK
    <2> SUFFICES ASSUME IndInv PROVE TypeOK
      OBVIOUS
    <2> USE DEF IndInv, Typed
    <2>1. ASSUME NEW fd \in Fds
          PROVE  /\ endpoints[fd].id \in StreamIds \cup ServerIds
                 /\ endpoints[fd].status \in Statuses
                 /\ endpoints[fd].smeTimeout \in 0 .. SmeTimeoutMax
                 /\ endpoints[fd].failTimeout \in 1 .. FailTimeoutMax
                 /\ \A i \in DOMAIN endpoints[fd].pendingAccept :
                        endpoints[fd].pendingAccept[i] \in Fds
      <3>1. endpoints[fd] \in Endpoint
        BY EndpointFacts
      <3> QED BY <3>1 DEF Endpoint, EndpointsTyped, Pending
    <2>2. /\ streams \in [StreamIds -> {0} \cup Fds]
          /\ servers \in [Ports -> {0} \cup Fds]
          /\ fdt \subseteq Fds
          /\ clientPorts \in [Ports -> BOOLEAN]
      BY DEF MapsTyped
    <2> QED BY <2>1, <2>2 DEF TypeOK, ScheduleTyped, SmesTyped, MacTyped, AppTyped, Pcs
  <1> QED BY <1>1, Invariance, PTL

\* A stream that the application sees as established is in the schedule that the node
\* has applied or is about to apply.
THEOREM Scheduled == Spec => []EstablishedIsScheduled
  <1>1. IndInv => EstablishedIsScheduled
    BY DEF IndInv, Consistent, ScheduleAhead, EstablishedIsScheduled, Status, Mapped
  <1> QED BY <1>1, Invariance, PTL

\* A client port is in use only while a stream has it.
THEOREM PortsFreed == Spec => []PortsReleased
  <1>1. IndInv => PortsReleased
    BY DEF IndInv, Consistent
  <1> QED BY <1>1, Invariance, PTL

\* The maps lose nothing but what the two removals of the application threads, the
\* schedule and the loss of synchronization take out.
LEMMA MapsGrow ==
    ASSUME IndInv, [Next]_vars, ~ApplySchedule, ~Desync,
           \A t \in Threads : ~ConnectFail(t) /\ ~CloseRemove(t) /\ ~ListenFail(t)
    PROVE  fdt \subseteq fdt' /\ \A id \in Mapped : streams'[id] # 0
  <1> USE DEF IndInv, Typed, Consistent
  <1>1. Len(endpoints) + 1 # 0
    BY EndpointFacts
  <1>2. \A id \in Mapped : streams[id] # 0
    BY DEF Mapped
  <1>3. CASE UNCHANGED <<streams, fdt>>
    BY <1>2, <1>3
  <1>4. ASSUME NEW i, streams' = [streams EXCEPT ![i] = Len(endpoints) + 1], fdt \subseteq fdt'
        PROVE  fdt \subseteq fdt' /\ \A id \in Mapped : streams'[id] # 0
    <2>1. \A id \in Mapped : streams'[id] = streams[id] \/ streams'[id] = Len(endpoints) + 1
      BY <1>4 DEF MapsTyped, Mapped
    <2> QED BY <1>1, <1>2, <1>4, <2>1
  <1>5. CASE UNCHANGED streams /\ fdt \subseteq fdt'
    BY <1>2, <1>5
  <1>6. ASSUME NEW t \in Threads, AppStep(t)
        PROVE  fdt \subseteq fdt' /\ \A id \in Mapped : streams'[id] # 0
    <2>1. CASE Connect(t)
      BY <1>4, <2>1 DEF Connect, AddStream
    <2>2. CASE Listen(t)
      BY <1>5, <2>2 DEF Listen, AddServer
    <2>3. CASE ~Connect(t) /\ ~Listen(t)
      BY <1>3, <1>6, <2>3 DEF AppStep, ConnectRequest, ConnectWake, ListenRequest, ListenWake,
          Accept, AcceptLoop, AcceptFind, AcceptDone, Close, CloseEndpoint, maps
    <2> QED BY <2>1, <2>2, <2>3
  <1>7. CASE AddToServer
    BY <1>4, <1>7 DEF AddToServer, AddStream
  <1>8. CASE AddClosed
    BY <1>4, <1>8 DEF AddClosed
  <1>9. CASE Tick \/ DequeueSMEs \/ SetSchedule \/ StreamReject \/ TrustMaster
             \/ AddPendingStream \/ ClearSMEs \/ UNCHANGED vars
    BY <1>3, <1>9 DEF Tick, DequeueSMEs, SetSchedule, StreamReject, TrustMaster, AddPendingStream,
        ClearSMEs, vars, maps
  <1>10. ASSUME NEW port \in Ports, NEW opened \in BOOLEAN, ServerInfo(port, opened)
         PROVE  fdt \subseteq fdt' /\ \A id \in Mapped : streams'[id] # 0
    BY <1>5, <1>10 DEF ServerInfo, AddServer
  <1> HIDE DEF IndInv, Typed, Consistent
  <1> QED BY <1>6, <1>7, <1>8, <1>9, <1>10 DEF Next, MacContinue

\* What the application has the handle of is not taken out of the table.
LEMMA HandlesKept ==
    ASSUME IndInv, [Next]_vars, NEW fd \in handles, fd \in fdt
    PROVE  fd \in fdt'
  <1> USE DEF IndInv, Typed, Consistent
  <1>1. fd \in Fds /\ endpoints[fd].status \in OwnStatuses \cup {"LISTEN"} /\ fd # 0
    BY EndpointFacts DEF HandlesLive, AppTyped
  <1>2. ASSUME NEW ids, RemoveStreams(ids),
               \A id \in ids \cap Mapped : streams[id] # fd
        PROVE  fd \in fdt'
    BY <1>2 DEF RemoveStreams
  <1>3. \A id \in Mapped : Deletable(endpoints[streams[id]]) => streams[id] # fd
    BY <1>1 DEF Deletable, OwnStatuses
  <1>4. ASSUME NEW t \in Threads, ConnectFail(t) \/ CloseRemove(t)
        PROVE  fd \in fdt'
    <2>1. app[t].fd # fd /\ streams[Of(t).id] = app[t].fd /\ RemoveStreams({Of(t).id})
      BY <1>4, LeavesOwn
    <2> HIDE DEF IndInv, Typed, Consistent
    <2> QED BY <1>2, <2>1
  <1>5. ASSUME NEW t \in Threads, ListenFail(t)
        PROVE  fd \in fdt'
    <2>1. InListen(t) /\ Owns(t) /\ ThreadOwns(t)
      BY <1>5 DEF ListenFail, InListen, Owns, ThreadsOwn
    <2>2. \/ servers[Of(t).id.dstPort] = app[t].fd
          \/ endpoints[servers[Of(t).id.dstPort]].status = "CLOSE_WAIT"
      BY <2>1 DEF ThreadOwns, ListenOwns
    <2>3. servers[Of(t).id.dstPort] # fd
      BY <1>1, <2>1, <2>2 DEF ThreadOwns, OwnStatuses
    <2>4. fdt' = fdt \ {servers[Of(t).id.dstPort]}
      BY <1>5 DEF ListenFail, RemoveServer
    <2> QED BY <2>3, <2>4
  <1>6. CASE ApplySchedule
    <2>1. CASE UNCHANGED fdt
      BY <2>1
    <2>2. CASE RemoveStreams({id \in streamsToRemove : Deletable(endpoints[streams[id]])})
      BY <1>2, <1>3, <2>2
    <2> QED BY <1>6, <2>1, <2>2 DEF ApplySchedule, maps
  <1>7. CASE Desync
    BY <1>2, <1>3, <1>7 DEF Desync
  <1>8. CASE /\ ~ApplySchedule /\ ~Desync
             /\ \A t \in Threads : ~ConnectFail(t) /\ ~CloseRemove(t) /\ ~ListenFail(t)
    BY <1>8, MapsGrow
  <1> HIDE DEF IndInv, Typed, Consistent
  <1> QED BY <1>4, <1>5, <1>6, <1>7, <1>8

\* A call returns the handle of an endpoint that is open, or, accept(), of a stream that
\* was removed meanwhile.
LEMMA HandlesGiven ==
    ASSUME IndInv, [Next]_vars, NEW fd \in handles', fd \notin handles
    PROVE  /\ fdt' = fdt
           /\ fd \in fdt \/ endpoints[fd].status = "ACCEPT_WAIT"
  <1> USE DEF IndInv, Typed, Consistent
  <1>1. PICK t \in Threads : AppStep(t)
    BY DEF Next, MacContinue, AddToServer, AddPendingStream, AddClosed, ClearSMEs, Tick, DequeueSMEs,
       SetSchedule, ApplySchedule, StreamReject, ServerInfo, Desync, TrustMaster, MacOnly, vars
  <1>2. ThreadOwns(t)
    BY DEF ThreadsOwn
  <1>3. CASE ConnectRequest(t) \/ ConnectWake(t)
    <2>1. InConnect(t) /\ fdt' = fdt
      BY <1>3 DEF ConnectRequest, ConnectWake, InConnect, maps
    <2>2. fd = app[t].fd
      BY <1>3 DEF ConnectRequest, ConnectWake, EndOfConnect, ReturnHandle
    <2> QED BY <1>2, <2>1, <2>2 DEF ThreadOwns, ConnectOwns
  <1>4. CASE ListenRequest(t) \/ ListenWake(t)
    <2>1. InListen(t) /\ fdt' = fdt
      BY <1>4 DEF ListenRequest, ListenWake, InListen, maps
    <2>2. fd = app[t].fd
      BY <1>4 DEF ListenRequest, ListenWake, EndOfListen, ReturnHandle
    <2> QED BY <1>2, <2>1, <2>2 DEF ThreadOwns, ListenOwns
  <1>5. CASE AcceptDone(t)
    <2>1. InAccept(t) /\ fdt' = fdt /\ fd = app[t].fd
      BY <1>5 DEF AcceptDone, InAccept, ReturnHandle
    <2> QED BY <1>2, <2>1 DEF ThreadOwns, AcceptOwns, Of
  <1>6. CASE UNCHANGED handles \/ handles' \subseteq handles
    BY <1>6
  <1> HIDE DEF IndInv, Typed, Consistent
  <1>7. CASE ~ (ConnectRequest(t) \/ ConnectWake(t) \/ ListenRequest(t) \/ ListenWake(t)
                \/ AcceptDone(t))
    BY <1>1, <1>6, <1>7 DEF AppStep, Connect, ConnectFail, Listen, ListenFail, Accept, AcceptLoop,
       AcceptFind, Close, CloseEndpoint, CloseRemove
  <1> QED BY <1>3, <1>4, <1>5, <1>7

\* A handle is open when connect() or listen() returns it, and stays so until it is closed.
THEOREM HandlesOpen == Spec => HandlesStayOpen
  <1> DEFINE A == \A fd \in handles' :
                     \/ fd \in fdt'
                     \/ fd \notin fdt /\ (fd \in handles \/ endpoints[fd].status = "ACCEPT_WAIT")
  <1>1. IndInv /\ [Next]_vars => [A]_vars
    BY HandlesKept, HandlesGiven
  <1> QED BY <1>1, Invariance, PTL DEF Spec, HandlesStayOpen

\* A stream that waits for its closing leaves the map only when the node applies a schedule
\* without it or loses the synchronization.
THEOREM KeptClosed == Spec => KeptUntilAcknowledged
  <1> DEFINE A == \A id \in StreamIds : Status(id) = "CLOSE_WAIT" /\ streams'[id] = 0 =>
                     \/ id \notin nextScheduleStreams /\ awaitsActivation /\ ~awaitsActivation'
                     \/ desyncs' > desyncs
  <1>1. ASSUME IndInv, [Next]_vars PROVE [A]_vars
    <2> SUFFICES ASSUME NEW id \in StreamIds, Status(id) = "CLOSE_WAIT", streams'[id] = 0
                 PROVE  \/ id \notin nextScheduleStreams /\ awaitsActivation /\ ~awaitsActivation'
                        \/ desyncs' > desyncs
      OBVIOUS
    <2> USE <1>1 DEF IndInv, Typed, Consistent
    <2>1. id \in Mapped /\ endpoints[streams[id]].status = "CLOSE_WAIT"
      BY DEF Status, Mapped
    <2>2. ASSUME NEW t \in Threads, ConnectFail(t) \/ CloseRemove(t)
          PROVE  FALSE
      <3>1. /\ streams[Of(t).id] = app[t].fd /\ Of(t).status # "CLOSE_WAIT"
            /\ RemoveStreams({Of(t).id})
        BY <2>2, LeavesOwn
      <3>2. id # Of(t).id
        BY <2>1, <3>1 DEF Of
      <3> QED BY <2>1, <3>1, <3>2 DEF RemoveStreams, Mapped
    <2>3. ASSUME NEW t \in Threads, ListenFail(t)
          PROVE  FALSE
      BY <2>1, <2>3 DEF ListenFail, Mapped
    <2>4. CASE ApplySchedule
      <3>1. CASE UNCHANGED streams
        BY <2>1, <3>1 DEF Mapped
      <3>2. CASE /\ RemoveStreams({i \in streamsToRemove : Deletable(endpoints[streams[i]])})
                 /\ awaitsActivation /\ awaitsActivation' = FALSE
        <4>1. id \in streamsToRemove
          BY <2>1, <3>2 DEF RemoveStreams, Mapped
        <4> QED BY <3>2, <4>1 DEF ScheduleAhead
      <3> QED BY <2>4, <3>1, <3>2 DEF ApplySchedule, maps
    <2>5. CASE Desync
      BY <2>5 DEF Desync, ScheduleTyped
    <2>6. CASE /\ ~ApplySchedule /\ ~Desync
               /\ \A t \in Threads : ~ConnectFail(t) /\ ~CloseRemove(t) /\ ~ListenFail(t)
      BY <2>1, <2>6, MapsGrow
    <2> HIDE DEF IndInv, Typed, Consistent
    <2> QED BY <2>2, <2>3, <2>4, <2>5, <2>6
  <1> QED BY <1>1, Invariance, PTL DEF Spec, KeptUntilAcknowledged

=============================================================================
