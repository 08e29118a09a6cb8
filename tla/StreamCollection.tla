-------------------------- MODULE StreamCollection --------------------------
(***************************************************************************)
(* The master's record of every stream and server of the network           *)
(* (stream/stream_collection.{h,cpp}).  The MAC thread feeds it with the   *)
(* stream management elements (SMEs) collected by the uplink phase and     *)
(* drains its info elements in the downlink phase; the scheduler thread    *)
(* takes snapshots of it and applies the outcome of a scheduling run.      *)
(* Every operation holds coll_mutex from beginning to end, so each is one  *)
(* atomic action here.                                                     *)
(***************************************************************************)
EXTENDS UpdatableQueue

CONSTANTS
    Streams,     \* ids of client/server streams, a set disjoint from Servers
    Servers,     \* ids of servers, i.e. (dst,dst,0,dstPort)
    ServerOf,    \* StreamId::getServerId(), from Streams to Servers
    Params,      \* the parameters that SMEs carry in this instance
    MaxSmes      \* bound on the number of SMEs the master receives

Directions == {"TX", "RX", "TX_RX"}

StreamParameters ==
    [redundancy : Nat, period : Nat, payloadSize : Nat, direction : Directions]

ASSUME CollectionAssumption ==
    /\ IsFiniteSet(Streams)
    /\ Streams \cap Servers = {}
    /\ ServerOf \in [Streams -> Servers]
    /\ Params \subseteq StreamParameters
    /\ MaxSmes \in Nat

VARIABLES
    collection,     \* std::map from ids to MasterStreamInfo; NoEntry if absent
    infoQueue,      \* info elements waiting for the downlink, keyed by id
    modified_flag, removed_flag, added_flag, resend_flag,
    smesReceived    \* SMEs received so far, capped by MaxSmes

flagVars == <<modified_flag, removed_flag, added_flag, resend_flag>>
collectionVars == <<collection, infoQueue, flagVars, smesReceived>>

-----------------------------------------------------------------------------
Ids == Streams \cup Servers

NoEntry == [status |-> "NOEXIST"]

MasterStreamInfo ==
    [status : {"ACCEPTED", "ESTABLISHED", "LISTEN"}, params : StreamParameters]

Entry(status, p) == [status |-> status, params |-> p]

InfoElements ==
    [key : Ids, val : {"SERVER_OPENED", "SERVER_CLOSED", "STREAM_REJECT"}]

\* The SMEs a node can send: CONNECT for its streams, LISTEN for its servers,
\* CLOSED for both, and RESEND_SCHEDULE.  A CHALLENGE is passed on to the key
\* manager and leaves the collection alone.
SMEs == [type : {"CONNECT"}, id : Streams, params : Params]
        \cup [type : {"LISTEN"}, id : Servers, params : Params]
        \cup [type : {"CLOSED"}, id : Ids]
        \cup [type : {"RESEND_SCHEDULE"}]

CollectionTypeOK ==
    /\ collection \in [Ids -> MasterStreamInfo \cup {NoEntry}]
    /\ infoQueue \in Seq(InfoElements)
    /\ modified_flag \in BOOLEAN
    /\ removed_flag \in BOOLEAN
    /\ added_flag \in BOOLEAN
    /\ resend_flag \in BOOLEAN
    /\ smesReceived \in Nat

CollectionInit ==
    /\ collection = [id \in Ids |-> NoEntry]
    /\ infoQueue = <<>>
    /\ modified_flag = FALSE
    /\ removed_flag = FALSE
    /\ added_flag = FALSE
    /\ resend_flag = FALSE
    /\ smesReceived = 0

-----------------------------------------------------------------------------
(***************************************************************************)
(* Stream management elements.                                             *)
(***************************************************************************)
Lower(a, b) == IF a <= b THEN a ELSE b
Higher(a, b) == IF a <= b THEN b ELSE a

NegotiateParameters(serverParams, clientParams) ==
    [redundancy  |-> Lower(serverParams.redundancy, clientParams.redundancy),
     period      |-> Higher(serverParams.period, clientParams.period),
     payloadSize |-> Lower(serverParams.payloadSize, clientParams.payloadSize),
     direction   |-> clientParams.direction]

\* An SME for a stream that is in the collection.
UpdateStream(sme) ==
    /\ collection[sme.id] # NoEntry
    /\ UNCHANGED <<infoQueue, added_flag>>
    /\ \/ /\ sme.type = "CLOSED"
          /\ collection' = [collection EXCEPT ![sme.id] = NoEntry]
          /\ removed_flag' = TRUE
          /\ modified_flag' = TRUE
          /\ UNCHANGED resend_flag
       \/ /\ sme.type = "CONNECT"
          /\ resend_flag' = (resend_flag \/ collection[sme.id].status = "ESTABLISHED")
          /\ UNCHANGED <<collection, removed_flag, modified_flag>>

\* An SME for a stream that is not: a CONNECT opens it if its server listens
\* in the same direction and is refused otherwise, a CLOSED asks for the
\* schedule again, since its sender has not seen that the stream is gone.
CreateStream(sme) ==
    LET server == collection[ServerOf[sme.id]]
        accept == server # NoEntry /\ server.params.direction = sme.params.direction
    IN
    /\ collection[sme.id] = NoEntry
    /\ UNCHANGED removed_flag
    /\ \/ /\ sme.type = "CLOSED"
          /\ resend_flag' = TRUE
          /\ UNCHANGED <<collection, infoQueue, added_flag, modified_flag>>
       \/ /\ sme.type = "CONNECT" /\ accept
          /\ collection' = [collection EXCEPT ![sme.id] =
                Entry("ACCEPTED", NegotiateParameters(server.params, sme.params))]
          /\ added_flag' = TRUE
          /\ modified_flag' = TRUE
          /\ UNCHANGED <<infoQueue, resend_flag>>
       \/ /\ sme.type = "CONNECT" /\ ~accept
          /\ infoQueue' = Enqueue(infoQueue, sme.id, "STREAM_REJECT")
          /\ UNCHANGED <<collection, added_flag, modified_flag, resend_flag>>

\* An SME for a server: LISTEN creates it unless it is there, CLOSED removes
\* it, and each is answered (again) by an info element.
UpdateOrCreateServer(sme) ==
    /\ UNCHANGED flagVars
    /\ \/ /\ sme.type = "LISTEN"
          /\ collection' = IF collection[sme.id] = NoEntry
                           THEN [collection EXCEPT ![sme.id] = Entry("LISTEN", sme.params)]
                           ELSE collection
          /\ infoQueue' = Enqueue(infoQueue, sme.id, "SERVER_OPENED")
       \/ /\ sme.type = "CLOSED"
          /\ collection' = [collection EXCEPT ![sme.id] = NoEntry]
          /\ infoQueue' = Enqueue(infoQueue, sme.id, "SERVER_CLOSED")

\* receiveSMEs() works through a batch under the mutex; a batch of several
\* SMEs is several of these steps with none of another thread between them.
ReceiveSME ==
    /\ smesReceived < MaxSmes
    /\ smesReceived' = smesReceived + 1
    /\ \E sme \in SMEs :
         \/ /\ sme.type = "RESEND_SCHEDULE"
            /\ resend_flag' = TRUE
            /\ UNCHANGED <<collection, infoQueue, modified_flag, removed_flag, added_flag>>
         \/ /\ sme.type # "RESEND_SCHEDULE"
            /\ sme.id \in Streams
            /\ UpdateStream(sme) \/ CreateStream(sme)
         \/ /\ sme.type # "RESEND_SCHEDULE"
            /\ sme.id \in Servers
            /\ UpdateOrCreateServer(sme)

\* The downlink phase takes up to a packet of info elements.
DequeueInfo ==
    /\ \E n \in 1 .. Len(infoQueue) : infoQueue' = Dequeue(infoQueue, n)
    /\ UNCHANGED <<collection, flagVars, smesReceived>>

-----------------------------------------------------------------------------
(***************************************************************************)
(* The scheduler's operations.                                             *)
(***************************************************************************)
\* Mutant: the flags are cleared before the snapshot is taken.
ConsumeOperation_ClearsAll ==
    /\ modified_flag' = FALSE
    /\ removed_flag' = FALSE
    /\ added_flag' = FALSE
    /\ resend_flag' = FALSE
    /\ UNCHANGED <<collection, infoQueue, smesReceived>>

\* getOperation() reads the flags and consumes resend_flag only.
ConsumeOperation ==
    /\ resend_flag' = FALSE
    /\ UNCHANGED <<collection, infoQueue, modified_flag, removed_flag, added_flag,
                   smesReceived>>

\* The side effect of getSnapshot(): all four flags are cleared.
ClearFlags ==
    /\ modified_flag' = FALSE
    /\ removed_flag' = FALSE
    /\ added_flag' = FALSE
    /\ resend_flag' = FALSE
    /\ UNCHANGED <<collection, infoQueue, smesReceived>>

\* Mutant: established streams that lost their slots are not closed.
StreamChanges_NoClose(snap, scheduled) ==
    [s \in Streams |->
        CASE snap[s].status = "ACCEPTED" /\ s \in scheduled -> "ESTABLISH"
          [] snap[s].status = "ACCEPTED" /\ s \notin scheduled -> "REJECT"
          [] OTHER -> "none"]

\* Mutant: accepted streams that got no slots are not rejected.
StreamChanges_NoReject(snap, scheduled) ==
    [s \in Streams |->
        CASE snap[s].status = "ACCEPTED" /\ s \in scheduled -> "ESTABLISH"
          [] snap[s].status = "ESTABLISHED" /\ s \notin scheduled -> "CLOSE"
          [] OTHER -> "none"]

\* StreamSnapshot::getStreamChanges(): what a schedule that serves the set
\* `scheduled' of streams changes in the snapshot `snap'.
StreamChanges(snap, scheduled) ==
    [s \in Streams |->
        CASE snap[s].status = "ACCEPTED" /\ s \in scheduled -> "ESTABLISH"
          [] snap[s].status = "ACCEPTED" /\ s \notin scheduled -> "REJECT"
          [] snap[s].status = "ESTABLISHED" /\ s \notin scheduled -> "CLOSE"
          [] OTHER -> "none"]

\* A change computed on the snapshot is applied only where the collection
\* still has the status that the change starts from.
Applicable(s, change) ==
    \/ change \in {"ESTABLISH", "REJECT"} /\ collection[s].status = "ACCEPTED"
    \/ change = "CLOSE" /\ collection[s].status = "ESTABLISHED"

ApplyChanges(changes) ==
    LET applied == {s \in Streams : Applicable(s, changes[s])}
        rejected == {s \in applied : changes[s] = "REJECT"}
        fresh == {s \in rejected : ~Waiting(infoQueue, s)}
    IN
    /\ collection' = [id \in Ids |->
            IF id \notin applied THEN collection[id]
            ELSE IF changes[id] = "ESTABLISH"
                 THEN Entry("ESTABLISHED", collection[id].params)
                 ELSE NoEntry]
    /\ \E order \in Orders(fresh) :
            infoQueue' = EnqueueAll(infoQueue, rejected, order, "STREAM_REJECT")
    /\ UNCHANGED <<flagVars, smesReceived>>

=============================================================================
