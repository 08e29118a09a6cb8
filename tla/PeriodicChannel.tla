--------------------------- MODULE PeriodicChannel ---------------------------
(***************************************************************************)
(* What every stream promises its two applications, whatever the relays,   *)
(* the redundant copies and the losses in between: a period takes what the *)
(* writer has offered, or nothing, or what a writer that is asked for it   *)
(* then gives, and ends with that packet, or nothing, on the reader's      *)
(* shelf, whence it is read once.  The streams are independent, and a slot *)
(* of the network may bring several a step ahead.                          *)
(***************************************************************************)
EXTENDS Sequences

CONSTANTS Streams, Packets, NoPacket

VARIABLES
    offered,   \* by the writer of each stream, for the next period
    asked,     \* streams whose writer is asked when a period begins
    flying,    \* what the period that has begun carries; empty between periods
    shelf      \* what the reader will find

vars == <<offered, asked, flying, shelf>>

TypeOK ==
    /\ offered \in [Streams -> Packets \cup {NoPacket}]
    /\ asked \subseteq Streams
    /\ flying \in [Streams -> {<<>>} \cup {<<p>> : p \in Packets \cup {NoPacket}}]
    /\ shelf \in [Streams -> Packets \cup {NoPacket}]

Init ==
    /\ offered = [s \in Streams |-> NoPacket]
    /\ asked = {}
    /\ flying = [s \in Streams |-> <<>>]
    /\ shelf = [s \in Streams |-> NoPacket]

KeepsOffered(s) == offered'[s] = offered[s]
KeepsFlying(s) == flying'[s] = flying[s]
KeepsShelf(s) == shelf'[s] = shelf[s]

Taken(s) == IF s \in asked THEN Packets ELSE {offered[s]}

Write(s) ==
    /\ offered[s] = NoPacket /\ offered'[s] \in Packets
    /\ s \notin asked
    /\ KeepsFlying(s) /\ KeepsShelf(s)

Begin(s) ==
    /\ flying[s] = <<>> /\ flying'[s] \in {<<p>> : p \in Taken(s)}
    /\ offered'[s] = NoPacket
    /\ KeepsShelf(s)

\* The packet may be lost; one that was not read is replaced.
End(s) ==
    /\ flying[s] # <<>> /\ flying'[s] = <<>>
    /\ shelf'[s] \in {flying[s][1], NoPacket}
    /\ KeepsOffered(s)

\* A stream of one hop begins and ends a period in a single slot.
BeginAndEnd(s) ==
    /\ flying[s] = <<>> /\ flying'[s] = <<>>
    /\ offered'[s] = NoPacket
    /\ shelf'[s] \in Taken(s) \cup {NoPacket}

Read(s) == shelf'[s] = NoPacket /\ KeepsOffered(s) /\ KeepsFlying(s)

Rests(s) == KeepsOffered(s) /\ KeepsFlying(s) /\ KeepsShelf(s)

Next ==
    /\ \A s \in Streams :
          Write(s) \/ Begin(s) \/ End(s) \/ BeginAndEnd(s) \/ Read(s) \/ Rests(s)
    /\ asked \subseteq asked'

Spec == Init /\ [][Next]_vars

=============================================================================
