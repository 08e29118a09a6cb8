------------------------------- MODULE Packet -------------------------------
(***************************************************************************)
(* The buffer that every phase of the MAC fills and empties                *)
(* (util/packet.{h,cpp}): bytes are put behind those already there, and    *)
(* taken from the front; room for the authentication tag is reserved first *)
(* and the tag is put last.                                                *)
(*                                                                         *)
(* A packet is a record [bytes, size, start, reserved], the members packet *)
(* (indexed from 1), dataSize, dataStart and reservedSize.  An operation   *)
(* that may throw comes with the condition on which it does not.           *)
(***************************************************************************)
EXTENDS Integers

Byte == 0 .. 255

MaxPktSize == 125       \* MediumAccessController::maxPktSize
PanHeaderSize == 5
TagSize == 16

Packets ==
    [bytes : [1 .. MaxPktSize -> Byte], size : Nat, start : Nat, reserved : Nat]

\* The counters of a packet stay within its array, whose room for the tag is
\* not taken by anything else.
WellFormed(p) ==
    /\ p \in Packets
    /\ p.start <= p.size
    /\ p.size + p.reserved <= MaxPktSize

Clear(p) == [p EXCEPT !.size = 0, !.start = 0, !.reserved = 0]

\* A packet in which n bytes have been received.
Received(p, bytes, n) == [p EXCEPT !.bytes = bytes, !.size = n, !.start = 0]

-----------------------------------------------------------------------------
(***************************************************************************)
(* Bytes are functions from 1 .. n.                                        *)
(***************************************************************************)
Size(p) == p.size - p.start

\* Unsigned: it wraps when the room reserved is more than what is left.
Available(p) == (MaxPktSize - p.size - p.reserved) % 4294967296

IsEmpty(p) == p.size + p.reserved = p.start

CanPut(p, n) == n <= Available(p)

Put(p, data, n) ==
    [p EXCEPT !.bytes = [k \in 1 .. MaxPktSize |->
                            IF k \in p.size + 1 .. p.size + n THEN data[k - p.size] ELSE @[k]],
              !.size = @ + n]

CanGet(p, n) == n <= Size(p)

Got(p, n) == [k \in 1 .. n |-> p.bytes[p.start + k]]

Discard(p, n) == [p EXCEPT !.start = @ + n]

DiscardFromEnd(p, n) == [p EXCEPT !.size = @ - n]

\* operator[]: an index as large as start + size is let through, although what
\* is there to read are the indices below size - start.
CanIndex(p, index) == index <= p.start + p.size

At(p, index) == p.bytes[p.start + index + 1]

\* operator==: as far as the packet on the left goes.
SameBytes(p, q) == \A k \in 1 .. p.size : p.bytes[k] = q.bytes[k]

-----------------------------------------------------------------------------
(***************************************************************************)
(* The authentication tag, 16 bytes computed from the rest of the packet.  *)
(***************************************************************************)
ReserveTag(p) == [p EXCEPT !.reserved = @ + TagSize]

CanPutTag(p) == p.reserved >= TagSize /\ MaxPktSize - p.size >= TagSize

\* The tag is put without reserving more; all the room reserved is given back.
PutTag(p, tag) ==
    LET put == Put(p, tag, TagSize)
    IN  [put EXCEPT !.size = p.size + p.reserved, !.reserved = 0]

CanVerify(p) == p.size >= TagSize

\* The tag that verify() checks.
Tag(p) == [k \in 1 .. TagSize |-> p.bytes[p.size - TagSize + k]]

DiscardTag(p) == [p EXCEPT !.size = @ - TagSize]

-----------------------------------------------------------------------------
(***************************************************************************)
(* The header that tells the packets of a network from others.             *)
(***************************************************************************)
PanHeader(panId) == <<70, 8, 255, panId \div 256, panId % 256>>

\* The first bytes of the array, whether or not they have been received.
CheckPanHeader(p, panId) ==
    \A k \in 1 .. PanHeaderSize : p.bytes[k] = PanHeader(panId)[k]

PutPanHeader(p, panId) == Put(p, PanHeader(panId), PanHeaderSize)

RemovePanHeader(p) == Discard(p, PanHeaderSize)

=============================================================================
