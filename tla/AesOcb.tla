------------------------------- MODULE AesOcb -------------------------------
(***************************************************************************)
(* Authenticated encryption of packets (crypto/aes_ocb.{h,cpp} and the     *)
(* operations of util/packet.h that call it): which bytes are encrypted,   *)
(* which are authenticated only, and how the receiver gets them back.      *)
(*                                                                         *)
(* The block cipher is a parameter.  An ocb is a record                    *)
(* [key, slotInfo, nonce], each of them a block; the caller sets slotInfo  *)
(* and nonce before every packet.  The buffers of the class live for one   *)
(* call and are the values of the definitions below.                       *)
(***************************************************************************)
EXTENDS Packet, FiniteSets

CONSTANTS
    Cipher(_, _),       \* a block under a key: AES, in software or hardware
    Decipher(_, _)      \* its inverse

BlockSize == 16
MaxBlocks == 8
MaxCachedL == 3

Block == [1 .. BlockSize -> Byte]

CipherInverts ==
    \A key, b \in Block : /\ Cipher(key, b) \in Block
                          /\ Decipher(key, Cipher(key, b)) = b

-----------------------------------------------------------------------------
(***************************************************************************)
(* Bytes and blocks.                                                       *)
(***************************************************************************)
Weight == <<1, 2, 4, 8, 16, 32, 64, 128>>

BitOf(byte, k) == (byte \div Weight[k]) % 2

ByteOf(bits) ==
    bits[1] + 2 * bits[2] + 4 * bits[3] + 8 * bits[4]
        + 16 * bits[5] + 32 * bits[6] + 64 * bits[7] + 128 * bits[8]

XorByte(a, b) ==
    ByteOf([k \in 1 .. 8 |-> IF BitOf(a, k) = BitOf(b, k) THEN 0 ELSE 1])

Xor(a, b) == [j \in 1 .. BlockSize |-> XorByte(a[j], b[j])]

\* All blocks of a buffer, one xored with the other.
XorAll(buffer) ==
    [j \in 1 .. BlockSize |->
        ByteOf([k \in 1 .. 8 |->
            Cardinality({i \in DOMAIN buffer : BitOf(buffer[i][j], k) = 1}) % 2])]

\* Times x in the field of the blocks.
GfDouble(b) ==
    [j \in 1 .. BlockSize |->
        IF j = BlockSize THEN XorByte((2 * b[j]) % 256, 135 * (b[1] \div 128))
        ELSE ((2 * b[j]) % 256) + b[j + 1] \div 128]

EcbEncrypt(key, buffer) == [i \in DOMAIN buffer |-> Cipher(key, buffer[i])]

EcbDecrypt(key, buffer) == [i \in DOMAIN buffer |-> Decipher(key, buffer[i])]

\* Data of n bytes is a function from 1 .. n.
FullBlocks(n) == n \div BlockSize

Blocks(n) == (n + BlockSize - 1) \div BlockSize

IndexIn(k) == ((k - 1) % BlockSize) + 1

BlockOf(k) == (k - 1) \div BlockSize + 1

\* A last block that is not full ends with one bit and zeros.
Padded(data, n) ==
    [i \in 1 .. Blocks(n) |->
        [j \in 1 .. BlockSize |->
            LET k == BlockSize * (i - 1) + j
            IN  IF k <= n THEN data[k] ELSE IF k = n + 1 THEN 128 ELSE 0]]

-----------------------------------------------------------------------------
(***************************************************************************)
(* Offsets.                                                                *)
(***************************************************************************)
Ntz == <<0, 1, 0, 2, 0, 1, 0, 3>>

LStar(key) == Cipher(key, [j \in 1 .. BlockSize |-> 0])

LDollar(key) == GfDouble(LStar(key))

LTable(key) ==
    LET l0 == GfDouble(LDollar(key))
        l1 == GfDouble(l0)
    IN  <<l0, l1, GfDouble(l1)>>

\* The increments up to the i-th; from the eighth on one is not in the table.
Delta(key, i) == XorAll([k \in 1 .. i |-> LTable(key)[Ntz[k] + 1]])

FirstOffset(ocb) ==
    LET bottom  == ocb.nonce[BlockSize] % 64
        ktop    == Cipher(ocb.key, [ocb.nonce EXCEPT ![BlockSize] = @ - bottom])
        stretch == [k \in 1 .. 24 |-> IF k <= 16 THEN ktop[k]
                                      ELSE XorByte(ktop[k - 16], ktop[k - 15])]
        skip    == bottom \div 8
        up      == Weight[(bottom % 8) + 1]
    IN  [j \in 1 .. BlockSize |->
            ((stretch[j + skip] * up) % 256) + stretch[j + skip + 1] \div (256 \div up)]

Offset(ocb, i) == Xor(FirstOffset(ocb), Delta(ocb.key, i))

\* The offset of what is left after the full blocks.
StarOffset(ocb, n) == Xor(Offset(ocb, FullBlocks(n)), LStar(ocb.key))

LastOffset(ocb, n) ==
    IF n % BlockSize = 0 THEN Offset(ocb, FullBlocks(n)) ELSE StarOffset(ocb, n)

-----------------------------------------------------------------------------
(***************************************************************************)
(* The mode.                                                               *)
(***************************************************************************)
\* Otherwise the call throws.
Fits(cryptLength, authLength) ==
    Blocks(cryptLength) <= MaxBlocks /\ Blocks(BlockSize + authLength) <= MaxBlocks

\* The indices of the table that a call uses are in the table.
TableSuffices(cryptLength, authLength) ==
    \A i \in (1 .. FullBlocks(cryptLength)) \cup (1 .. FullBlocks(BlockSize + authLength)) :
        i <= MaxBlocks /\ Ntz[i] < MaxCachedL

\* processAdditionalData(): the block slotInfo comes first.
AuthSum(ocb, auth, m) ==
    LET data   == [k \in 1 .. BlockSize + m |->
                      IF k <= BlockSize THEN ocb.slotInfo[k] ELSE auth[k - BlockSize]]
        full   == FullBlocks(BlockSize + m)
        blocks == Padded(data, BlockSize + m)
        delta  == [i \in DOMAIN blocks |->
                      IF i <= full THEN Delta(ocb.key, i)
                      ELSE Xor(Delta(ocb.key, full), LStar(ocb.key))]
    IN  XorAll(EcbEncrypt(ocb.key, [i \in DOMAIN blocks |-> Xor(delta[i], blocks[i])]))

\* The checksum is of the plain text.
ComputedTag(ocb, plain, n, auth, m) ==
    LET checksum == XorAll(Padded(plain, n))
        last     == Xor(Xor(checksum, LastOffset(ocb, n)), LDollar(ocb.key))
    IN  Xor(Cipher(ocb.key, last), AuthSum(ocb, auth, m))

Encrypted(ocb, plain, n) ==
    LET full   == FullBlocks(n)
        buffer == [i \in 1 .. Blocks(n) |->
                      IF i <= full THEN Xor(Padded(plain, n)[i], Offset(ocb, i))
                      ELSE StarOffset(ocb, n)]
        out    == EcbEncrypt(ocb.key, buffer)
    IN  [k \in 1 .. n |->
            IF BlockOf(k) <= full
            THEN XorByte(out[BlockOf(k)][IndexIn(k)], Offset(ocb, BlockOf(k))[IndexIn(k)])
            ELSE XorByte(plain[k], out[BlockOf(k)][IndexIn(k)])]

Decrypted(ocb, text, n) ==
    LET full   == FullBlocks(n)
        buffer == [i \in 1 .. full |-> Xor(Padded(text, n)[i], Offset(ocb, i))]
        out    == EcbDecrypt(ocb.key, buffer)
        pad    == Cipher(ocb.key, StarOffset(ocb, n))
    IN  [k \in 1 .. n |->
            IF BlockOf(k) <= full
            THEN XorByte(out[BlockOf(k)][IndexIn(k)], Offset(ocb, BlockOf(k))[IndexIn(k)])
            ELSE XorByte(text[k], pad[IndexIn(k)])]

-----------------------------------------------------------------------------
(***************************************************************************)
(* Packets.  The header of the network is authenticated and not encrypted; *)
(* a packet is encrypted in place.                                         *)
(***************************************************************************)
Header(p) == [k \in 1 .. PanHeaderSize |-> p.bytes[k]]

Body(p, n) == [k \in 1 .. n |-> p.bytes[PanHeaderSize + k]]

WithBody(p, body, n) ==
    [p EXCEPT !.bytes = [k \in 1 .. MaxPktSize |->
        IF k \in PanHeaderSize + 1 .. PanHeaderSize + n THEN body[k - PanHeaderSize] ELSE @[k]]]

EncryptAndPutTag(ocb, p) ==
    LET n == p.size - PanHeaderSize
    IN  PutTag(WithBody(p, Encrypted(ocb, Body(p, n), n), n),
               ComputedTag(ocb, Body(p, n), n, Header(p), PanHeaderSize))

PutTagOnly(ocb, p) ==
    PutTag(p, ComputedTag(ocb, <<>>, 0, p.bytes, p.size))

\* The packet without its tag, and whether the tag is right.
VerifyAndDecrypt(ocb, p) ==
    LET n     == p.size - TagSize - PanHeaderSize
        plain == Decrypted(ocb, Body(p, n), n)
    IN  [packet |-> DiscardTag(WithBody(p, plain, n)),
         valid  |-> ComputedTag(ocb, plain, n, Header(p), PanHeaderSize) = Tag(p)]

Verify(ocb, p) ==
    [packet |-> DiscardTag(p),
     valid  |-> ComputedTag(ocb, <<>>, 0, p.bytes, p.size - TagSize) = Tag(p)]

=============================================================================
