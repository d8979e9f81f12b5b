------------------------------- MODULE BitCodec -------------------------------
(***************************************************************************)
(* The fields of a packed buffer (internal/bitcodec) and the chunk built   *)
(* on them (internal/storage/chunk.go): block values of BlockBits bits in  *)
(* a payload, and one presence bit per block.                              *)
(*                                                                         *)
(* Bytes are numbers below 256 and buffers sequences of bytes.  The checks *)
(* against 64-bit overflow of a field's position are left out: the buffers *)
(* of a geometry that New accepts never reach them.                        *)
(***************************************************************************)
EXTENDS Integers, Sequences

Bit(number, k) == (number \div 2^k) % 2

WithBit(number, k, bit) == number + (bit - Bit(number, k)) * 2^k

Zeros(n) == <<>> \o [i \in 1..n |-> 0]

Ceil8(bits) == bits \div 8 + (IF bits % 8 # 0 THEN 1 ELSE 0)

(***************************************************************************)
(* bitcodec.Codec                                                          *)
(***************************************************************************)

ByteOf(streamBit) == streamBit \div 8 + 1

BitOf(order, streamBit) == IF order = "MSB" THEN 7 - (streamBit % 8) ELSE streamBit % 8

ValueBit(order, width, fieldBit) == IF order = "MSB" THEN width - 1 - fieldBit ELSE fieldBit

(* fieldStart refuses a field that the buffer does not hold, and Set also  *)
(* a value that its field does not hold.                                   *)
Holds(width, data, at) == Ceil8(at * width + width) <= Len(data)

Fits(width, value) == value < 2^width

(* The loop of Get over the bits of a field. *)
GetBits(order, width, data, start) ==
    LET value[f \in 0..width] ==
            IF f = 0 THEN 0
            ELSE value[f - 1] + Bit(data[ByteOf(start + f - 1)], BitOf(order, start + f - 1))
                                   * 2^ValueBit(order, width, f - 1)
    IN value[width]

(* What byte i of a field of whole bytes counts. *)
Weight(order, bytes, i) == 256^(IF order = "MSB" THEN bytes - i ELSE i - 1)

getBytes(order, data, first, bytes) ==
    LET value[i \in 0..bytes] ==
            IF i = 0 THEN 0 ELSE value[i - 1] + data[first + i] * Weight(order, bytes, i)
    IN value[bytes]

Get(order, width, data, at) ==
    IF width % 8 = 0
    THEN getBytes(order, data, (at * width) \div 8, width \div 8)
    ELSE GetBits(order, width, data, at * width)

(* A wrong SetBits: bits are set and never cleared. *)
SetBitsOnly(order, width, data, start, value) ==
    LET after[f \in 0..width] ==
            IF f = 0 THEN data
            ELSE [after[f - 1] EXCEPT ![ByteOf(start + f - 1)] =
                    IF Bit(value, ValueBit(order, width, f - 1)) = 1
                    THEN WithBit(@, BitOf(order, start + f - 1), 1) ELSE @]
    IN after[width]

(* The loop of Set over the bits of a field. *)
SetBits(order, width, data, start, value) ==
    LET after[f \in 0..width] ==
            IF f = 0 THEN data
            ELSE [after[f - 1] EXCEPT ![ByteOf(start + f - 1)] =
                    WithBit(@, BitOf(order, start + f - 1), Bit(value, ValueBit(order, width, f - 1)))]
    IN after[width]

setBytes(order, data, first, bytes, value) ==
    LET after[i \in 0..bytes] ==
            IF i = 0 THEN data
            ELSE [after[i - 1] EXCEPT ![first + i] = (value \div Weight(order, bytes, i)) % 256]
    IN after[bytes]

Set(order, width, data, at, value) ==
    IF width % 8 = 0
    THEN setBytes(order, data, (at * width) \div 8, width \div 8, value)
    ELSE SetBits(order, width, data, at * width, value)

(***************************************************************************)
(* storage.Chunk, of a geometry [edge, large, bits]: the edge of a chunk,  *)
(* the edge of a large chunk and the bits of a block.                      *)
(***************************************************************************)

BlockCount(g) == g.edge * g.edge

PayloadBytes(g) == Ceil8(BlockCount(g) * g.bits)

PresenceBytes(g) == Ceil8(BlockCount(g))

Offsets(g) == (0..(g.edge - 1)) \X (0..(g.edge - 1))

index(g, offset) == offset[2] * g.edge + offset[1]

(* What a constructor returns with an error. *)
NoChunk == [payload |-> <<>>, presence |-> <<>>]

NewChunk(g) == [payload |-> Zeros(PayloadBytes(g)), presence |-> Zeros(PresenceBytes(g))]

WithPresence(presence, i, bit) == [presence EXCEPT ![i \div 8 + 1] = WithBit(@, i % 8, bit)]

Exists(g, chunk, offset) ==
    LET i == index(g, offset) IN Bit(chunk.presence[i \div 8 + 1], i % 8) = 1

GetBlock(g, chunk, offset) == Get("LSB", g.bits, chunk.payload, index(g, offset))

SetBlock(g, chunk, offset, value) ==
    IF ~Fits(g.bits, value) THEN chunk
    ELSE [payload  |-> Set("LSB", g.bits, chunk.payload, index(g, offset), value),
          presence |-> WithPresence(chunk.presence, index(g, offset), 1)]

(* A wrong UnsetBlock: the value stays in the payload. *)
UnsetBlockKeepsValue(g, chunk, offset) ==
    [chunk EXCEPT !.presence = WithPresence(@, index(g, offset), 0)]

UnsetBlock(g, chunk, offset) ==
    [payload  |-> Set("LSB", g.bits, chunk.payload, index(g, offset), 0),
     presence |-> WithPresence(chunk.presence, index(g, offset), 0)]

(* ChunkFromState refuses presence bits beyond the last block. *)
ChunkFromState(g, payload, presence) ==
    IF /\ Len(payload) = PayloadBytes(g)
       /\ Len(presence) = PresenceBytes(g)
       /\ \A i \in BlockCount(g)..(8 * PresenceBytes(g) - 1) : Bit(presence[i \div 8 + 1], i % 8) = 0
    THEN [payload |-> payload, presence |-> presence]
    ELSE NoChunk

(* ChunkFromLegacyBytes: without a bitmap, a block that is not zero is     *)
(* present.                                                                *)
LegacyPresence(g, payload) ==
    LET presence[n \in 0..BlockCount(g)] ==
            IF n = 0 THEN NewChunk(g).presence
            ELSE IF Get("LSB", g.bits, payload, n - 1) # 0 THEN WithPresence(presence[n - 1], n - 1, 1)
            ELSE presence[n - 1]
    IN presence[BlockCount(g)]

ChunkFromLegacyBytes(g, payload) ==
    IF Len(payload) # PayloadBytes(g) THEN NoChunk
    ELSE [payload |-> payload, presence |-> LegacyPresence(g, payload)]
================================================================================
