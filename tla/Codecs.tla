-------------------------------- MODULE Codecs --------------------------------
(***************************************************************************)
(* Callers of the conversions of BitCodec and ImageFormat, each beside a   *)
(* reference that is not packed: a buffer of fields beside one stream of   *)
(* bits, a chunk beside a function from offsets to values, and the bytes   *)
(* that are given to EncodeZRLE.  One subject is worked on at a time.      *)
(***************************************************************************)
EXTENDS ImageFormat

VARIABLE subject

Orders == {"LSB", "MSB"}

Widths == {1, 3, 7, 8, 11, 16, 24}

Patterns == {<<0, 0, 0>>, <<255, 255, 255>>, <<90, 165, 60>>}

Geometries ==
    [edge : {2}, large : {2}, bits : {3, 8, 12}] \cup [edge : {2}, large : {3}, bits : {3}]

(* Values of a field: the least, the greatest and one in between. *)
FieldValues(width) == {0, 2^width - 1, 2^width \div 3}

(* A buffer as one stream of bits, in which field n holds the bits from    *)
(* n * width on.                                                           *)
Stream(order, data) == [s \in 0..(8 * Len(data) - 1) |-> Bit(data[ByteOf(s)], BitOf(order, s))]

NoSubject == [kind |-> "none"]

Buffers ==
    {[kind |-> "buffer", order |-> o, width |-> w, data |-> d, stream |-> Stream(o, d)] :
        o \in Orders, w \in Widths, d \in Patterns}

(* Blocks are a function from offsets, with -1 where there is none. *)
NewChunks ==
    {[kind |-> "chunk", g |-> g, chunk |-> NewChunk(g), blocks |-> [o \in Offsets(g) |-> -1]] :
        g \in Geometries}

Bytes == {[kind |-> "bytes", source |-> <<>>, runs |-> 0]}

CodecInit == subject \in {NoSubject} \cup Buffers \cup NewChunks \cup Bytes

(* Set of a field that the buffer holds, to a value that fits. *)
SetField ==
    /\ subject.kind = "buffer"
    /\ \E at \in 0..3, value \in FieldValues(subject.width) :
          LET w == subject.width
              bits == (at * w)..(at * w + w - 1)
          IN /\ Holds(w, subject.data, at)
             /\ subject' = [subject EXCEPT
                   !.data = Set(subject.order, w, @, at, value),
                   !.stream = [s \in DOMAIN @ |->
                       IF s \in bits THEN Bit(value, ValueBit(subject.order, w, s - at * w)) ELSE @[s]]]

(* A block is set, also to a value that is too wide and is refused. *)
SetOneBlock ==
    /\ subject.kind = "chunk"
    /\ \E o \in DOMAIN subject.blocks, value \in {0, 1, 2^subject.g.bits - 1, 2^subject.g.bits} :
          subject' = [subject EXCEPT
              !.chunk = SetBlock(subject.g, @, o, value),
              !.blocks[o] = IF value < 2^subject.g.bits THEN value ELSE @]

UnsetOneBlock ==
    /\ subject.kind = "chunk"
    /\ \E o \in DOMAIN subject.blocks :
          subject' = [subject EXCEPT !.chunk = UnsetBlock(subject.g, @, o), !.blocks[o] = -1]

(* The chunk comes back from an image of the first release, which knows a  *)
(* block that is zero from no block no more.                               *)
LoadLegacy ==
    /\ subject.kind = "chunk"
    /\ LET g == subject.g
       IN subject' = [subject EXCEPT
              !.chunk = decode(g, <<0, 0>>, LegacyImage(g, <<0, 0>>, @)),
              !.blocks = [o \in DOMAIN @ |-> IF @[o] = 0 THEN -1 ELSE @[o]]]

MaxRuns == 4

(* Runs around the limit of one token, of zeros, of small bytes and of     *)
(* bytes that look like a token.                                           *)
AppendRun ==
    /\ subject.kind = "bytes"
    /\ subject.runs < MaxRuns
    /\ \E byte \in {0, 1, 128}, n \in {1, 127, 128, 129} :
          /\ n > 1 => subject.runs < 2
          /\ subject' = [subject EXCEPT !.source = @ \o [i \in 1..n |-> byte], !.runs = @ + 1]

(* The next bytes to be encoded. *)
NextBytes ==
    /\ subject.kind = "bytes"
    /\ subject.runs = MaxRuns
    /\ subject' \in Bytes

CodecNext == SetField \/ SetOneBlock \/ UnsetOneBlock \/ LoadLegacy \/ AppendRun \/ NextBytes

(***************************************************************************)
(* Properties                                                              *)
(***************************************************************************)

(* Whatever the width, the order and the calls of Set before: the buffer   *)
(* is the stream of bits in which each Set has replaced its own field and  *)
(* nothing else, and Get reads a field's bits of that stream.              *)
FieldsAreIndependent ==
    subject.kind = "buffer" =>
        /\ Stream(subject.order, subject.data) = subject.stream
        /\ \A at \in 0..3 : Holds(subject.width, subject.data, at) =>
              LET value == Get(subject.order, subject.width, subject.data, at)
              IN /\ Fits(subject.width, value)
                 /\ \A f \in 0..(subject.width - 1) :
                       Bit(value, ValueBit(subject.order, subject.width, f)) =
                          subject.stream[at * subject.width + f]

(* A chunk is the partial function from offsets to values that its calls   *)
(* of SetBlock, UnsetBlock and a passage through a legacy image have made: *)
(* no call touches another block or takes a value that is too wide, a      *)
(* block that is absent reads as zero, and ChunkFromState takes the state  *)
(* back.                                                                   *)
ChunksAreBlockMaps ==
    subject.kind = "chunk" =>
        LET g == subject.g
            chunk == subject.chunk
        IN /\ \A o \in Offsets(g) :
                 /\ Exists(g, chunk, o) <=> subject.blocks[o] # -1
                 /\ GetBlock(g, chunk, o) = IF Exists(g, chunk, o) THEN subject.blocks[o] ELSE 0
           /\ ChunkFromState(g, chunk.payload, chunk.presence) = chunk

Coordinates == {<<0, 0>>, <<-1, 0>>}

Images(g, coord, chunk) ==
    {encodeState(g, coord, chunk)} \cup
    {encodeCheckpointState(g, coord, chunk, compression) : compression \in {"none", "zrle"}}

(* The image of a chunk in either current format reads back as the chunk,  *)
(* and is refused under another coordinate or another geometry, also one   *)
(* of equal size.                                                          *)
ImagesKeepChunks ==
    subject.kind = "chunk" =>
        \A coord \in Coordinates : \A img \in Images(subject.g, coord, subject.chunk) :
            /\ decode(subject.g, coord, img) = subject.chunk
            /\ \A c \in Coordinates \ {coord} : decode(subject.g, c, img) = NoChunk
            /\ \A other \in Geometries \ {subject.g} : decode(other, coord, img) = NoChunk

(* The truncations of a short stream, and the shortest of a long one. *)
Truncations(encoded) ==
    {SubSeq(encoded, 1, n) : n \in {k \in 0..(Len(encoded) - 1) : Len(encoded) < 9 \/ k > Len(encoded) - 3}}

(* DecodeZRLE gives back exactly what EncodeZRLE was given, whatever the   *)
(* runs, and refuses a truncated stream, a stream with a byte more, and    *)
(* every other size.                                                       *)
ZRLEIsExact ==
    subject.kind = "bytes" =>
        LET s == subject.source
            encoded == EncodeZRLE(s)
        IN /\ DecodeZRLE(encoded, Len(s)) = s
           /\ \A e \in Truncations(encoded) : DecodeZRLE(e, Len(s)) = Invalid
           /\ \A b \in {0, 128} : DecodeZRLE(Append(encoded, b), Len(s)) = Invalid
           /\ \A n \in 0..(Len(s) + 2) :
                 (n # Len(s) /\ (n < 4 \/ n > Len(s) - 3)) => DecodeZRLE(encoded, n) = Invalid
================================================================================
