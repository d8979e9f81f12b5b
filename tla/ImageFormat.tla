------------------------------ MODULE ImageFormat ------------------------------
(***************************************************************************)
(* The files of fs_split that hold one chunk (format.go) and their         *)
(* compression of zero runs (storage/zrle.go).  An image is a record of    *)
(* its header fields and its body; the checksum over all of them is left   *)
(* out, since it tells a damaged image from a whole one and the properties *)
(* are about whole images read under the wrong name or geometry.           *)
(***************************************************************************)
EXTENDS BitCodec, SequencesExt

(***************************************************************************)
(* ZRLE                                                                    *)
(***************************************************************************)

zrleRunLimit == 128

(* What DecodeZRLE returns with an error. *)
Invalid == <<-1>>

(* Where the run of zeros, or of other bytes, that begins at start ends. *)
RunEnd(source, start) ==
    Min({end \in (start + 1)..(Len(source) + 1) :
            \/ end = Len(source) + 1
            \/ end - start = zrleRunLimit
            \/ (source[end] = 0) # (source[start] = 0)})

EncodeZRLE(source) ==
    LET encoded[start \in 1..(Len(source) + 1)] ==
            IF start > Len(source) THEN <<>>
            ELSE LET end == RunEnd(source, start)
                     run == end - start
                 IN (IF source[start] = 0
                     THEN <<128 + run - 1>>
                     ELSE <<run - 1>> \o SubSeq(source, start, end - 1)) \o encoded[end]
    IN encoded[1]

Join(bytes, rest) == IF rest = Invalid THEN Invalid ELSE bytes \o rest

(* A wrong DecodeZRLE: what is left of the size at the end is not checked. *)
DecodeZRLEShort(encoded, decodedSize) ==
    LET decoded[offset \in 1..(Len(encoded) + 1), room \in 0..decodedSize] ==
            IF offset > Len(encoded) THEN <<>>
            ELSE LET run == (encoded[offset] % 128) + 1
                 IN IF run > room THEN Invalid
                    ELSE IF encoded[offset] >= 128 THEN Join(Zeros(run), decoded[offset + 1, room - run])
                    ELSE IF run > Len(encoded) - offset THEN Invalid
                    ELSE Join(SubSeq(encoded, offset + 1, offset + run),
                              decoded[offset + 1 + run, room - run])
    IN decoded[1, decodedSize]

(* room is what of the size is still to be decoded. *)
DecodeZRLE(encoded, decodedSize) ==
    LET decoded[offset \in 1..(Len(encoded) + 1), room \in 0..decodedSize] ==
            IF offset > Len(encoded) THEN (IF room = 0 THEN <<>> ELSE Invalid)
            ELSE LET run == (encoded[offset] % 128) + 1
                 IN IF run > room THEN Invalid
                    ELSE IF encoded[offset] >= 128 THEN Join(Zeros(run), decoded[offset + 1, room - run])
                    ELSE IF run > Len(encoded) - offset THEN Invalid
                    ELSE Join(SubSeq(encoded, offset + 1, offset + run),
                              decoded[offset + 1 + run, room - run])
    IN decoded[1, decodedSize]

(***************************************************************************)
(* Chunk images                                                            *)
(***************************************************************************)

encodeImage(g, coord, body, magic, codec) ==
    [magic |-> magic, edge |-> g.edge, large |-> g.large, bits |-> g.bits, codec |-> codec,
     coord |-> coord, payloadSize |-> PayloadBytes(g), body |-> body]

State(chunk) == chunk.payload \o chunk.presence

encodeState(g, coord, chunk) == encodeImage(g, coord, State(chunk), "v2", "none")

(* A wrong encodeCheckpointState: what does not shrink is marked ZRLE too. *)
encodeCheckpointStateMarked(g, coord, chunk, compression) ==
    LET compressed == EncodeZRLE(State(chunk))
    IN encodeImage(g, coord,
          IF compression = "zrle" /\ Len(compressed) < Len(State(chunk)) THEN compressed ELSE State(chunk),
          "v3", compression)

(* A state that compression does not make shorter is stored as it is. *)
encodeCheckpointState(g, coord, chunk, compression) ==
    LET compressed == EncodeZRLE(State(chunk))
    IN IF compression = "zrle" /\ Len(compressed) < Len(State(chunk))
       THEN encodeImage(g, coord, compressed, "v3", "zrle")
       ELSE encodeImage(g, coord, State(chunk), "v3", "none")

(* The image of the first release: the payload alone. *)
LegacyImage(g, coord, chunk) == encodeImage(g, coord, chunk.payload, "v1", "none")

decodeState(g, state) ==
    ChunkFromState(g, SubSeq(state, 1, PayloadBytes(g)), SubSeq(state, PayloadBytes(g) + 1, Len(state)))

decode(g, coord, image) ==
    LET stateSize == PayloadBytes(g) + PresenceBytes(g)
        state == IF image.codec = "zrle" THEN DecodeZRLE(image.body, stateSize) ELSE image.body
    IN IF \/ image.codec # "none" /\ image.magic # "v3"
          \/ image.edge # g.edge \/ image.large # g.large \/ image.bits # g.bits
          \/ image.coord # coord
          \/ image.payloadSize # PayloadBytes(g)
       THEN NoChunk
       ELSE IF image.magic = "v1" THEN ChunkFromLegacyBytes(g, image.body)
       ELSE IF state # Invalid /\ Len(state) = stateSize THEN decodeState(g, state) ELSE NoChunk
================================================================================
