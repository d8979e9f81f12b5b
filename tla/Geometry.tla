------------------------------- MODULE Geometry -------------------------------
(***************************************************************************)
(* The coordinate arithmetic of internal/geometry: which chunk a block     *)
(* lies in, and which large chunk a chunk lies in, at which offset.  Go    *)
(* divides towards zero, so the remainder of a negative coordinate is      *)
(* negative until floorDiv corrects it.                                    *)
(***************************************************************************)
EXTENDS Integers

(* Go's / and %, for a positive divisor. *)
Quotient(value, divisor) ==
    IF value >= 0 THEN value \div divisor ELSE -((-value) \div divisor)

Remainder(value, divisor) ==
    IF value >= 0 THEN value % divisor ELSE -((-value) % divisor)

floorDiv(value, divisor) ==
    LET quotient == Quotient(value, divisor)
        remainder == Remainder(value, divisor)
    IN IF remainder < 0 THEN <<quotient - 1, remainder + divisor>> ELSE <<quotient, remainder>>

(* BlockToChunk with the chunk edge, ChunkToLargeChunk with the large one. *)
Mapping(coord, edge) ==
    [whole  |-> <<floorDiv(coord[1], edge)[1], floorDiv(coord[2], edge)[1]>>,
     offset |-> <<floorDiv(coord[1], edge)[2], floorDiv(coord[2], edge)[2]>>]

(* The region image of a chunk and its slot in it (fs_region's locate). *)
locate(coord, edge) ==
    LET mapping == Mapping(coord, edge)
    IN [region |-> mapping.whole, slot |-> mapping.offset[2] * edge + mapping.offset[1]]
================================================================================
