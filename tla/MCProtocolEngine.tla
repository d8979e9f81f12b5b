--------------------------- MODULE MCProtocolEngine ---------------------------
(***************************************************************************)
(* An instance of ProtocolEngine: one client reads, pages and sets a block *)
(* while the other unsets it, fills the chunk it is in, and fills and      *)
(* empties other chunks.                                                   *)
(***************************************************************************)
EXTENDS ProtocolEngine, TLC

CONSTANTS reader, o1, o2, stone

Command(name, items) == [name |-> name, items |-> items]

Filled == [o \in Offsets |-> stone]

Reading == {
    Command("CHUNKSCAN", <<>>),
    Command("CHUNKRANGE", <<1, 2, 3>>),
    Command("MGET", <<<<1, o1>>, <<2, o1>>>>),
    Command("CHUNK", <<1>>),
    Command("MSET", <<<<1, o1, stone>>>>)}

Writing == {
    Command("MSET", <<<<3, o2, stone>>, <<1, o1, Absent>>>>),
    Command("CHUNKSET", <<<<2, Filled>>>>),
    Command("CHUNKBATCH", <<<<2, Blank>>, <<1, Filled>>>>),
    Command("CHUNKVER", <<1>>),
    Command("WALFLUSH", <<>>)}

ReadingAndWriting == [s \in Sessions |-> IF s = reader THEN Reading ELSE Writing]
================================================================================
