------------------------------ MODULE LineBuffer ------------------------------
(***************************************************************************)
(* How a connection's bytes become command lines: lineBuffer of            *)
(* server/socket_io.go, called by the loop of serveConnection.  The        *)
(* network delivers the stream in pieces of any length; a line is at most  *)
(* maxLineBytes long, with its terminator, and a longer one is skipped and *)
(* answered with an error.                                                 *)
(*                                                                         *)
(* A byte is represented by its place in the stream.  The handling of a    *)
(* command and the response are left out: they happen before the next call *)
(* and do not touch the buffer.  A deadline that passes is a failing read. *)
(***************************************************************************)
EXTENDS Integers, Sequences, FiniteSets, SequencesExt

CONSTANTS
    maxLineBytes,
    MaxStream     \* bound on the length of the stream

VARIABLES
    stream,      \* the bytes the client sends: "n" a newline, "x" another
    sent,        \* how many of them were read
    data,        \* lineBuffer.data
    start,       \* lineBuffer.start
    end,         \* lineBuffer.end
    pendingErr,  \* "none", "eof" or "fail"
    pc,          \* "call", "frame", "discard", "done" or "panic"
    frames       \* what serveConnection was given, line by line

buffer == <<data, start, end, pendingErr>>
vars == <<stream, sent, buffer, pc, frames>>

(* A line that is answered with an error. *)
TooLong == <<0>>

Init ==
    /\ stream \in BoundedSeq({"n", "x"}, MaxStream)
    /\ sent = 0
    /\ data = [i \in 1..(maxLineBytes + 1) |-> 0]
    /\ start = 0
    /\ end = 0
    /\ pendingErr = "none"
    /\ pc = "call"
    /\ frames = <<>>

Buffered == SubSeq(data, start + 1, end)

(* The place of the first newline among some bytes, 0 for none. *)
Newline(bytes) ==
    LET places == {i \in DOMAIN bytes : stream[bytes[i]] = "n"}
    IN IF places = {} THEN 0 ELSE CHOOSE i \in places : \A j \in places : i <= j

(* Read into the buffer behind a place: some of the bytes that are left,   *)
(* with or without the error that ends the stream.                         *)
Read(n, err) ==
    /\ n <= Len(stream) - sent
    /\ err = "eof" => sent + n = Len(stream)
    /\ n # 0 \/ err # "none"
    /\ sent' = sent + n

Filled(old, at, n) ==
    [i \in DOMAIN old |-> IF i \in (at + 1)..(at + n) THEN sent + i - at ELSE old[i]]

Errors == {"none", "eof", "fail"}

(* readFrameWithin: what is in the buffer goes first; an empty buffer is   *)
(* filled from its beginning, and end is set but not start.                *)
readFrameWithin ==
    /\ pc = "call"
    /\ \/ /\ start # end \/ pendingErr # "none"
          /\ UNCHANGED <<sent, buffer>>
       \/ /\ start = end
          /\ pendingErr = "none"
          /\ \E n \in 0..Len(data), err \in Errors :
                /\ Read(n, err)
                /\ data' = Filled(data, 0, n)
                /\ end' = n
                /\ pendingErr' = err
          /\ UNCHANGED start
    /\ pc' = "frame"
    /\ UNCHANGED <<stream, frames>>

(* consume leaves an empty buffer at its beginning. *)
consume(upTo) ==
    /\ start' = IF upTo = end THEN 0 ELSE upTo
    /\ end' = IF upTo = end THEN 0 ELSE end

(* The slice of the buffered bytes with its bounds crossed. *)
SlicePanics ==
    /\ pc = "frame"
    /\ start > end
    /\ pc' = "panic"
    /\ UNCHANGED <<stream, sent, buffer, frames>>

Deliver(frame) ==
    frames' = Append(frames, IF Len(frame) > maxLineBytes THEN TooLong ELSE frame)

TakeLine ==
    /\ pc = "frame"
    /\ start <= end
    /\ Newline(Buffered) # 0
    /\ Deliver(SubSeq(Buffered, 1, Newline(Buffered)))
    /\ consume(start + Newline(Buffered))
    /\ pc' = "call"
    /\ UNCHANGED <<stream, sent, data, pendingErr>>

(* The stream has ended.  serveConnection still handles the bytes before   *)
(* an end of file, and answers a line that is too long, and returns.       *)
TakeRest ==
    /\ pc = "frame"
    /\ start <= end
    /\ Newline(Buffered) = 0
    /\ pendingErr # "none"
    /\ IF Len(Buffered) > maxLineBytes \/ (pendingErr = "eof" /\ Buffered # <<>>)
       THEN Deliver(Buffered)
       ELSE UNCHANGED frames
    /\ consume(end)
    /\ pendingErr' = "none"
    /\ pc' = "done"
    /\ UNCHANGED <<stream, sent, data>>

(* The rest of readFrame's loop: skip a line that is too long, or compact  *)
(* the buffer and read more.                                               *)
ReadMore ==
    /\ pc = "frame"
    /\ start <= end
    /\ Newline(Buffered) = 0
    /\ pendingErr = "none"
    /\ \/ /\ Len(Buffered) > maxLineBytes
          /\ start' = 0
          /\ end' = 0
          /\ pc' = "discard"
          /\ UNCHANGED <<sent, data, pendingErr>>
       \/ /\ Len(Buffered) <= maxLineBytes
          /\ \E n \in 0..(Len(data) - Len(Buffered)), err \in Errors :
                /\ Read(n, err)
                /\ LET compacted == [i \in DOMAIN data |-> IF i <= end - start THEN data[start + i] ELSE data[i]]
                   IN data' = Filled(compacted, end - start, n)
                /\ end' = end - start + n
                /\ pendingErr' = err
          /\ start' = 0
          /\ UNCHANGED pc
    /\ UNCHANGED <<stream, frames>>

discardOversized ==
    /\ pc = "discard"
    /\ \E n \in 0..Len(data), err \in Errors :
          LET newline == Newline(SubSeq(Filled(data, 0, n), 1, n)) IN
          /\ Read(n, err)
          /\ data' = Filled(data, 0, n)
          /\ \/ /\ newline # 0
                /\ start' = newline
                /\ end' = n
                /\ pendingErr' = err
                /\ frames' = Append(frames, TooLong)
                /\ pc' = "call"
             \/ /\ newline = 0
                /\ err # "none"
                /\ frames' = Append(frames, TooLong)
                /\ pc' = "done"
                /\ UNCHANGED <<start, end, pendingErr>>
             \/ /\ newline = 0
                /\ err = "none"
                /\ UNCHANGED <<start, end, pendingErr, frames, pc>>
    /\ UNCHANGED stream

Next == readFrameWithin \/ SlicePanics \/ TakeLine \/ TakeRest \/ ReadMore \/ discardOversized

Spec == Init /\ [][Next]_vars

(***************************************************************************)
(* Properties                                                              *)
(***************************************************************************)

(* The lines of the stream, each with its newline, as places. *)
Lines ==
    LET newlines == {i \in DOMAIN stream : stream[i] = "n"}
        ends == (newlines \cup {Len(stream)}) \ {0}
        line(e) == LET before == {i \in newlines : i < e}
                       first == 1 + (IF before = {} THEN 0 ELSE CHOOSE i \in before : \A j \in before : j <= i)
                   IN [i \in 1..(e - first + 1) |-> first + i - 1]
    IN [k \in 1..Cardinality(ends) |->
           LET e == CHOOSE e \in ends : Cardinality({x \in ends : x < e}) = k - 1
           IN IF Len(line(e)) > maxLineBytes THEN TooLong ELSE line(e)]

(* However the network cuts the stream, the server is given the lines of   *)
(* the stream in order: a line longer than the limit is rejected and the   *)
(* connection stays available for the next ("keeps the connection          *)
(* available after a complete oversized line", docs/PROTOCOL.md).          *)
FramesAreLines == pc # "panic" /\ IsPrefix(frames, Lines)
================================================================================
