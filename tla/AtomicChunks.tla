----------------------------- MODULE AtomicChunks -----------------------------
(***************************************************************************)
(* What the chunk store promises its caller, with no files in sight: a map *)
(* from coordinates to chunk contents that survives restarts and changes   *)
(* only by whole batches.  A batch takes effect at one instant between its *)
(* call and its answer, at most once; it is acknowledged only if it took   *)
(* effect and refused only if it did not.  When the store cannot tell, it  *)
(* halts: it answers with an error, the batch may or may not have taken    *)
(* effect, and no write is accepted until the store is restarted.          *)
(***************************************************************************)
CONSTANTS Coords, Contents

VARIABLES
    chunks,   \* the content of every chunk
    phase,    \* where the store is in serving its caller
    request,  \* the batch being served, a function on some coordinates
    answer    \* what the last call returned

vars == <<chunks, phase, request, answer>>

Requests == UNION {[D -> Contents] : D \in (SUBSET Coords) \ {{}}}

NoRequest == [c \in {} |-> c]

Applied == [c \in Coords |-> IF c \in DOMAIN request THEN request[c] ELSE chunks[c]]

Init ==
    /\ chunks \in [Coords -> Contents]
    /\ phase = "down"
    /\ request = NoRequest
    /\ answer = "none"

Start ==
    /\ phase = "down"
    /\ phase' = "ready"
    /\ UNCHANGED <<chunks, request, answer>>

Submit ==
    /\ phase = "ready"
    /\ phase' = "called"
    /\ request' \in Requests
    /\ answer' = "none"
    /\ UNCHANGED chunks

TakeEffect ==
    /\ phase = "called"
    /\ phase' = "done"
    /\ chunks' = Applied
    /\ UNCHANGED <<request, answer>>

Answer(from, res) ==
    /\ phase = from
    /\ phase' = "ready"
    /\ request' = NoRequest
    /\ answer' = res
    /\ UNCHANGED chunks

Acknowledge == Answer("done", "ok")

Refuse == Answer("called", "error")

Halt ==
    /\ phase = "called"
    /\ phase' = "halted"
    /\ chunks' \in {chunks, Applied}
    /\ request' = NoRequest
    /\ UNCHANGED answer

AnswerHalted ==
    /\ phase = "halted"
    /\ answer' = "error"
    /\ UNCHANGED <<chunks, phase, request>>

(* A flush changes no content. *)
Flush ==
    /\ phase = "ready"
    /\ phase' = "flushing"
    /\ answer' = "none"
    /\ UNCHANGED <<chunks, request>>

AnswerFlush == Answer("flushing", "ok") \/ Answer("flushing", "error")

(* Closing, or the death of the process: unanswered calls stay unanswered. *)
Stop ==
    /\ phase # "down"
    /\ phase' = "down"
    /\ request' = NoRequest
    /\ answer' = "none"
    /\ UNCHANGED chunks

Next ==
    \/ Start
    \/ Submit
    \/ TakeEffect
    \/ Acknowledge
    \/ Refuse
    \/ Halt
    \/ AnswerHalted
    \/ Flush
    \/ AnswerFlush
    \/ Stop

Spec == Init /\ [][Next]_vars
================================================================================
