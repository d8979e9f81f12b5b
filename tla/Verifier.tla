------------------------------- MODULE Verifier -------------------------------
(***************************************************************************)
(* regiondb-verify beside a running writer (Verify): it takes no lock and  *)
(* reads one file after another, so the writer may be anywhere in its      *)
(* protocol, or die and be reopened, between two of its reads.  It reads   *)
(* the generation first and last; a report on a missing, odd or changed    *)
(* generation says so whatever else it says, and such a scan is not        *)
(* followed further.  Files the store never writes (unreadable, misplaced  *)
(* or damaged ones) are outside the model.                                 *)
(***************************************************************************)
EXTENDS ChunkStore

VARIABLES
    vpc,       \* what the scan reads next
    vgen,      \* the generation read first
    vclock,    \* verifier.clock, NoClock when there was none
    vwal,      \* verifier.walBytes, in complete records
    vimages,   \* verifier.images
    vversions, \* verifier.versions, 0 when there is none
    issues     \* codes reported, with the chunk they are about

verifierVars == <<vpc, vgen, vclock, vwal, vimages, vversions, issues>>

NotScanned ==
    /\ vpc' = "start"
    /\ vgen' = 0
    /\ vclock' = NoClock
    /\ vwal' = 0
    /\ vimages' = {}
    /\ vversions' = [c \in Coords |-> 0]
    /\ issues' = {}

VerifierInit ==
    /\ vpc = "start"
    /\ vgen = 0
    /\ vclock = NoClock
    /\ vwal = 0
    /\ vimages = {}
    /\ vversions = [c \in Coords |-> 0]
    /\ issues = {}

(* generation_missing or generation_unstable ends the scan before it begins. *)
verifyGeneration ==
    /\ vpc = "start"
    /\ genFile # 0
    /\ ~Odd(genFile)
    /\ vgen' = genFile
    /\ vpc' = "clock"
    /\ UNCHANGED <<vclock, vwal, vimages, vversions, issues>>

verifyClock ==
    /\ vpc = "clock"
    /\ vclock' = clockFile
    /\ issues' = IF clockFile = NoClock THEN {[code |-> "version_clock_missing"]} ELSE {}
    /\ vpc' = "wal"
    /\ UNCHANGED <<vgen, vwal, vimages, vversions>>

(* The root is read in name order: the WAL comes before the chunks. *)
verifyWAL ==
    /\ vpc = "wal"
    /\ vwal' = Len(wal)
    /\ issues' = issues \cup (IF tail = "torn" THEN {[code |-> "wal_truncated"]} ELSE {})
    /\ vpc' = "images"
    /\ UNCHANGED <<vgen, vclock, vimages, vversions>>

verifyImage ==
    /\ vpc = "images"
    /\ vimages' = {c \in Coords : image[c] # Absent}
    /\ vpc' = "versions"
    /\ UNCHANGED <<vgen, vclock, vwal, vversions, issues>>

verifyVersion ==
    /\ vpc = "versions"
    /\ vversions' = ver
    /\ issues' = issues \cup
          {[code |-> "version_ahead_of_clock", coord |-> c] :
              c \in {d \in Coords : vclock # NoClock /\ ver[d] > vclock}}
    /\ vpc' = "intent"
    /\ UNCHANGED <<vgen, vclock, vwal, vimages>>

verifyImageVersions ==
    {[code |-> "version_missing", coord |-> c] : c \in {d \in vimages : vversions[d] = 0}} \cup
    {[code |-> "image_missing", coord |-> c] : c \in {d \in Coords \ vimages : vversions[d] # 0}}

(* The boundary is compared with the size the WAL had when it was read. *)
verifyIntent ==
    /\ vpc = "intent"
    /\ issues' = issues \cup verifyImageVersions \cup
          (IF intent.state = "none" THEN {} ELSE {[code |-> "intent_pending"]}) \cup
          (IF intent.state # "none" /\ intent.boundary > vwal
           THEN {[code |-> "intent_boundary_invalid"]} ELSE {})
    /\ vpc' = "final"
    /\ UNCHANGED <<vgen, vclock, vwal, vimages, vversions>>

(* A wrong GenerationKept: the generation is not read again at the end. *)
GenerationUnread(first, last) == TRUE

(* If not, verifyFinalGeneration reports generation_changed. *)
GenerationKept(first, last) == last = first

verifyFinalGeneration ==
    /\ vpc = "final"
    /\ NotScanned

(* A scan is followed no further once the writer moves the generation. *)
FollowScan == IF vpc # "start" /\ ~GenerationKept(vgen, genFile') THEN NotScanned ELSE UNCHANGED verifierVars

VerifierNext ==
    /\ \/ verifyGeneration
       \/ verifyClock
       \/ verifyWAL
       \/ verifyImage
       \/ verifyVersion
       \/ verifyIntent
       \/ verifyFinalGeneration
    /\ UNCHANGED vars

(* A report that does not say the generation moved is about the committed  *)
(* state: it lists the image of every chunk that has content, and it names *)
(* no fault but an intent that a failed cleanup left behind (a committed   *)
(* one may point beyond a WAL truncated since) and the missing image of a  *)
(* chunk that is empty.                                                    *)
ReportIsAboutCommitted ==
    vpc = "final" /\ GenerationKept(vgen, genFile) =>
        /\ \A c \in Coords : Recoverable(c) # Absent => c \in vimages
        /\ \A i \in issues :
              \/ i.code = "intent_pending" /\ intent.state # "none"
              \/ i.code = "intent_boundary_invalid" /\ intent.state = "committed"
              \/ i.code = "image_missing" /\ Recoverable(i.coord) = Absent
================================================================================
