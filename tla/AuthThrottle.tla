----------------------------- MODULE AuthThrottle -----------------------------
(***************************************************************************)
(* Throttling of failed authentications (server/auth.go) by the loops that *)
(* serve connections (serveConnection): failures and bans are kept per     *)
(* source in a bounded table that all connections share.  A connection     *)
(* reads the clock before it takes the tracker's mutex, so that the time   *)
(* it brings may be old.                                                   *)
(*                                                                         *)
(* The penalty delay, commands and responses are left out: between two     *)
(* calls of the tracker any time may pass and the connection may end.      *)
(***************************************************************************)
EXTENDS Lists, FiniteSets

CONSTANTS
    Sources,      \* source addresses (authSource)
    Connections,        \* connections that are served at the same time
    Source,       \* the source of a connection
    MaxSources,   \* maxAuthSources
    Limit,        \* tracker.limit
    BanDuration,  \* tracker.banDuration, in ticks of the clock
    MaxTime       \* bound on the clock

ASSUME ThrottleAssumption ==
    /\ IsFiniteSet(Connections)
    /\ Source \in [Connections -> Sources]
    /\ MaxSources \in Nat \ {0}
    /\ Limit \in Nat \ {0}
    /\ BanDuration \in Nat \ {0}
    /\ MaxTime \in Nat

VARIABLES
    now,        \* the clock
    failures,   \* failures of a source, 0 when it is not in the table
    until,      \* bannedUntil of a source, 0 for no ban
    recency,    \* the sources in the table, most recent first
    pc,         \* where a connection is in serveConnection
    authed,     \* "yes" when its session is authenticated
    stamp,      \* the time it brings to the tracker
    late        \* failures during the latest ban of a source (history)

table == <<failures, until, recency>>
throttleVars == <<now, table, pc, authed, stamp, late>>

ThrottleInit ==
    /\ now = 0
    /\ failures = [s \in Sources |-> 0]
    /\ until = [s \in Sources |-> 0]
    /\ recency = <<>>
    /\ pc = [c \in Connections |-> "closed"]
    /\ authed = [c \in Connections |-> "no"]
    /\ stamp = [c \in Connections |-> 0]
    /\ late = [s \in Sources |-> 0]

InTable(s) == \E i \in DOMAIN recency : recency[i] = s

(* touch moves a source to the front, if it is in the table. *)
Touched(s) == IF InTable(s) THEN <<s>> \o Remove(recency, s) ELSE recency

Tick ==
    /\ now < MaxTime
    /\ now' = now + 1
    /\ UNCHANGED <<table, pc, authed, stamp, late>>

(* A worker begins to serve a connection of the source. *)
BeginServing(c) ==
    /\ pc[c] = "closed"
    /\ pc' = [pc EXCEPT ![c] = "top"]
    /\ authed' = [authed EXCEPT ![c] = "no"]
    /\ UNCHANGED <<now, table, stamp, late>>

(* The connection ends: end of stream, error, timeout or QUIT. *)
End(c) ==
    /\ pc[c] \in {"top", "reading"}
    /\ pc' = [pc EXCEPT ![c] = "closed"]
    /\ UNCHANGED <<now, table, authed, stamp, late>>

(* The top of the loop: an authenticated session is not checked. *)
Top(c) ==
    /\ pc[c] = "top"
    /\ \/ /\ authed[c] = "yes"
          /\ pc' = [pc EXCEPT ![c] = "reading"]
          /\ UNCHANGED stamp
       \/ /\ authed[c] = "no"
          /\ pc' = [pc EXCEPT ![c] = "checking"]
          /\ stamp' = [stamp EXCEPT ![c] = now]
    /\ UNCHANGED <<now, table, authed, late>>

(* Wrong: nobody is found banned. *)
bannedNever(c) ==
    /\ pc[c] = "checking"
    /\ pc' = [pc EXCEPT ![c] = "reading"]
    /\ UNCHANGED <<now, table, authed, stamp, late>>

banned(c) ==
    /\ pc[c] = "checking"
    /\ recency' = Touched(Source[c])
    /\ \/ /\ stamp[c] < until[Source[c]]
          /\ pc' = [pc EXCEPT ![c] = "closed"]
          /\ UNCHANGED until
       \/ /\ stamp[c] >= until[Source[c]]
          /\ until' = [until EXCEPT ![Source[c]] = 0]
          /\ pc' = [pc EXCEPT ![c] = "reading"]
    /\ UNCHANGED <<now, failures, authed, stamp, late>>

(* A frame was read and handled: AUTH failed, AUTH succeeded, or another   *)
(* command ran.                                                            *)
AuthFails(c) ==
    /\ pc[c] = "reading"
    /\ authed' = [authed EXCEPT ![c] = "no"]
    /\ stamp' = [stamp EXCEPT ![c] = now]
    /\ pc' = [pc EXCEPT ![c] = "failed"]
    /\ UNCHANGED <<now, table, late>>

AuthSucceeds(c) ==
    /\ pc[c] = "reading"
    /\ authed' = [authed EXCEPT ![c] = "yes"]
    /\ pc' = [pc EXCEPT ![c] = IF authed[c] = "no" THEN "passed" ELSE "top"]
    /\ UNCHANGED <<now, table, stamp, late>>

OtherCommand(c) ==
    /\ pc[c] = "reading"
    /\ pc' = [pc EXCEPT ![c] = "top"]
    /\ UNCHANGED <<now, table, authed, stamp, late>>

(* Wrong: banned sources may be removed. *)
InactiveOrNot(t) == DOMAIN recency

(* The places in the table that makeRoom may free at a time. *)
Inactive(t) == {i \in DOMAIN recency : t >= until[recency[i]]}

(* The sources that makeRoom takes out for a new one: none while there is  *)
(* room, else the least recent that is not banned.                         *)
makeRoom(t, gone) ==
    \/ /\ Len(recency) < MaxSources
       /\ gone = {}
    \/ /\ Len(recency) >= MaxSources
       /\ \E i \in Inactive(t) : (\A j \in Inactive(t) : j <= i) /\ gone = {recency[i]}

ReachesLimit(n) == n >= Limit

(* One more failure of a source that is not banned, after the sources in   *)
(* gone left the table.                                                    *)
CountFailure(s, t, gone) ==
    /\ failures' = [x \in Sources |->
          CASE x = s -> (IF ReachesLimit(failures[s] + 1) THEN 0 ELSE failures[s] + 1)
            [] x \in gone -> 0
            [] OTHER -> failures[x]]
    /\ until' = [x \in Sources |->
          CASE x = s -> (IF ReachesLimit(failures[s] + 1) THEN t + BanDuration ELSE until[s])
            [] x \in gone -> 0
            [] OTHER -> until[x]]
    /\ recency' = <<s>> \o SelectSeq(recency, LAMBDA x : x \notin gone \cup {s})
    /\ late' = [x \in Sources |->
          IF x \in gone \/ (x = s /\ ReachesLimit(failures[s] + 1)) THEN 0 ELSE late[x]]

registerFailure(c) ==
    /\ pc[c] = "failed"
    /\ LET s == Source[c]
           t == stamp[c]
       IN  \/ /\ t < until[s]
              /\ recency' = Touched(s)
              /\ late' = [late EXCEPT ![s] = @ + 1]
              /\ UNCHANGED <<failures, until>>
           \/ /\ t >= until[s]
              /\ InTable(s)
              /\ CountFailure(s, t, {})
           \/ /\ t >= until[s]
              /\ ~InTable(s)
              /\ \E gone \in SUBSET Sources : makeRoom(t, gone) /\ CountFailure(s, t, gone)
           \/ /\ t >= until[s]
              /\ ~InTable(s)
              /\ Len(recency) >= MaxSources
              /\ Inactive(t) = {}
              /\ UNCHANGED <<table, late>>
    /\ pc' = [pc EXCEPT ![c] = "top"]
    /\ UNCHANGED <<now, authed, stamp>>

authenticated(c) ==
    /\ pc[c] = "passed"
    /\ failures' = [failures EXCEPT ![Source[c]] = 0]
    /\ until' = [until EXCEPT ![Source[c]] = 0]
    /\ recency' = Remove(recency, Source[c])
    /\ late' = [late EXCEPT ![Source[c]] = 0]
    /\ pc' = [pc EXCEPT ![c] = "top"]
    /\ UNCHANGED <<now, authed, stamp>>

Serve(c) ==
    \/ BeginServing(c)
    \/ End(c)
    \/ Top(c)
    \/ banned(c)
    \/ AuthFails(c)
    \/ AuthSucceeds(c)
    \/ OtherCommand(c)
    \/ registerFailure(c)
    \/ authenticated(c)

ThrottleNext == Tick \/ \E c \in Connections : Serve(c)

ThrottleSpec == ThrottleInit /\ [][ThrottleNext]_throttleVars

(***************************************************************************)
(* Properties                                                              *)
(***************************************************************************)

(* "An active ban is not evicted" (docs/CONCURRENCY.md): a ban whose end   *)
(* has not come goes only when a connection of its own source has          *)
(* authenticated, whatever other sources do to the table.                  *)
BanHolds ==
    [][\A s \in Sources :
          now < until[s] /\ until'[s] # until[s]
             => \E c \in Connections : Source[c] = s /\ pc[c] = "passed" /\ pc'[c] = "top"]_throttleVars

(* After the failure that brings a ban, a source gets at most one more     *)
(* answer for every other connection that was already past the check of    *)
(* the ban: reconnecting does not help.                                    *)
LateFailuresBounded ==
    \A s \in Sources :
       late[s] # 0 => late[s] < Cardinality({c \in Connections : Source[c] = s})
================================================================================
