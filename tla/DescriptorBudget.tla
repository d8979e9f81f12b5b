--------------------------- MODULE DescriptorBudget ---------------------------
(***************************************************************************)
(* How the server divides the process's file descriptors between sockets   *)
(* and WAL handles at start-up: serverDescriptorReserve and                *)
(* autoFitDescriptorLimits of cmd/regiondb/main.go, over the budget of     *)
(* fs_split/descriptor_budget.go.  A configuration is [workers,            *)
(* acceptQueue, streams]; sums that overflow an int are left out.          *)
(***************************************************************************)
EXTENDS Integers

(* descriptorReserve: standard streams, logs and short-lived files. *)
ProcessReserve == 32

(* The listener, a socket for each worker and each place of the queue, and *)
(* the one the accept loop has yet to place.                               *)
serverDescriptorReserve(workers, acceptQueue) == 2 + workers + acceptQueue

(* AvailableWALDescriptors under a limit of the process. *)
walDescriptorBudget(limit, reserve) ==
    IF limit <= ProcessReserve + reserve THEN 0 ELSE limit - (ProcessReserve + reserve)

(* The pool's limit after the store has opened (EffectiveWALHandleLimit):  *)
(* at least one handle, whatever the budget.                               *)
EffectiveWALHandleLimit(requested, limit, reserve) ==
    LET budget == walDescriptorBudget(limit, reserve)
        usable == IF budget < 1 THEN 1 ELSE budget
    IN IF requested > usable THEN usable ELSE requested

(* What autoFitDescriptorLimits returns with an error. *)
NoConfig == [workers |-> 0, acceptQueue |-> 0, streams |-> 0]

(* A wrong QueueSearch: the middle is rounded down, and the last step does *)
(* not test what it settles on.                                            *)
QueueSearchUntested(config, limit, low, high) ==
    LET search[l \in low..high, h \in low..high] ==
            IF l >= h - 1 THEN h
            ELSE LET candidate == l + (h - l) \div 2
                     available == walDescriptorBudget(limit,
                                     serverDescriptorReserve(config.workers, candidate))
                 IN IF available >= config.streams THEN search[candidate, h] ELSE search[l, candidate]
    IN search[low, high]

(* The bisection for the longest queue that leaves room for the streams. *)
QueueSearch(config, limit, low, high) ==
    LET search[l \in low..high, h \in low..high] ==
            IF l >= h THEN l
            ELSE LET candidate == l + (h - l + 1) \div 2
                     available == walDescriptorBudget(limit,
                                     serverDescriptorReserve(config.workers, candidate))
                 IN IF available >= config.streams THEN search[candidate, h] ELSE search[l, candidate - 1]
    IN search[low, high]

autoFitDescriptorLimits(config, limit) ==
    LET available(acceptQueue) ==
            walDescriptorBudget(limit, serverDescriptorReserve(config.workers, acceptQueue))
    IN IF available(config.acceptQueue) >= config.streams THEN config
       ELSE IF available(0) < 1 THEN NoConfig
       ELSE IF available(0) < config.streams
       THEN [config EXCEPT !.acceptQueue = 0, !.streams = available(0)]
       ELSE [config EXCEPT !.acceptQueue = QueueSearch(config, limit, 0, config.acceptQueue)]

(* Every socket the server may hold, the reserve and every WAL handle fit  *)
(* the limit together. *)
Affordable(config, limit) ==
    ProcessReserve + serverDescriptorReserve(config.workers, config.acceptQueue) + config.streams <= limit

(* Start-up refuses a limit only when one stream and no queue do not fit.  *)
(* Otherwise what it settles on fits the limit, the store's own clamp      *)
(* leaves it alone, and nothing is given up needlessly: a longer queue, or *)
(* more streams when there is no queue, would not fit.                     *)
BestFit(config, limit) ==
    LET fitted == autoFitDescriptorLimits(config, limit)
        reserve == serverDescriptorReserve(fitted.workers, fitted.acceptQueue)
    IN IF fitted = NoConfig
       THEN ~Affordable([config EXCEPT !.acceptQueue = 0, !.streams = 1], limit)
       ELSE /\ Affordable(fitted, limit)
            /\ EffectiveWALHandleLimit(fitted.streams, limit, reserve) = fitted.streams
            /\ fitted.acceptQueue < config.acceptQueue =>
                  ~Affordable([fitted EXCEPT !.acceptQueue = @ + 1, !.streams = config.streams], limit)
            /\ fitted.streams < config.streams =>
                  fitted.acceptQueue = 0 /\ ~Affordable([fitted EXCEPT !.streams = @ + 1], limit)
================================================================================
