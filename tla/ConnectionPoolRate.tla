------------------------- MODULE ConnectionPoolRate -------------------------
(***************************************************************************)
(* ConnectionPool with a history variable: the requests charged to each    *)
(* connection in the last REQUEST_WINDOW ticks, by age in ticks.  It reads *)
(* the pool and never constrains it.                                       *)
(***************************************************************************)
EXTENDS ConnectionPool, FiniteSetsExt

VARIABLE recent  \* recent[c][a]: requests charged to c, a ticks ago

Ages == 0 .. REQUEST_WINDOW - 1

RateInit == Init /\ recent = [c \in Conns |-> [a \in Ages |-> 0]]

RateNext ==
    \/ /\ HandleRequest
       /\ recent' = [recent EXCEPT ![current][0] = @ + 1]
    \/ /\ Tick
       /\ recent' = [c \in Conns |-> [a \in Ages |->
                        IF a = 0 THEN 0 ELSE recent[c][a - 1]]]
    \/ /\ UpdateConnection \/ EnsureConnection \/ \E c \in Conns : CooldownOver(c)
       /\ UNCHANGED recent

RateSpec == RateInit /\ [][RateNext]_<<vars, recent>>

LastWindow(c) == MapThenSumSet(LAMBDA a : recent[c][a], Ages)

(***************************************************************************)
(* "rateLimit: number; // requests per second": a connection that may be   *)
(* selected is sent to cool down only when that many requests were charged *)
(* to it within one window.  The code breaks this: every request restarts  *)
(* the window, so the count grows for as long as no window passes idle,    *)
(* and a connection used steadily, far below its rate, cools down.         *)
(***************************************************************************)
CoolsDownAtRateLimit ==
    [][\A c \in Conns : status[c] = "ACTIVE" /\ status'[c] = "COOLING"
         => LastWindow(c)' >= RateLimit[c]]_<<vars, recent>>
=============================================================================
