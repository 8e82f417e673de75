--------------------------- MODULE ConnectionPool ---------------------------
(***************************************************************************)
(* ConnectionManagerService: the pool of RPC connections, with the part of *)
(* its one client, BlockchainService, that selects the current connection. *)
(*                                                                         *)
(* JavaScript runs every method here to completion, so each is one step.   *)
(* Date.now() is abstracted to ticks.  Only `now - lasRequestTime' is ever *)
(* tested, and only against REQUEST_WINDOW, so a connection keeps the time *)
(* since lasRequestTime, saturating there; a setTimeout keeps the time it  *)
(* has left, and one that has none left fires when the event loop gets to  *)
(* it.                                                                     *)
(***************************************************************************)
EXTENDS Integers, Sequences

CONSTANTS
    N,               \* connections.length: quicknode-1, quicknode-2, ankr-1
    RateLimit,       \* rateLimit of each connection
    REQUEST_WINDOW,  \* in ticks
    CooldownPeriod,  \* in ticks
    MaxTimers        \* bound: cooldown timers pending on one connection

Conns == 0 .. N - 1  \* a connection is its index in this.connections

ASSUME PoolAssumption ==
    /\ N \in Nat /\ N >= 2
    /\ RateLimit \in [Conns -> Nat \ {0}]
    /\ REQUEST_WINDOW \in Nat \ {0}
    /\ CooldownPeriod \in Nat \ {0}
    /\ MaxTimers \in Nat \ {0}

VARIABLES
    status,          \* ACTIVE or COOLING (ERROR is declared, never assigned)
    requestCount,
    sinceRequest,    \* time since lasRequestTime, up to REQUEST_WINDOW
    timers,          \* time left of each pending cooldown timer, oldest first
    currentIndex,    \* where the round robin looks next
    current          \* BlockchainService.currentConnection

vars == <<status, requestCount, sinceRequest, timers, currentIndex, current>>

(***************************************************************************)
(* The state after both constructors that take a connection have run:      *)
(* TokenMetricsService, which BlockchainService depends on, took the first *)
(* and BlockchainService the second.                                       *)
(***************************************************************************)
Wrap(i) == IF i < N THEN i ELSE i - N  \* i % connections.length, for i < 2N

Init ==
    /\ status = [c \in Conns |-> "ACTIVE"]
    /\ requestCount = [c \in Conns |-> 0]
    /\ sinceRequest = [c \in Conns |-> IF c <= 1 THEN 0 ELSE REQUEST_WINDOW]
    /\ timers = [c \in Conns |-> <<>>]
    /\ current = 1
    /\ currentIndex = Wrap(2)

-----------------------------------------------------------------------------
(* The rate window, reset by whoever looks at it.                          *)

Stale(c) == sinceRequest[c] >= REQUEST_WINDOW

CountNow(c) == IF Stale(c) THEN 0 ELSE requestCount[c]

\* Looking at the connections in S restarts their elapsed windows.
Refresh(S) ==
    /\ requestCount' = [c \in Conns |-> IF c \in S THEN CountNow(c)
                                                   ELSE requestCount[c]]
    /\ sinceRequest' = [c \in Conns |-> IF c \in S /\ Stale(c)
                                        THEN 0 ELSE sinceRequest[c]]

IsNearRateLimit(c) == 5 * CountNow(c) > 4 * RateLimit[c]

\* Mutant: the selection also refuses a connection that is near its limit.
HealthyUnlessNear(c) == status[c] = "ACTIVE" /\ ~IsNearRateLimit(c)

IsConnectionHealthy(c) == status[c] = "ACTIVE" /\ CountNow(c) < RateLimit[c]

-----------------------------------------------------------------------------
(* getNextHealthyConnection: one turn of the ring, from currentIndex.      *)

At(k) == Wrap(currentIndex + k)

IsFirstHealthy(k) == /\ IsConnectionHealthy(At(k))
                     /\ \A j \in 0 .. k - 1 : ~IsConnectionHealthy(At(j))

\* isConnectionHealthy returns before the window when a connection is COOLING.
Visited(k) == {c \in {At(j) : j \in 0 .. k} : status[c] = "ACTIVE"}

\* Mutants: the index stays on the connection returned; it is not wrapped.
IndexStays(k) == At(k)
IndexUnwrapped(k) == At(k) + 1

IndexAfter(k) == Wrap(At(k) + 1)

NextHealthyFound ==
    \E k \in Conns :
        /\ IsFirstHealthy(k)
        /\ Refresh(Visited(k))
        /\ current' = At(k)
        /\ currentIndex' = IndexAfter(k)
        /\ UNCHANGED <<status, timers>>

\* 'No healthy connections available' is thrown: the index has come round.
NoHealthyConnection == \A c \in Conns : ~IsConnectionHealthy(c)

NextHealthyThrows ==
    /\ NoHealthyConnection
    /\ Refresh(Visited(N - 1))
    /\ UNCHANGED <<status, timers, currentIndex, current>>

\* BlockchainService.updateConnection, called after a failed call.
UpdateConnection == NextHealthyFound \/ NextHealthyThrows

(***************************************************************************)
(* The prologue of the guarded RPC calls: switch when the current one is   *)
(* near its limit.  A connection near its limit is not Stale, so the look  *)
(* at it changes nothing before the switch.                                *)
(***************************************************************************)
EnsureConnection ==
    \/ /\ IsNearRateLimit(current)
       /\ UpdateConnection
    \/ /\ ~IsNearRateLimit(current)
       /\ Refresh({current})
       /\ UNCHANGED <<status, timers, currentIndex, current>>

\* Mutant: the limit itself is still allowed.
ExceedsLimit(count) == count > RateLimit[current]

ReachesLimit(count) == count >= RateLimit[current]

\* handleRequest on the current connection, the only one it is called with.
HandleRequest ==
    LET count == requestCount[current] + 1 IN
    /\ requestCount' = [requestCount EXCEPT ![current] = count]
    /\ sinceRequest' = [sinceRequest EXCEPT ![current] = 0]
    /\ \/ /\ ~ReachesLimit(count)
          /\ UNCHANGED <<status, timers>>
       \/ /\ ReachesLimit(count)
          /\ Len(timers[current]) < MaxTimers
          /\ status' = [status EXCEPT ![current] = "COOLING"]
          /\ timers' = [timers EXCEPT ![current] = Append(@, CooldownPeriod)]
    /\ UNCHANGED <<currentIndex, current>>

\* Mutant: only a connection that went idle is revived.
RevivedIfIdle(c) == IF Stale(c) THEN "ACTIVE" ELSE status[c]

Revived(c) == "ACTIVE"

\* The callback of cooldownConnection's setTimeout.
CooldownOver(c) ==
    /\ timers[c] # <<>> /\ Head(timers[c]) = 0
    /\ timers' = [timers EXCEPT ![c] = Tail(@)]
    /\ status' = [status EXCEPT ![c] = Revived(c)]
    /\ requestCount' = [requestCount EXCEPT ![c] = 0]
    /\ UNCHANGED <<sinceRequest, currentIndex, current>>

\* Time passes; a due timer may be late but never early.
Tick ==
    /\ sinceRequest' = [c \in Conns |-> IF Stale(c) THEN sinceRequest[c]
                                                    ELSE sinceRequest[c] + 1]
    /\ timers' = [c \in Conns |-> [i \in 1 .. Len(timers[c]) |->
                    IF timers[c][i] > 0 THEN timers[c][i] - 1 ELSE 0]]
    /\ UNCHANGED <<status, requestCount, currentIndex, current>>

Next ==
    \/ UpdateConnection
    \/ EnsureConnection
    \/ HandleRequest
    \/ \E c \in Conns : CooldownOver(c)
    \/ Tick

Spec == Init /\ [][Next]_vars

\* The clock advances and the event loop serves the timers that are due.
Fairness == WF_vars(Tick) /\ \A c \in Conns : WF_vars(CooldownOver(c))

FairSpec == Spec /\ Fairness

-----------------------------------------------------------------------------
TypeOK ==
    /\ status \in [Conns -> {"ACTIVE", "COOLING"}]
    /\ requestCount \in [Conns -> Nat]
    /\ sinceRequest \in [Conns -> 0 .. REQUEST_WINDOW]
    /\ timers \in [Conns -> Seq(0 .. CooldownPeriod)]
    /\ currentIndex \in Conns
    /\ current \in Conns

(***************************************************************************)
(* The count of a connection that may be selected is below its limit,      *)
(* whatever resets of the window, cooldowns and overlapping timers came    *)
(* before: the second test of isConnectionHealthy never decides.           *)
(***************************************************************************)
ActiveBelowLimit ==
    \A c \in Conns : status[c] = "ACTIVE" => requestCount[c] < RateLimit[c]

(***************************************************************************)
(* A connection is never left COOLING with nothing scheduled to revive it. *)
(***************************************************************************)
CoolingHasTimer ==
    \A c \in Conns : status[c] = "COOLING" => timers[c] # <<>>

(***************************************************************************)
(* getNextHealthyConnection throws only if every connection cools down: an *)
(* ACTIVE one is always good enough to be returned.                        *)
(***************************************************************************)
ThrowsOnlyWhenAllCooling ==
    NoHealthyConnection => \A c \in Conns : status[c] = "COOLING"

(***************************************************************************)
(* updateConnection is called because the current connection failed or is  *)
(* near its limit: it never hands back that connection while another one   *)
(* is healthy.                                                             *)
(***************************************************************************)
RotatesAway ==
    [][UpdateConnection /\ (\E c \in Conns \ {current} : IsConnectionHealthy(c))
         => current' # current]_vars

(***************************************************************************)
(* Every cooldown ends, even if requests keep being charged to the COOLING *)
(* connection.                                                             *)
(***************************************************************************)
CooldownEnds ==
    \A c \in Conns : status[c] = "COOLING" ~> status[c] = "ACTIVE"
=============================================================================
